-------------------------- MODULE MCControlPlane --------------------------
(***************************************************************************)
(* A small instance of ControlPlane: three handles and two threads, two    *)
(* driving processes, a run manager that keeps one run of two, and two     *)
(* clients and sessions at the gateway.                                    *)
(***************************************************************************)
EXTENDS ControlPlane
=============================================================================
