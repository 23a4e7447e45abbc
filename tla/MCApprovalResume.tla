-------------------------- MODULE MCApprovalResume --------------------------
(* One run, resumed by two interchangeable processes. *)
EXTENDS ApprovalResume, TLC

ClientSymmetry == Permutations(Clients)
=============================================================================
