---------------------------- MODULE MCRunManager ----------------------------
(* Two runs and a client; the table holds one of them.                      *)
EXTENDS RunManager
=============================================================================
