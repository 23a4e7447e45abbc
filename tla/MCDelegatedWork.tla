--------------------------- MODULE MCDelegatedWork ---------------------------
(***************************************************************************)
(* Small instances of DelegatedWork: three environments and two workers, a *)
(* job started over once, more tasks than the runtime runs children, in a  *)
(* group that is repeated, and three mailbox items under one key, two of   *)
(* them of one kind.                                                       *)
(***************************************************************************)
EXTENDS DelegatedWork

CONSTANTS i1, i2, i3

MCKey == [i \in {i1, i2, i3} |-> "k"]
MCKind == [i \in {i1, i2, i3} |-> IF i = i3 THEN "response" ELSE "request"]
=============================================================================
