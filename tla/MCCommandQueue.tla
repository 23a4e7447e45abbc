--------------------------- MODULE MCCommandQueue ---------------------------
(***************************************************************************)
(* Instances of CommandQueue for TLC.                                      *)
(***************************************************************************)
EXTENDS CommandQueue, TLC

CONSTANTS r1, k1

Request(kind, priority, run, key, payload) ==
    [kind |-> kind, priority |-> priority, run |-> run, key |-> key, payload |-> payload]

\* One request of every kind a boundary or a terminal commit tells apart.
MCRequests ==
    {Request("enqueue_user_message",  "now",   r1, k1,    "message"),
     Request("redirect_user_message", "now",   r1, NoKey, "message"),
     Request("enqueue_user_message",  "next",  r1, NoKey, "message"),
     Request("steer_user_message",    "later", r1, NoKey, "message"),
     Request("interrupt",             "now",   r1, NoKey, "blank"),
     Request("config",                "now",   r1, k1,    "blank")}

\* Fewer requests, for the store whose enqueue calls wait outside its lock.
MCRaceRequests ==
    {Request("enqueue_user_message",  "now",   r1, k1,    "message"),
     Request("redirect_user_message", "now",   r1, NoKey, "message"),
     Request("enqueue_user_message",  "next",  r1, NoKey, "message"),
     Request("interrupt",             "now",   r1, NoKey, "blank")}

ClaimantSymmetry == Permutations(Claimants)
=============================================================================
