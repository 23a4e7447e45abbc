------------------------------ MODULE MCLiveRun ------------------------------
(***************************************************************************)
(* Instances of LiveRun for TLC.                                           *)
(***************************************************************************)
EXTENDS LiveRun

CONSTANTS r1

Request(kind, priority, payload) ==
    [kind |-> kind, priority |-> priority, run |-> r1, key |-> NoKey, payload |-> payload]

Steer == Request("enqueue_user_message", "now", "message")
Redirect == Request("redirect_user_message", "now", "message")
QueueNext == Request("enqueue_user_message", "next", "message")
Stop == Request("interrupt", "now", "blank")

\* One request of every kind the turn tells apart.
MCRequests ==
    {Steer, Redirect, QueueNext, Stop,
     Request("steer_user_message", "now", "text"),
     Request("enqueue_user_message", "next", "blank"),
     Request("cancel_queued_message", "now", "blank"),
     Request("pause", "now", "blank"),
     Request("config", "now", "blank")}

MCLive == {Steer, Redirect}
=============================================================================
