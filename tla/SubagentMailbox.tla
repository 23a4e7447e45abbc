-------------------------- MODULE SubagentMailbox --------------------------
(***************************************************************************)
(* The mailbox of one parent run (subagents/mailbox.py) and the helper     *)
(* that collects it (subagents/status.py).  The in-memory store does an    *)
(* operation in one step; the SQLite store opens a connection for every    *)
(* statement, so what was read may be stale when it is written, by another *)
(* process on the same file.                                               *)
(***************************************************************************)
EXTENDS FiniteSets

CONSTANTS
    Items,      \* mailbox ids, each enqueued once
    Key,        \* the dedupe key of an item
    Kind,       \* its direction, kind and source
    Processes,  \* parents, children and control tools that use the store
    NoItem

\* What the constants have to be.
MailboxAssumption ==
    /\ IsFiniteSet(Items) /\ NoItem \notin Items /\ "raised" \notin Items
    /\ DOMAIN Key = Items /\ DOMAIN Kind = Items

VARIABLES
    sqlite,     \* which of the two stores it is
    status,     \* the status of every item, absent before it is stored
    call,       \* the operation a process is in
    left,       \* history: per item, the rows out of the queue when its enqueue began
    answer      \* history: per item, the row its enqueue returned, or that it raised

vars == <<sqlite, status, call, left, answer>>

SubagentMailboxStatus == {"queued", "delivered", "acknowledged", "cancelled"}
Idle == [op |-> "idle", item |-> NoItem, to |-> "queued", rest |-> {}]
Raised == "raised"

Init ==
    /\ sqlite \in BOOLEAN
    /\ status = [i \in Items |-> "absent"]
    /\ call = [p \in Processes |-> Idle]
    /\ left = [i \in Items |-> {}]
    /\ answer = [i \in Items |-> NoItem]

list_pending == {i \in Items : status[i] = "queued"}

\* The queued items an item is merged into.
_dedupe_match(i) == {j \in list_pending : Key[j] = Key[i] /\ Kind[j] = Kind[i]}

\* Mutant: the index covers the id only.
NoIndex(i) == FALSE

\* The unique index on (parent_run_id, dedupe_key) of the queued rows.
subagent_mailbox_dedupe_idx(i) == \E j \in list_pending \ {i} : Key[j] = Key[i]

\* enqueue, up to the lookup: the match is returned; memory stores at once.
enqueue(p, i) ==
    /\ call[p] = Idle
    /\ status[i] = "absent" /\ answer[i] = NoItem
    /\ \A q \in Processes : call[q].item # i
    /\ left' = [left EXCEPT ![i] = {j \in Items : status[j] \notin {"absent", "queued"}}]
    /\ \/ \E j \in _dedupe_match(i) :
             answer' = [answer EXCEPT ![i] = j] /\ UNCHANGED <<status, call>>
       \/ /\ _dedupe_match(i) = {}
          /\ \/ /\ ~sqlite
                /\ status' = [status EXCEPT ![i] = "queued"]
                /\ answer' = [answer EXCEPT ![i] = i]
                /\ UNCHANGED call
             \/ /\ sqlite
                /\ call' = [call EXCEPT ![p] = [Idle EXCEPT !.op = "insert", !.item = i]]
                /\ UNCHANGED <<status, answer>>
    /\ UNCHANGED sqlite

\* _upsert of a new row: the index may refuse it, and the error reaches the caller.
InsertRow(p) ==
    /\ call[p].op = "insert"
    /\ call' = [call EXCEPT ![p] = Idle]
    /\ LET i == call[p].item
       IN \/ /\ ~subagent_mailbox_dedupe_idx(i)
             /\ status' = [status EXCEPT ![i] = "queued"]
             /\ answer' = [answer EXCEPT ![i] = i]
          \/ /\ subagent_mailbox_dedupe_idx(i)
             /\ answer' = [answer EXCEPT ![i] = Raised]
             /\ UNCHANGED status
    /\ UNCHANGED <<sqlite, left>>

\* acknowledge and cancel: the row is read, and in memory written at once.
_update_status(p, i, to) ==
    /\ call[p] = Idle
    /\ status[i] # "absent"
    /\ \/ /\ ~sqlite
          /\ status' = [status EXCEPT ![i] = to]
          /\ UNCHANGED call
       \/ /\ sqlite
          /\ call' = [call EXCEPT ![p] = [Idle EXCEPT !.op = "update", !.item = i, !.to = to]]
          /\ UNCHANGED status
    /\ UNCHANGED <<sqlite, left, answer>>

\* Mutant: the status is toggled, so that a second delivery undoes the first.
WriteBack(p) ==
    /\ call[p].op = "update"
    /\ status' = [status EXCEPT ![call[p].item] = IF @ = call[p].to THEN "queued" ELSE call[p].to]
    /\ call' = [call EXCEPT ![p] = IF call[p].rest = {} THEN Idle
                                   ELSE [Idle EXCEPT !.op = "collect", !.rest = call[p].rest]]
    /\ UNCHANGED <<sqlite, left, answer>>

\* The row that was read is written with its new status, whatever happened to it since.
UpdateRow(p) ==
    /\ call[p].op = "update"
    /\ status' = [status EXCEPT ![call[p].item] = call[p].to]
    /\ call' = [call EXCEPT ![p] = IF call[p].rest = {} THEN Idle
                                   ELSE [Idle EXCEPT !.op = "collect", !.rest = call[p].rest]]
    /\ UNCHANGED <<sqlite, left, answer>>

\* collect_subagent_mailbox: the pending items are listed ...
collect_subagent_mailbox(p) ==
    /\ call[p] = Idle
    /\ list_pending # {}
    /\ call' = [call EXCEPT ![p] = [Idle EXCEPT !.op = "collect", !.rest = list_pending]]
    /\ UNCHANGED <<sqlite, status, left, answer>>

\* ... and marked one by one.
mark_delivered(p, i) ==
    /\ call[p].op = "collect"
    /\ i \in call[p].rest
    /\ LET rest == call[p].rest \ {i}
       IN \/ /\ ~sqlite
             /\ status' = [status EXCEPT ![i] = "delivered"]
             /\ call' = [call EXCEPT ![p] = IF rest = {} THEN Idle ELSE [@ EXCEPT !.rest = rest]]
          \/ /\ sqlite
             /\ call' = [call EXCEPT ![p] = [op |-> "update", item |-> i, to |-> "delivered",
                                             rest |-> rest]]
             /\ UNCHANGED status
    /\ UNCHANGED <<sqlite, left, answer>>

Next ==
    \E p \in Processes :
        \/ InsertRow(p) \/ UpdateRow(p) \/ collect_subagent_mailbox(p)
        \/ \E i \in Items : \/ enqueue(p, i) \/ mark_delivered(p, i)
                            \/ \E to \in {"acknowledged", "cancelled"} : _update_status(p, i, to)

Spec == Init /\ [][Next]_vars

-----------------------------------------------------------------------------
\* Two processes that enqueue at once never leave two queued items where one was to be
\* merged into the other: the lookup and the insert are two statements, the index decides.
OneQueuedPerKey ==
    \A i, j \in list_pending : i # j => Key[i] # Key[j] \/ Kind[i] # Kind[j]

\* A message is merged only into an item somebody has still to collect: never into one that
\* was delivered, acknowledged or cancelled before the message was sent.
NotMergedIntoThePast ==
    \A i \in Items : answer[i] \in Items => /\ answer[i] \notin left[i]
                                            /\ status[answer[i]] # "absent"

\* An item that has left the queue does not come back, whatever stale row is written last: no
\* collector is shown it a second time after its status was changed.
NeverRequeued ==
    [][\A i \in Items : status[i] \notin {"absent", "queued"} => status'[i] # "queued"]_vars

\* mark_delivered, "Mark a queued mailbox item as delivered": an item that was acknowledged
\* or cancelled is not delivered afterwards.
DeliversQueued ==
    [][\A i \in Items : status'[i] = "delivered" => status[i] \in {"queued", "delivered"}]_vars

\* enqueue, "Persist a mailbox item or return a deduped queued item": it does not raise.
EnqueuePersistsOrDedupes == \A i \in Items : answer[i] # Raised
=============================================================================
