------------------------- MODULE DelegatedWorkProofs -------------------------
(***************************************************************************)
(* Proofs about what DelegatedWork hands the work of a run to, for every   *)
(* value of the constants: the environment of a run is kept, the           *)
(* observation of a job misses nothing, a completed group stays settled,   *)
(* and a mailbox queues one item per key and never queues one again.  Each *)
(* part keeps its own invariant, and a step is one of a single part.       *)
(***************************************************************************)
EXTENDS DelegatedWork, FiniteSetTheorems, TLAPS

-----------------------------------------------------------------------------
(***************************************************************************)
(* The mailbox.                                                            *)
(***************************************************************************)
Stored == Mailbox!SubagentMailboxStatus \cup {"absent"}
Operation == [op : {"idle", "insert", "update", "collect"}, item : Items \cup {NoItem},
              to : Mailbox!SubagentMailboxStatus, rest : SUBSET Items]

MailboxTypes ==
    /\ sqlite \in BOOLEAN
    /\ status \in [Items -> Stored]
    /\ call \in [Processes -> Operation]
    /\ left \in [Items -> SUBSET Items]
    /\ answer \in [Items -> Items \cup {NoItem, Mailbox!Raised}]

\* A process that is to insert an item is the only one that has it, and the item has left
\* no trace; one that is to update an item found it, and takes it out of the queue.
CallIsSound(p) ==
    /\ call[p].op = "insert" =>
          /\ call[p].item \in Items
          /\ status[call[p].item] = "absent"
          /\ call[p].item \notin left[call[p].item]
          /\ \A q \in Processes : call[q].item = call[p].item => p = q
    /\ call[p].op = "update" =>
          /\ call[p].item \in Items
          /\ status[call[p].item] # "absent"
          /\ call[p].to # "queued"
    /\ call[p].op = "collect" => call[p].item = NoItem
    /\ \A i \in call[p].rest : status[i] # "absent"

\* The inductive invariant of the mailbox.
MailboxInv ==
    /\ MailboxTypes
    /\ \A p \in Processes : CallIsSound(p)
    /\ Mailbox!OneQueuedPerKey
    /\ Mailbox!NotMergedIntoThePast

LEMMA IdleOperation ==
    /\ Mailbox!Idle \in Operation
    /\ Mailbox!Idle.op = "idle" /\ Mailbox!Idle.rest = {} /\ Mailbox!Idle.item = NoItem
  BY DEF Mailbox!Idle, Operation, Mailbox!SubagentMailboxStatus

LEMMA MailboxInitially == Mailbox!Init => MailboxInv
  <1> SUFFICES ASSUME Mailbox!Init PROVE MailboxInv
    OBVIOUS
  <1>1. MailboxTypes
    BY IdleOperation DEF Mailbox!Init, MailboxTypes, Stored
  <1>2. \A p \in Processes : CallIsSound(p)
    BY IdleOperation DEF Mailbox!Init, CallIsSound
  <1>3. Mailbox!OneQueuedPerKey
    BY DEF Mailbox!Init, Mailbox!OneQueuedPerKey, Mailbox!list_pending
  <1>4. Mailbox!NotMergedIntoThePast
    BY MailboxAssumption
       DEF Mailbox!Init, Mailbox!NotMergedIntoThePast, Mailbox!MailboxAssumption
  <1> QED BY <1>1, <1>2, <1>3, <1>4 DEF MailboxInv

\* A step of process p that puts nothing into the queue: statuses of stored items change,
\* and p goes on to a new operation.
LEMMA NothingIsQueued ==
    ASSUME MailboxInv, NEW p \in Processes,
           NEW c \in Operation, call' = [call EXCEPT ![p] = c],
           status' \in [Items -> Stored],
           \A i \in Items : (status[i] = "absent") <=> (status'[i] = "absent"),
           \A i \in Items : status'[i] = "queued" => status[i] = "queued",
           UNCHANGED <<sqlite, left, answer>>,
           c.op # "insert",
           c.item = NoItem \/ (c.item \in Items /\ status[c.item] # "absent"),
           c.op = "update" => c.item \in Items /\ c.to # "queued",
           c.op = "collect" => c.item = NoItem,
           \A i \in c.rest : status[i] # "absent"
    PROVE  MailboxInv'
  <1>1. MailboxTypes'
    BY DEF MailboxInv, MailboxTypes
  <1>2. \A q \in Processes : call'[q] = IF q = p THEN c ELSE call[q]
    BY DEF MailboxInv, MailboxTypes
  <1>3. ASSUME NEW q \in Processes PROVE CallIsSound(q)'
    <2>0. c.rest \subseteq Items /\ call[q].rest \subseteq Items /\ NoItem \notin Items
      BY MailboxAssumption DEF Operation, MailboxInv, MailboxTypes, Mailbox!MailboxAssumption
    <2>1. CASE q = p
      BY <1>2, <2>0, <2>1 DEF CallIsSound
    <2>2. CASE q # p
      <3>1. call'[q] = call[q] /\ CallIsSound(q)
        BY <1>2, <2>2 DEF MailboxInv
      <3>2. call[q].op = "insert" => c.item # call[q].item
        BY <2>0, <3>1 DEF CallIsSound
      <3> QED BY <1>2, <2>0, <2>2, <3>1, <3>2 DEF CallIsSound
    <2> QED BY <2>1, <2>2
  <1>4. Mailbox!OneQueuedPerKey'
    BY DEF MailboxInv, Mailbox!OneQueuedPerKey, Mailbox!list_pending
  <1>5. Mailbox!NotMergedIntoThePast'
    BY DEF MailboxInv, Mailbox!NotMergedIntoThePast
  <1> QED BY <1>1, <1>3, <1>4, <1>5 DEF MailboxInv

\* Item i is stored: nobody else has it in hand, and the queue has no match for it.
LEMMA ItemIsQueued ==
    ASSUME MailboxInv, NEW p \in Processes, NEW i \in Items,
           status[i] = "absent",
           status' = [status EXCEPT ![i] = "queued"], answer' = [answer EXCEPT ![i] = i],
           Mailbox!_dedupe_match(i) = {},
           call' = [call EXCEPT ![p] = Mailbox!Idle],
           \A q \in Processes : q # p => call[q].item # i,
           left' \in [Items -> SUBSET Items], i \notin left'[i],
           \A j \in Items : j # i => left'[j] = left[j],
           UNCHANGED sqlite
    PROVE  MailboxInv'
  <1>1. /\ \A j \in Items : status'[j] = IF j = i THEN "queued" ELSE status[j]
        /\ \A j \in Items : answer'[j] = IF j = i THEN i ELSE answer[j]
        /\ \A q \in Processes : call'[q] = IF q = p THEN Mailbox!Idle ELSE call[q]
    BY DEF MailboxInv, MailboxTypes
  <1>2. MailboxTypes'
    BY IdleOperation DEF MailboxInv, MailboxTypes, Stored, Mailbox!SubagentMailboxStatus
  <1>3. ASSUME NEW q \in Processes PROVE CallIsSound(q)'
    <2>0. call[q].rest \subseteq Items /\ NoItem \notin Items
      BY MailboxAssumption DEF MailboxInv, MailboxTypes, Operation, Mailbox!MailboxAssumption
    <2>1. CASE q = p
      BY <1>1, <2>1, IdleOperation DEF CallIsSound
    <2>2. CASE q # p
      <3>1. call'[q] = call[q] /\ CallIsSound(q) /\ call[q].item # i
        BY <1>1, <2>2 DEF MailboxInv
      <3> QED BY <1>1, <2>0, <2>2, <3>1, IdleOperation DEF CallIsSound
    <2> QED BY <2>1, <2>2
  <1>4. Mailbox!OneQueuedPerKey'
    BY <1>1 DEF MailboxInv, Mailbox!OneQueuedPerKey, Mailbox!list_pending, Mailbox!_dedupe_match
  <1>5. Mailbox!NotMergedIntoThePast'
    BY <1>1 DEF MailboxInv, Mailbox!NotMergedIntoThePast
  <1> QED BY <1>2, <1>3, <1>4, <1>5 DEF MailboxInv

\* enqueue: merged into a queued item, stored at once, or left to be inserted.
LEMMA EnqueueKeeps ==
    ASSUME MailboxInv, NEW p \in Processes, NEW i \in Items, Mailbox!enqueue(p, i)
    PROVE  MailboxInv'
  <1> DEFINE gone == {j \in Items : status[j] \notin {"absent", "queued"}}
  <1>1. /\ call[p] = Mailbox!Idle /\ status[i] = "absent"
        /\ \A q \in Processes : call[q].item # i
        /\ left' = [left EXCEPT ![i] = gone] /\ UNCHANGED sqlite
    BY DEF Mailbox!enqueue
  <1>2. /\ left' \in [Items -> SUBSET Items] /\ i \notin left'[i] /\ left'[i] = gone
        /\ \A j \in Items : j # i => left'[j] = left[j]
    BY <1>1 DEF MailboxInv, MailboxTypes
  <1>3. /\ \A q \in Processes : CallIsSound(q) /\ call[q] \in Operation
        /\ NoItem \notin Items
    BY MailboxAssumption DEF MailboxInv, MailboxTypes, Mailbox!MailboxAssumption
  <1>4. ASSUME NEW j \in Mailbox!_dedupe_match(i), answer' = [answer EXCEPT ![i] = j],
               UNCHANGED <<status, call>>
        PROVE  MailboxInv'
    <2>1. j \in Items /\ status[j] = "queued"
      BY <1>4 DEF Mailbox!_dedupe_match, Mailbox!list_pending
    <2>2. \A k \in Items : answer'[k] = IF k = i THEN j ELSE answer[k]
      BY <1>4 DEF MailboxInv, MailboxTypes
    <2>3. MailboxTypes'
      BY <1>1, <1>2, <1>4, <2>1 DEF MailboxInv, MailboxTypes
    <2>4. ASSUME NEW q \in Processes PROVE CallIsSound(q)'
      <3>1. call[q].item # i
        BY <1>1
      <3> QED BY <1>2, <1>3, <1>4, <3>1 DEF CallIsSound
    <2>5. Mailbox!OneQueuedPerKey'
      BY <1>4 DEF MailboxInv, Mailbox!OneQueuedPerKey, Mailbox!list_pending
    <2>6. j \notin gone
      BY <2>1
    <2>7. Mailbox!NotMergedIntoThePast'
      BY <1>2, <1>4, <2>1, <2>2, <2>6 DEF MailboxInv, Mailbox!NotMergedIntoThePast
    <2> QED BY <2>3, <2>4, <2>5, <2>7 DEF MailboxInv
  <1>5. ASSUME Mailbox!_dedupe_match(i) = {}, status' = [status EXCEPT ![i] = "queued"],
               answer' = [answer EXCEPT ![i] = i], UNCHANGED call
        PROVE  MailboxInv'
    <2>1. call' = [call EXCEPT ![p] = Mailbox!Idle]
      BY <1>1, <1>5 DEF MailboxInv, MailboxTypes
    <2>2. \A q \in Processes : q # p => call[q].item # i
      BY <1>1
    <2> HIDE DEF gone
    <2> QED BY <1>1, <1>2, <1>5, <2>1, <2>2, ItemIsQueued
  <1>6. ASSUME call' = [call EXCEPT ![p] = [Mailbox!Idle EXCEPT !.op = "insert", !.item = i]],
               UNCHANGED <<status, answer>>
        PROVE  MailboxInv'
    <2> DEFINE c == [Mailbox!Idle EXCEPT !.op = "insert", !.item = i]
    <2>1. c \in Operation /\ c.op = "insert" /\ c.item = i /\ c.rest = {}
      BY IdleOperation DEF Operation
    <2> HIDE DEF c
    <2>2. \A q \in Processes : call'[q] = IF q = p THEN c ELSE call[q]
      BY <1>6 DEF MailboxInv, MailboxTypes, c
    <2>3. MailboxTypes'
      BY <1>1, <1>2, <1>6, <2>1 DEF MailboxInv, MailboxTypes, c
    <2>4. ASSUME NEW q \in Processes PROVE CallIsSound(q)'
      <3>1. CASE q = p
        <4>1. call'[q] = c /\ status'[i] = "absent" /\ i \notin left'[i]
          BY <1>1, <1>2, <1>6, <2>2, <3>1
        <4>2. \A v \in Processes : call'[v].item = i => q = v
          BY <1>1, <2>2, <3>1
        <4> QED BY <2>1, <4>1, <4>2 DEF CallIsSound
      <3>2. CASE q # p
        <4>1. call'[q] = call[q] /\ call[q].item # i /\ CallIsSound(q)
          BY <1>1, <1>3, <2>2, <3>2
        <4> QED BY <1>2, <1>6, <2>1, <2>2, <3>2, <4>1 DEF CallIsSound
      <3> QED BY <3>1, <3>2
    <2>5. Mailbox!OneQueuedPerKey'
      BY <1>6 DEF MailboxInv, Mailbox!OneQueuedPerKey, Mailbox!list_pending
    <2>6. Mailbox!NotMergedIntoThePast'
      <3> SUFFICES ASSUME NEW k \in Items, answer[k] \in Items
                   PROVE  answer[k] \notin left'[k] /\ status[answer[k]] # "absent"
        BY <1>6 DEF Mailbox!NotMergedIntoThePast
      <3>1. answer[k] \notin left[k] /\ status[answer[k]] # "absent"
        BY DEF MailboxInv, Mailbox!NotMergedIntoThePast
      <3>2. CASE k = i
        \* The item was given no answer yet.
        BY <1>3, <3>2 DEF Mailbox!enqueue
      <3> QED BY <1>2, <3>1, <3>2
    <2> QED BY <2>3, <2>4, <2>5, <2>6 DEF MailboxInv
  <1> QED BY <1>4, <1>5, <1>6 DEF Mailbox!enqueue

\* The insert: the index lets one of two racing rows in.
LEMMA InsertKeeps ==
    ASSUME MailboxInv, NEW p \in Processes, Mailbox!InsertRow(p)
    PROVE  MailboxInv'
  <1>1. /\ call[p].op = "insert" /\ call' = [call EXCEPT ![p] = Mailbox!Idle]
        /\ UNCHANGED <<sqlite, left>>
    BY DEF Mailbox!InsertRow
  <1>0. PICK i \in Items : i = call[p].item
    BY <1>1 DEF MailboxInv, CallIsSound
  <1>2. /\ i \in Items /\ status[i] = "absent" /\ i \notin left[i]
        /\ \A q \in Processes : q # p => call[q].item # i
        /\ left \in [Items -> SUBSET Items]
    BY <1>0, <1>1 DEF MailboxInv, MailboxTypes, CallIsSound
  <1>3. CASE ~Mailbox!subagent_mailbox_dedupe_idx(i)
    <2>1. status' = [status EXCEPT ![i] = "queued"] /\ answer' = [answer EXCEPT ![i] = i]
      BY <1>0, <1>3 DEF Mailbox!InsertRow
    <2>2. Mailbox!_dedupe_match(i) = {}
      BY <1>2, <1>3 DEF Mailbox!_dedupe_match, Mailbox!subagent_mailbox_dedupe_idx,
                        Mailbox!list_pending
    <2>3. /\ left' \in [Items -> SUBSET Items] /\ i \notin left'[i] /\ UNCHANGED sqlite
          /\ \A j \in Items : j # i => left'[j] = left[j]
      BY <1>1, <1>2
    <2>4. /\ status[i] = "absent" /\ call' = [call EXCEPT ![p] = Mailbox!Idle]
          /\ \A q \in Processes : q # p => call[q].item # i
      BY <1>1, <1>2
    <2> QED BY <2>1, <2>2, <2>3, <2>4, ItemIsQueued
  <1>4. CASE Mailbox!subagent_mailbox_dedupe_idx(i)
    <2>1. answer' = [answer EXCEPT ![i] = Mailbox!Raised] /\ UNCHANGED status
      BY <1>0, <1>4 DEF Mailbox!InsertRow
    <2>2. /\ \A j \in Items : answer'[j] = IF j = i THEN Mailbox!Raised ELSE answer[j]
          /\ \A q \in Processes : call'[q] = IF q = p THEN Mailbox!Idle ELSE call[q]
          /\ Mailbox!Raised \notin Items /\ NoItem \notin Items
      BY <1>1, <1>2, <2>1, MailboxAssumption
         DEF MailboxInv, MailboxTypes, Mailbox!Raised, Mailbox!MailboxAssumption
    <2>3. MailboxTypes'
      BY <1>1, <1>2, <2>1, IdleOperation DEF MailboxInv, MailboxTypes
    <2>4. ASSUME NEW q \in Processes PROVE CallIsSound(q)'
      BY <1>1, <2>1, <2>2, IdleOperation DEF MailboxInv, CallIsSound
    <2>5. Mailbox!OneQueuedPerKey'
      BY <2>1 DEF MailboxInv, Mailbox!OneQueuedPerKey, Mailbox!list_pending
    <2>6. Mailbox!NotMergedIntoThePast'
      BY <1>1, <2>1, <2>2 DEF MailboxInv, Mailbox!NotMergedIntoThePast
    <2> QED BY <2>3, <2>4, <2>5, <2>6 DEF MailboxInv
  <1> QED BY <1>3, <1>4

\* A stored item gets a status it does not wait with.
LEMMA RowLeavesTheQueue ==
    ASSUME MailboxInv, NEW i \in Items, status[i] # "absent",
           NEW to \in {"delivered", "acknowledged", "cancelled"},
           status' = [status EXCEPT ![i] = to]
    PROVE  /\ status' \in [Items -> Stored]
           /\ \A j \in Items : (status[j] = "absent") <=> (status'[j] = "absent")
           /\ \A j \in Items : status'[j] = "queued" => status[j] = "queued"
  BY DEF MailboxInv, MailboxTypes, Stored, Mailbox!SubagentMailboxStatus

\* acknowledge, cancel, and the marks of a collector; in SQLite the row is written later.
LEMMA UpdateKeeps ==
    ASSUME MailboxInv, NEW p \in Processes,
           \/ \E i \in Items, to \in {"acknowledged", "cancelled"} : Mailbox!_update_status(p, i, to)
           \/ Mailbox!UpdateRow(p)
           \/ Mailbox!collect_subagent_mailbox(p)
           \/ \E i \in Items : Mailbox!mark_delivered(p, i)
    PROVE  /\ MailboxInv'
           /\ \A i \in Items : status'[i] = "queued" => status[i] = "queued"
  <1>0. /\ call[p] \in Operation /\ CallIsSound(p) /\ NoItem \notin Items
        /\ call[p].rest \subseteq Items /\ status \in [Items -> Stored]
        /\ call = [call EXCEPT ![p] = call[p]]
    BY MailboxAssumption
       DEF MailboxInv, MailboxTypes, Operation, Mailbox!MailboxAssumption
  \* The rest of a collection, when there is one.
  <1>1. ASSUME NEW rest \in SUBSET Items
        PROVE  LET c == IF rest = {} THEN Mailbox!Idle
                        ELSE [Mailbox!Idle EXCEPT !.op = "collect", !.rest = rest]
               IN /\ c \in Operation /\ c.op \in {"idle", "collect"} /\ c.item = NoItem
                  /\ c.rest = rest
    BY IdleOperation DEF Operation
  <1>2. ASSUME NEW i \in Items, NEW to \in {"acknowledged", "cancelled"},
               Mailbox!_update_status(p, i, to)
        PROVE  MailboxInv' /\ \A j \in Items : status'[j] = "queued" => status[j] = "queued"
    <2>1. call[p] = Mailbox!Idle /\ status[i] # "absent" /\ UNCHANGED <<sqlite, left, answer>>
      BY <1>2 DEF Mailbox!_update_status
    <2>2. CASE status' = [status EXCEPT ![i] = to] /\ UNCHANGED call
      <3>1. call' = [call EXCEPT ![p] = call[p]]
        BY <1>0, <2>2
      <3>2. /\ call[p].op = "idle" /\ call[p].item = NoItem /\ call[p].rest = {}
        BY <2>1, IdleOperation
      <3> QED BY <1>0, <2>1, <2>2, <3>1, <3>2, RowLeavesTheQueue, NothingIsQueued
    <2>3. CASE /\ call' = [call EXCEPT ![p] =
                             [Mailbox!Idle EXCEPT !.op = "update", !.item = i, !.to = to]]
               /\ UNCHANGED status
      <3> DEFINE c == [Mailbox!Idle EXCEPT !.op = "update", !.item = i, !.to = to]
      <3>1. c \in Operation /\ c.op = "update" /\ c.item = i /\ c.to = to /\ c.rest = {}
        BY IdleOperation DEF Operation, Mailbox!SubagentMailboxStatus
      <3> HIDE DEF c
      <3>2. call' = [call EXCEPT ![p] = c] /\ UNCHANGED status
        BY <2>3 DEF c
      <3> QED BY <1>0, <2>1, <3>1, <3>2, NothingIsQueued
    <2> QED BY <1>2, <2>2, <2>3 DEF Mailbox!_update_status
  <1>3. ASSUME Mailbox!UpdateRow(p)
        PROVE  MailboxInv' /\ \A j \in Items : status'[j] = "queued" => status[j] = "queued"
    <2> DEFINE c == IF call[p].rest = {} THEN Mailbox!Idle
                    ELSE [Mailbox!Idle EXCEPT !.op = "collect", !.rest = call[p].rest]
    <2>1. /\ call[p].op = "update" /\ status' = [status EXCEPT ![call[p].item] = call[p].to]
          /\ call' = [call EXCEPT ![p] = c] /\ UNCHANGED <<sqlite, left, answer>>
      BY <1>3 DEF Mailbox!UpdateRow
    <2>2. /\ c \in Operation /\ c.op \in {"idle", "collect"} /\ c.item = NoItem
          /\ c.rest = call[p].rest
      BY <1>0, <1>1
    <2>3. /\ call[p].item \in Items /\ status[call[p].item] # "absent"
          /\ call[p].to \in {"delivered", "acknowledged", "cancelled"}
          /\ \A i \in call[p].rest : status[i] # "absent"
      BY <1>0, <2>1 DEF CallIsSound, Operation, Mailbox!SubagentMailboxStatus
    <2> HIDE DEF c
    <2>4. /\ status' \in [Items -> Stored]
          /\ \A j \in Items : (status[j] = "absent") <=> (status'[j] = "absent")
          /\ \A j \in Items : status'[j] = "queued" => status[j] = "queued"
      BY <2>1, <2>3, RowLeavesTheQueue
    <2>5. c.op # "insert" /\ c.op # "update"
      BY <2>2
    <2> QED BY <2>1, <2>2, <2>3, <2>4, <2>5, NothingIsQueued
  <1>4. ASSUME Mailbox!collect_subagent_mailbox(p)
        PROVE  MailboxInv' /\ \A j \in Items : status'[j] = "queued" => status[j] = "queued"
    <2> DEFINE pending == Mailbox!list_pending
               c == [Mailbox!Idle EXCEPT !.op = "collect", !.rest = pending]
    <2>1. pending \subseteq Items /\ \A i \in pending : status[i] # "absent"
      BY DEF Mailbox!list_pending
    <2>2. call' = [call EXCEPT ![p] = c] /\ UNCHANGED <<sqlite, status, left, answer>>
      BY <1>4 DEF Mailbox!collect_subagent_mailbox
    <2> HIDE DEF pending
    <2>3. c \in Operation /\ c.op = "collect" /\ c.item = NoItem /\ c.rest = pending
      BY <2>1, IdleOperation DEF Operation
    <2> HIDE DEF c
    <2> QED BY <1>0, <2>1, <2>2, <2>3, NothingIsQueued
  <1>5. ASSUME NEW i \in Items, Mailbox!mark_delivered(p, i)
        PROVE  MailboxInv' /\ \A j \in Items : status'[j] = "queued" => status[j] = "queued"
    <2> DEFINE rest == call[p].rest \ {i}
    <2>1. call[p].op = "collect" /\ i \in call[p].rest /\ UNCHANGED <<sqlite, left, answer>>
      BY <1>5 DEF Mailbox!mark_delivered
    <2>2. /\ rest \in SUBSET Items /\ status[i] # "absent"
          /\ \A j \in rest : status[j] # "absent"
      BY <1>0, <2>1 DEF CallIsSound
    <2>3. CASE /\ status' = [status EXCEPT ![i] = "delivered"]
               /\ call' = [call EXCEPT ![p] = IF rest = {} THEN Mailbox!Idle
                                              ELSE [@ EXCEPT !.rest = rest]]
      <3> DEFINE c == IF rest = {} THEN Mailbox!Idle ELSE [call[p] EXCEPT !.rest = rest]
      <3>1. call' = [call EXCEPT ![p] = c]
        BY <1>0, <2>3
      <3>2. call[p].item = NoItem
        BY <1>0, <2>1 DEF CallIsSound
      <3> HIDE DEF rest
      <3>3. /\ c \in Operation /\ c.op \in {"idle", "collect"} /\ c.rest = rest
            /\ c.item = NoItem
        <4>1. CASE rest = {}
          BY <4>1, IdleOperation
        <4>2. CASE rest # {}
          <5>1. call[p] \in Operation
            BY <1>0
          <5>2. c = [call[p] EXCEPT !.rest = rest]
            BY <4>2
          <5> HIDE DEF c
          <5> QED BY <5>1, <5>2, <2>1, <2>2, <3>2 DEF Operation
        <4> QED BY <4>1, <4>2
      <3> HIDE DEF c
      <3>4. /\ status' \in [Items -> Stored]
            /\ \A j \in Items : (status[j] = "absent") <=> (status'[j] = "absent")
            /\ \A j \in Items : status'[j] = "queued" => status[j] = "queued"
        BY <2>2, <2>3, RowLeavesTheQueue
      <3>5. c.op # "insert" /\ c.op # "update"
        BY <3>3
      <3> QED BY <2>1, <2>2, <3>1, <3>3, <3>4, <3>5, NothingIsQueued
    <2>4. CASE /\ call' = [call EXCEPT ![p] = [op |-> "update", item |-> i, to |-> "delivered",
                                               rest |-> rest]]
               /\ UNCHANGED status
      <3> HIDE DEF rest
      <3> DEFINE c == [op |-> "update", item |-> i, to |-> "delivered", rest |-> rest]
      <3>1. c \in Operation /\ c.op = "update" /\ c.item = i /\ c.to = "delivered" /\ c.rest = rest
        BY <2>2 DEF Operation, Mailbox!SubagentMailboxStatus
      <3>2. call' = [call EXCEPT ![p] = c] /\ UNCHANGED status
        BY <2>4
      <3> HIDE DEF c
      <3> QED BY <1>0, <2>1, <2>2, <3>1, <3>2, NothingIsQueued
    <2> QED BY <1>5, <2>3, <2>4 DEF Mailbox!mark_delivered
  <1> QED BY <1>2, <1>3, <1>4, <1>5

\* Every statement of every process keeps the mailbox's invariant.
LEMMA MailboxStep == ASSUME MailboxInv, Mailbox!Next PROVE MailboxInv'
  BY EnqueueKeeps, InsertKeeps, UpdateKeeps DEF Mailbox!Next

\* What puts an item into the queue finds it absent.
LEMMA QueuedOnce ==
    ASSUME MailboxInv, Mailbox!Next, NEW i \in Items, status[i] \notin {"absent", "queued"}
    PROVE  status'[i] # "queued"
  <1>0. status \in [Items -> Stored]
    BY DEF MailboxInv, MailboxTypes
  <1>1. ASSUME NEW p \in Processes, NEW j \in Items, Mailbox!enqueue(p, j)
        PROVE  status'[i] # "queued"
    <2>1. status[j] = "absent" /\ (UNCHANGED status \/ status' = [status EXCEPT ![j] = "queued"])
      BY <1>1 DEF Mailbox!enqueue
    <2> QED BY <1>0, <2>1
  <1>2. ASSUME NEW p \in Processes, Mailbox!InsertRow(p) PROVE status'[i] # "queued"
    <2>1. call[p].op = "insert" /\ CallIsSound(p)
      BY <1>2 DEF Mailbox!InsertRow, MailboxInv
    <2>2. status[call[p].item] = "absent" /\ call[p].item \in Items
      BY <2>1 DEF CallIsSound
    <2>3. UNCHANGED status \/ status' = [status EXCEPT ![call[p].item] = "queued"]
      BY <1>2 DEF Mailbox!InsertRow
    <2> QED BY <1>0, <2>2, <2>3
  <1> QED BY <1>1, <1>2, UpdateKeeps DEF Mailbox!Next

-----------------------------------------------------------------------------
(***************************************************************************)
(* The lease, whether a run has one driver or is taken over.               *)
(***************************************************************************)
\* The environments the run may work in: its own, or the one its host gave it.
Usable == IF ownership = "host" THEN {HostLease} ELSE Leases

WorkerState == [pc : {"away", "setup", "drive"}, lease : Leases \cup {HostLease, NoLease}, gen : Nat]

LeaseTypes ==
    /\ ownership \in {"runtime", "host"}
    /\ backend \in [Leases \cup {HostLease} ->
                       {"absent", "pending", "ready", "released", "expired"}]
    /\ run \in {"new", "running", "paused", "over"}
    /\ saved \in Usable \cup {NoLease}
    /\ generation \in Nat
    /\ worker \in [Workers -> WorkerState]

\* A worker holds an environment while it drives the run, and only a usable one.
WorkerFits(w) ==
    /\ worker[w].lease \in Usable \cup {NoLease}
    /\ worker[w].pc = "drive" <=> worker[w].lease # NoLease

\* The inductive invariant of the lease, for both parts: a run of the host's never gets to
\* acquire an environment, and nothing takes the host's down.
LeaseInv ==
    /\ LeaseTypes
    /\ \A w \in Workers : WorkerFits(w)
    /\ ownership = "host" => saved = HostLease
    /\ backend[HostLease] = "ready"

\* What is held, kept or given up.
LeaseIsAccounted(l) ==
    backend[l] = "ready" =>
        \/ \E w \in Workers : worker[w].lease = l
        \/ (saved = l /\ run = "paused")
        \/ l \in abandoned

\* With one driver at a time there is one worker, whose environment is the checkpoint's.
DriverInv ==
    /\ \A v, w \in Workers : worker[v].pc # "away" /\ worker[w].pc # "away" => v = w
    /\ worked \subseteq {saved} \ {NoLease}
    /\ \A w \in Workers : worker[w].pc = "drive" => saved \in {NoLease, worker[w].lease}
    /\ \A l \in Leases : LeaseIsAccounted(l)

LEMMA AwayState ==
    ASSUME NEW takeover, NEW drives
    PROVE  /\ Lease(takeover, drives)!Away \in WorkerState
           /\ Lease(takeover, drives)!Away.pc = "away"
           /\ Lease(takeover, drives)!Away.lease = NoLease
  BY DEF Lease!Away, WorkerState

LEMMA LeaseConstants ==
    /\ Leases \subseteq Nat /\ NoLease \notin Leases /\ HostLease \notin Leases
    /\ HostLease # NoLease /\ MaxDrives \in Nat /\ MaxTakeovers \in Nat
  BY LeasesAssumption DEF LeasesAssumption, Lease!LeaseAssumption

LEMMA LeaseInitially == Lease(FALSE, MaxDrives)!Init => LeaseInv /\ DriverInv
  <1> SUFFICES ASSUME Lease(FALSE, MaxDrives)!Init PROVE LeaseInv /\ DriverInv
    OBVIOUS
  <1> DEFINE away == Lease(FALSE, MaxDrives)!Away
  <1>1. away \in WorkerState /\ away.pc = "away" /\ away.lease = NoLease
    BY AwayState
  <1> HIDE DEF away
  <1>2. /\ ownership \in {"runtime", "host"} /\ run = "new" /\ generation = 0
        /\ backend = [l \in Leases \cup {HostLease} |->
                         IF l = HostLease THEN "ready" ELSE "absent"]
        /\ saved = IF ownership = "host" THEN HostLease ELSE NoLease
        /\ worker = [w \in Workers |-> away] /\ worked = {}
    BY DEF Lease!Init, Lease!Environments, away
  <1>3. LeaseInv
    BY <1>1, <1>2, LeaseConstants DEF LeaseInv, LeaseTypes, WorkerFits, Usable
  <1>4. DriverInv
    BY <1>1, <1>2, LeaseConstants DEF DriverInv, LeaseIsAccounted
  <1> QED BY <1>3, <1>4

\* A worker goes from one state to another.
LEMMA WorkerMoves ==
    ASSUME LeaseInv, NEW w \in Workers, NEW c \in WorkerState,
           worker' = [worker EXCEPT ![w] = c],
           c.lease \in Usable \cup {NoLease}, c.pc = "drive" <=> c.lease # NoLease,
           UNCHANGED ownership,
           backend' \in [Leases \cup {HostLease} ->
                            {"absent", "pending", "ready", "released", "expired"}],
           backend'[HostLease] = "ready",
           run' \in {"new", "running", "paused", "over"},
           saved' = saved \/ saved' \in Usable,
           generation' \in Nat
    PROVE  LeaseInv'
  <1>1. Usable' = Usable
    BY DEF Usable
  <1>2. /\ ownership \in {"runtime", "host"} /\ saved \in Usable \cup {NoLease}
        /\ worker \in [Workers -> WorkerState]
        /\ \A v \in Workers : WorkerFits(v)
        /\ ownership = "host" => saved = HostLease
    BY DEF LeaseInv, LeaseTypes
  <1>3. saved' \in Usable \cup {NoLease} /\ (ownership = "host" => saved' = HostLease)
    BY <1>2 DEF Usable
  <1>4. LeaseTypes'
    BY <1>1, <1>2, <1>3 DEF LeaseTypes
  <1>5. ASSUME NEW v \in Workers PROVE WorkerFits(v)'
    <2>1. CASE v = w
      BY <1>1, <1>2, <2>1 DEF WorkerFits
    <2>2. CASE v # w
      <3>1. worker'[v] = worker[v]
        BY <1>2, <2>2
      <3> QED BY <1>1, <1>2, <3>1 DEF WorkerFits
    <2> QED BY <2>1, <2>2
  <1> QED BY <1>3, <1>4, <1>5 DEF LeaseInv

\* The end of a drive takes down what the runtime owns, and never the host's environment.
LEMMA CloseKeeps ==
    ASSUME NEW takeover, NEW drives, LeaseInv, NEW w \in Workers, worker[w].pc = "drive",
           NEW fails \in BOOLEAN, Lease(takeover, drives)!close(w, fails)
    PROVE  /\ worker[w].lease \in Usable
           /\ backend' \in [Leases \cup {HostLease} ->
                               {"absent", "pending", "ready", "released", "expired"}]
           /\ backend'[HostLease] = "ready"
           /\ backend'[worker[w].lease] = "ready" =>
                 worker[w].lease \in abandoned' \/ ownership = "host"
           /\ abandoned \subseteq abandoned'
  <1>1. /\ worker[w].lease \in Usable
        /\ backend \in [Leases \cup {HostLease} ->
                           {"absent", "pending", "ready", "released", "expired"}]
        /\ backend[HostLease] = "ready"
    BY DEF LeaseInv, LeaseTypes, WorkerFits
  <1> DEFINE l == worker[w].lease
             b == IF fails \/ ownership = "host" THEN backend[l] ELSE "released"
  <1>2. /\ backend' = [backend EXCEPT ![l] = b]
        /\ abandoned' = IF fails THEN abandoned \cup {l} ELSE abandoned
    BY DEF Lease!close
  <1>3. l \in Leases \cup {HostLease} /\ (ownership = "host" <=> l = HostLease)
    BY <1>1, LeaseConstants DEF Usable
  <1>4. /\ b \in {"absent", "pending", "ready", "released", "expired"}
        /\ l = HostLease => b = "ready"
        /\ b = "ready" => fails \/ ownership = "host"
    BY <1>1, <1>3
  <1>5. l \in Usable
    BY <1>1
  <1> SUFFICES /\ l \in Usable
               /\ backend' \in [Leases \cup {HostLease} ->
                                   {"absent", "pending", "ready", "released", "expired"}]
               /\ backend'[HostLease] = "ready"
               /\ backend'[l] = "ready" => l \in abandoned' \/ ownership = "host"
               /\ abandoned \subseteq abandoned'
    OBVIOUS
  <1> HIDE DEF l, b
  <1> QED BY <1>1, <1>2, <1>3, <1>4, <1>5

\* Every step of every worker and of the backend keeps the invariant.
LEMMA LeaseStep ==
    ASSUME NEW takeover, NEW drives, LeaseInv, Lease(takeover, drives)!Next
    PROVE  LeaseInv'
  <1> DEFINE away == Lease(takeover, drives)!Away
  <1>0. /\ away \in WorkerState /\ away.pc = "away" /\ away.lease = NoLease
        /\ LeaseTypes /\ backend[HostLease] = "ready"
        /\ \A w \in Workers : WorkerFits(w)
    BY AwayState DEF LeaseInv
  <1> HIDE DEF away
  <1>1. ASSUME NEW w \in Workers, Lease(takeover, drives)!Begin(w) PROVE LeaseInv'
    <2> DEFINE c == [pc |-> "setup", lease |-> NoLease, gen |-> generation + 1]
    <2>1. /\ worker' = [worker EXCEPT ![w] = c]
          /\ generation' = generation + 1 /\ run' = IF run = "paused" THEN run ELSE "running"
          /\ UNCHANGED <<ownership, backend, saved, worked, abandoned>>
      BY <1>1 DEF Lease!Begin
    <2>2. c \in WorkerState /\ c.pc = "setup" /\ c.lease = NoLease
      BY <1>0 DEF WorkerState, LeaseTypes
    <2> HIDE DEF c
    <2>3. /\ generation' \in Nat /\ run' \in {"new", "running", "paused", "over"}
          /\ backend' \in [Leases \cup {HostLease} ->
                              {"absent", "pending", "ready", "released", "expired"}]
      BY <1>0, <2>1 DEF LeaseTypes
    <2> QED BY <1>0, <2>1, <2>2, <2>3, WorkerMoves
  <1>2. ASSUME NEW w \in Workers, Lease(takeover, drives)!attach_by_ref(w) PROVE LeaseInv'
    <2>1. /\ worker[w].pc = "setup" /\ saved # NoLease
          /\ UNCHANGED <<ownership, backend, saved, generation, worked, abandoned>>
          /\ \/ worker' = [worker EXCEPT ![w].pc = "drive", ![w].lease = saved] /\ run' = run
             \/ worker' = [worker EXCEPT ![w] = away] /\ run' = "over"
      BY <1>2 DEF Lease!attach_by_ref, away
    <2>2. /\ generation' \in Nat /\ run' \in {"new", "running", "paused", "over"}
          /\ backend' \in [Leases \cup {HostLease} ->
                              {"absent", "pending", "ready", "released", "expired"}]
          /\ saved \in Usable /\ worker[w] \in WorkerState /\ backend'[HostLease] = "ready"
      BY <1>0, <2>1 DEF LeaseTypes
    <2>3. CASE worker' = [worker EXCEPT ![w].pc = "drive", ![w].lease = saved]
      <3> DEFINE c == [worker[w] EXCEPT !.pc = "drive", !.lease = saved]
      <3>1. worker' = [worker EXCEPT ![w] = c]
        BY <1>0, <2>3 DEF LeaseTypes
      <3>2. c \in WorkerState /\ c.pc = "drive" /\ c.lease = saved
        BY <2>2 DEF WorkerState, Usable
      <3> HIDE DEF c
      <3> QED BY <2>1, <2>2, <3>1, <3>2, WorkerMoves
    <2>4. CASE worker' = [worker EXCEPT ![w] = away]
      BY <1>0, <2>1, <2>2, <2>4, WorkerMoves
    <2> QED BY <2>1, <2>3, <2>4
  <1>3. ASSUME NEW w \in Workers, Lease(takeover, drives)!acquire_or_attach(w) PROVE LeaseInv'
    <2>1. PICK l \in Leases, state \in {"ready", "pending"} :
             /\ backend' = [backend EXCEPT ![l] = state]
             /\ \/ worker' = [worker EXCEPT ![w].pc = "drive", ![w].lease = l] /\ run' = run
                \/ worker' = [worker EXCEPT ![w] = away] /\ run' = "over"
      BY <1>3 DEF Lease!acquire_or_attach, away
    <2>2. saved = NoLease /\ UNCHANGED <<ownership, saved, generation, worked, abandoned>>
      BY <1>3 DEF Lease!acquire_or_attach
    <2>3. /\ generation' \in Nat /\ run' \in {"new", "running", "paused", "over"}
          /\ backend' \in [Leases \cup {HostLease} ->
                              {"absent", "pending", "ready", "released", "expired"}]
          /\ worker[w] \in WorkerState /\ backend'[HostLease] = "ready"
      BY <1>0, <2>1, <2>2, LeaseConstants DEF LeaseTypes
    <2>4. l \in Usable /\ l # NoLease
      BY <2>2, LeaseConstants DEF Usable, LeaseInv
    <2>5. CASE worker' = [worker EXCEPT ![w].pc = "drive", ![w].lease = l]
      <3> DEFINE c == [worker[w] EXCEPT !.pc = "drive", !.lease = l]
      <3>1. worker' = [worker EXCEPT ![w] = c]
        BY <1>0, <2>5 DEF LeaseTypes
      <3>2. c \in WorkerState /\ c.pc = "drive" /\ c.lease = l
        BY <2>3 DEF WorkerState
      <3> HIDE DEF c
      <3> QED BY <2>2, <2>3, <2>4, <3>1, <3>2, WorkerMoves
    <2>6. CASE worker' = [worker EXCEPT ![w] = away]
      BY <1>0, <2>2, <2>3, <2>6, WorkerMoves
    <2> QED BY <2>1, <2>5, <2>6
  <1>4. ASSUME NEW w \in Workers, Lease(takeover, drives)!_execute_step(w) PROVE LeaseInv'
    <2>1. /\ worker[w].pc = "drive" /\ saved' = worker[w].lease /\ run' = "running"
          /\ UNCHANGED <<ownership, backend, generation, worker>>
      BY <1>4 DEF Lease!_execute_step, Lease!Driving
    <2>2. worker' = [worker EXCEPT ![w] = worker[w]] /\ worker[w] \in WorkerState
      BY <1>0, <2>1 DEF LeaseTypes
    <2>3. saved' \in Usable /\ WorkerFits(w)
      BY <1>0, <2>1 DEF WorkerFits
    <2> QED BY <1>0, <2>1, <2>2, <2>3, WorkerMoves DEF LeaseTypes, WorkerFits
  <1>5. ASSUME NEW w \in Workers, Lease(takeover, drives)!Pause(w) PROVE LeaseInv'
    <2>1. /\ worker[w].pc = "drive" /\ saved' = worker[w].lease /\ run' = "paused"
          /\ worker' = [worker EXCEPT ![w] = away]
          /\ UNCHANGED <<ownership, backend, generation>>
      BY <1>5 DEF Lease!Pause, Lease!Driving, away
    <2>2. saved' \in Usable
      BY <1>0, <2>1 DEF WorkerFits
    <2> QED BY <1>0, <2>1, <2>2, WorkerMoves DEF LeaseTypes
  <1>6. ASSUME NEW w \in Workers, Lease(takeover, drives)!Crash(w) PROVE LeaseInv'
    <2>1. /\ worker' = [worker EXCEPT ![w] = away]
          /\ UNCHANGED <<ownership, backend, run, saved, generation>>
      BY <1>6 DEF Lease!Crash, away
    <2> QED BY <1>0, <2>1, WorkerMoves DEF LeaseTypes
  <1>7. ASSUME NEW w \in Workers, NEW fails \in BOOLEAN,
               \/ Lease(takeover, drives)!ResultFenced(w, fails)
               \/ \E returns \in BOOLEAN :
                     Lease(takeover, drives)!_release_execution_lease(w, fails, returns)
        PROVE  LeaseInv'
    <2>1. /\ worker[w].pc = "drive" /\ Lease(takeover, drives)!close(w, fails)
          /\ worker' = [worker EXCEPT ![w] = away] /\ run' \in {run, "over"}
          /\ UNCHANGED <<ownership, saved, generation>>
      BY <1>7 DEF Lease!ResultFenced, Lease!_release_execution_lease, Lease!Driving, away
    <2>2. /\ backend' \in [Leases \cup {HostLease} ->
                              {"absent", "pending", "ready", "released", "expired"}]
          /\ backend'[HostLease] = "ready"
      BY <2>1, CloseKeeps
    <2> QED BY <1>0, <2>1, <2>2, WorkerMoves DEF LeaseTypes
  <1>8. ASSUME NEW l \in Leases, Lease(takeover, drives)!Expire(l) PROVE LeaseInv'
    <2>1. /\ l # HostLease /\ backend' = [backend EXCEPT ![l] = "expired"]
          /\ UNCHANGED <<ownership, run, saved, generation, worker>>
      BY <1>8 DEF Lease!Expire
    <2> QED BY <1>0, <2>1 DEF LeaseInv, LeaseTypes, WorkerFits, Usable
  <1> QED BY <1>1, <1>2, <1>3, <1>4, <1>5, <1>6, <1>7, <1>8 DEF Lease!Next

\* The one worker of a run goes from one state to another, and what it held stays accounted.
LEMMA DriverMoves ==
    ASSUME LeaseInv, DriverInv, NEW w \in Workers, NEW c \in WorkerState,
           worker' = [worker EXCEPT ![w] = c],
           worker[w].pc # "away" \/ \A v \in Workers : worker[v].pc = "away",
           worked' \subseteq {saved'} \ {NoLease},
           saved' = saved \/ worker[w].pc = "drive",
           c.pc = "drive" => saved' \in {NoLease, c.lease},
           \A l \in Leases :
              backend'[l] = "ready" =>
                 \/ c.lease = l \/ (saved' = l /\ run' = "paused") \/ l \in abandoned'
                 \/ /\ backend[l] = "ready" /\ worker[w].lease # l /\ l # saved
                    /\ abandoned \subseteq abandoned'
    PROVE  DriverInv'
  <1>1. /\ worker \in [Workers -> WorkerState]
        /\ \A v \in Workers : WorkerFits(v)
    BY DEF LeaseInv, LeaseTypes
  <1>2. worker'[w] = c /\ \A v \in Workers : v # w => worker'[v] = worker[v]
    BY <1>1
  <1>3. \A v \in Workers : v # w => worker[v].pc = "away"
    BY DEF DriverInv
  <1>4. \A v \in Workers : v # w => worker'[v].pc = "away"
    BY <1>2, <1>3
  <1>5. \A v, u \in Workers : worker'[v].pc # "away" /\ worker'[u].pc # "away" => v = u
    BY <1>4
  <1>6. \A v \in Workers : worker'[v].pc = "drive" => saved' \in {NoLease, worker'[v].lease}
    BY <1>2, <1>4
  <1>7. ASSUME NEW l \in Leases PROVE LeaseIsAccounted(l)'
    <2>1. CASE backend'[l] # "ready"
      BY <2>1 DEF LeaseIsAccounted
    <2>2. CASE c.lease = l \/ (saved' = l /\ run' = "paused") \/ l \in abandoned'
      BY <1>2, <2>2 DEF LeaseIsAccounted
    <2>3. CASE /\ backend[l] = "ready" /\ worker[w].lease # l /\ l # saved
               /\ abandoned \subseteq abandoned'
      <3>1. LeaseIsAccounted(l)
        BY DEF DriverInv
      <3>2. \A v \in Workers : worker[v].lease # l
        BY <1>1, <1>3, <2>3, LeaseConstants DEF WorkerFits
      <3> QED BY <2>3, <3>1, <3>2 DEF LeaseIsAccounted
    <2> QED BY <2>1, <2>2, <2>3
  <1> QED BY <1>5, <1>6, <1>7 DEF DriverInv

\* With one driver at a time every step keeps the environment the checkpoint's.
LEMMA DriverStep ==
    ASSUME NEW drives, LeaseInv, DriverInv, Lease(FALSE, drives)!Next
    PROVE  DriverInv'
  <1> DEFINE away == Lease(FALSE, drives)!Away
  <1>0. /\ away \in WorkerState /\ away.pc = "away" /\ away.lease = NoLease
        /\ LeaseTypes /\ \A w \in Workers : WorkerFits(w)
        /\ worker \in [Workers -> WorkerState]
        /\ worked \subseteq {saved} \ {NoLease}
        /\ \A w \in Workers : worker[w].pc = "drive" => saved \in {NoLease, worker[w].lease}
    BY AwayState DEF LeaseInv, LeaseTypes, DriverInv
  <1> HIDE DEF away
  <1>a. ASSUME NEW l \in Leases, backend[l] = "ready", saved = l, ~(run = "paused"),
               NEW w \in Workers, worker[w].pc # "away"
        PROVE  worker[w].lease = l \/ l \in abandoned
    <2>1. LeaseIsAccounted(l) /\ \A v \in Workers : v # w => worker[v].pc = "away"
      BY <1>a DEF DriverInv
    <2>2. \A v \in Workers : v # w => worker[v].lease # l
      BY <1>0, <2>1, LeaseConstants DEF WorkerFits
    <2> QED BY <1>a, <2>1, <2>2 DEF LeaseIsAccounted
  <1>1. ASSUME NEW w \in Workers, Lease(FALSE, drives)!Begin(w) PROVE DriverInv'
    <2> DEFINE c == [pc |-> "setup", lease |-> NoLease, gen |-> generation + 1]
    <2>1. /\ worker' = [worker EXCEPT ![w] = c] /\ worker[w] = away
          /\ \A v \in Workers : worker[v].pc # "setup" /\ worker[v].pc # "drive"
          /\ run' = IF run = "paused" THEN run ELSE "running"
          /\ UNCHANGED <<ownership, backend, saved, worked, abandoned>>
      BY <1>1 DEF Lease!Begin, Lease!Driving, away
    <2>2. c \in WorkerState /\ c.pc = "setup" /\ c.lease = NoLease
      BY <1>0 DEF WorkerState, LeaseTypes
    <2> HIDE DEF c
    <2>3. \A v \in Workers : worker[v].pc = "away" /\ worker[v].lease = NoLease
      BY <1>0, <2>1 DEF WorkerState, WorkerFits
    <2>4. ASSUME NEW l \in Leases, backend[l] = "ready"
          PROVE  (saved = l /\ run' = "paused") \/ l \in abandoned
      BY <2>1, <2>3, <2>4, LeaseConstants DEF DriverInv, LeaseIsAccounted
    <2> QED BY <1>0, <2>1, <2>2, <2>3, <2>4, DriverMoves
  <1>2. ASSUME NEW w \in Workers, Lease(FALSE, drives)!attach_by_ref(w) PROVE DriverInv'
    <2>1. /\ worker[w].pc = "setup" /\ saved # NoLease
          /\ UNCHANGED <<ownership, backend, saved, generation, worked, abandoned>>
      BY <1>2 DEF Lease!attach_by_ref
    <2>2. worker[w].lease = NoLease /\ worker[w] \in WorkerState
      BY <1>0, <2>1 DEF WorkerFits
    <2>3. CASE /\ worker' = [worker EXCEPT ![w].pc = "drive", ![w].lease = saved]
               /\ UNCHANGED run
      <3> DEFINE c == [worker[w] EXCEPT !.pc = "drive", !.lease = saved]
      <3>1. worker' = [worker EXCEPT ![w] = c]
        BY <1>0, <2>3
      <3>2. c \in WorkerState /\ c.pc = "drive" /\ c.lease = saved
        BY <1>0, <2>2 DEF WorkerState, LeaseTypes, Usable
      <3> HIDE DEF c
      <3>3. ASSUME NEW l \in Leases, backend[l] = "ready"
            PROVE  c.lease = l \/ (worker[w].lease # l /\ l # saved)
        BY <2>2, <3>2, LeaseConstants
      <3>4. \A l \in Leases : backend'[l] = "ready" =>
               c.lease = l \/ /\ backend[l] = "ready" /\ worker[w].lease # l /\ l # saved
                              /\ abandoned \subseteq abandoned'
        BY <2>1, <3>3
      <3>5. worker[w].pc # "away" /\ worked' \subseteq {saved'} \ {NoLease} /\ saved' = c.lease
        BY <1>0, <2>1, <3>2
      <3> QED BY <2>1, <3>1, <3>2, <3>4, <3>5, DriverMoves
    <2>4. CASE /\ backend[saved] # "ready"
               /\ worker' = [worker EXCEPT ![w] = away] /\ run' = "over"
      <3>1. ASSUME NEW l \in Leases, backend[l] = "ready"
            PROVE  worker[w].lease # l /\ l # saved
        BY <2>2, <2>4, <3>1, LeaseConstants
      <3> QED BY <1>0, <2>1, <2>4, <3>1, DriverMoves
    <2> QED BY <1>2, <2>3, <2>4 DEF Lease!attach_by_ref, away
  <1>3. ASSUME NEW w \in Workers, Lease(FALSE, drives)!acquire_or_attach(w) PROVE DriverInv'
    <2>1. PICK l \in Leases, state \in {"ready", "pending"} :
             /\ backend' = [backend EXCEPT ![l] = state]
             /\ \/ /\ state = "ready"
                   /\ worker' = [worker EXCEPT ![w].pc = "drive", ![w].lease = l]
                \/ state = "pending" /\ worker' = [worker EXCEPT ![w] = away]
      BY <1>3 DEF Lease!acquire_or_attach, away
    <2>2. /\ worker[w].pc = "setup" /\ saved = NoLease
          /\ UNCHANGED <<ownership, saved, generation, worked, abandoned>>
      BY <1>3 DEF Lease!acquire_or_attach
    <2>3. worker[w].lease = NoLease /\ worker[w] \in WorkerState
      BY <1>0, <2>2 DEF WorkerFits
    <2>4. /\ backend'[l] = state
          /\ \A m \in Leases : m # l => backend'[m] = backend[m]
      BY <1>0, <2>1 DEF LeaseTypes
    <2>5. CASE /\ state = "ready"
               /\ worker' = [worker EXCEPT ![w].pc = "drive", ![w].lease = l]
      <3> DEFINE c == [worker[w] EXCEPT !.pc = "drive", !.lease = l]
      <3>1. worker' = [worker EXCEPT ![w] = c]
        BY <1>0, <2>5
      <3>2. c \in WorkerState /\ c.pc = "drive" /\ c.lease = l
        BY <2>3 DEF WorkerState
      <3> HIDE DEF c
      <3>3. ASSUME NEW m \in Leases, backend'[m] = "ready"
            PROVE  c.lease = m \/ (backend[m] = "ready" /\ worker[w].lease # m /\ m # saved)
        BY <2>2, <2>3, <2>4, <3>2, <3>3, LeaseConstants
      <3> QED BY <1>0, <2>2, <3>1, <3>2, <3>3, DriverMoves
    <2>6. CASE state = "pending" /\ worker' = [worker EXCEPT ![w] = away]
      <3>1. ASSUME NEW m \in Leases, backend'[m] = "ready"
            PROVE  backend[m] = "ready" /\ worker[w].lease # m /\ m # saved
        BY <2>2, <2>3, <2>4, <2>6, <3>1, LeaseConstants
      <3> QED BY <1>0, <2>2, <2>6, <3>1, DriverMoves
    <2> QED BY <2>1, <2>5, <2>6
  <1>4. ASSUME NEW w \in Workers, Lease(FALSE, drives)!_execute_step(w) PROVE DriverInv'
    <2>1. /\ worker[w].pc = "drive" /\ saved' = worker[w].lease
          /\ worked' = worked \cup {worker[w].lease}
          /\ UNCHANGED <<ownership, backend, generation, worker, abandoned>>
      BY <1>4 DEF Lease!_execute_step, Lease!Driving
    <2>a. PICK c \in WorkerState : c = worker[w]
      BY <1>0
    <2>2. worker' = [worker EXCEPT ![w] = c]
      BY <1>0, <2>1, <2>a
    <2>3. worker[w].lease # NoLease /\ worked' \subseteq {saved'} \ {NoLease}
      BY <1>0, <2>1 DEF WorkerFits
    <2>4. \A l \in Leases : l = saved => worker[w].lease = l
      BY <1>0, <2>1, LeaseConstants
    <2>5. \A l \in Leases : backend'[l] = "ready" =>
             c.lease = l \/ /\ backend[l] = "ready" /\ worker[w].lease # l /\ l # saved
                            /\ abandoned \subseteq abandoned'
      BY <2>1, <2>4, <2>a
    <2>6. /\ worker[w].pc # "away" /\ (saved' = saved \/ worker[w].pc = "drive")
          /\ c.pc = "drive" => saved' \in {NoLease, c.lease}
      BY <2>1, <2>a
    <2> QED BY <2>a, <2>2, <2>3, <2>5, <2>6, DriverMoves
  <1>5. ASSUME NEW w \in Workers, Lease(FALSE, drives)!Pause(w) PROVE DriverInv'
    <2>1. /\ worker[w].pc = "drive" /\ saved' = worker[w].lease /\ run' = "paused"
          /\ worked' = worked \cup {worker[w].lease}
          /\ worker' = [worker EXCEPT ![w] = away]
          /\ UNCHANGED <<ownership, backend, generation, abandoned>>
      BY <1>5 DEF Lease!Pause, Lease!Driving, away
    <2>2. worker[w].lease # NoLease /\ worked' \subseteq {saved'} \ {NoLease}
      BY <1>0, <2>1 DEF WorkerFits
    <2>3. \A l \in Leases : l = saved => saved' = l
      BY <1>0, <2>1, LeaseConstants
    <2> QED BY <1>0, <2>1, <2>2, <2>3, DriverMoves
  <1>6. ASSUME NEW w \in Workers, Lease(FALSE, drives)!Crash(w) PROVE DriverInv'
    <2>1. /\ worker[w] # away /\ worker' = [worker EXCEPT ![w] = away]
          /\ abandoned' = IF worker[w].lease = NoLease THEN abandoned
                          ELSE abandoned \cup {worker[w].lease}
          /\ UNCHANGED <<ownership, backend, run, saved, generation, worked>>
      BY <1>6 DEF Lease!Crash, away
    <2>2. CASE worker[w].pc = "away"
      <3>1. worker[w].lease = NoLease
        BY <1>0, <2>2 DEF WorkerFits
      <3>2. \A v \in Workers : worker'[v].pc = worker[v].pc /\ worker'[v].lease = worker[v].lease
        BY <1>0, <2>1, <2>2, <3>1
      <3> QED BY <2>1, <3>1, <3>2 DEF DriverInv, LeaseIsAccounted
    <2>3. CASE worker[w].pc # "away"
      <3>1. ASSUME NEW l \in Leases, backend'[l] = "ready"
            PROVE  \/ saved' = l /\ run' = "paused"
                   \/ l \in abandoned'
                   \/ (worker[w].lease # l /\ l # saved)
        <4>1. CASE worker[w].lease = l
          BY <2>1, <4>1, LeaseConstants
        <4>2. CASE saved = l /\ run # "paused"
          BY <1>a, <2>1, <2>3, <3>1, <4>2, LeaseConstants
        <4> QED BY <2>1, <4>1, <4>2
      <3> QED BY <1>0, <2>1, <2>3, <3>1, DriverMoves
    <2> QED BY <2>2, <2>3
  <1>7. ASSUME NEW w \in Workers, NEW fails \in BOOLEAN,
               \/ Lease(FALSE, drives)!ResultFenced(w, fails)
               \/ \E returns \in BOOLEAN :
                     Lease(FALSE, drives)!_release_execution_lease(w, fails, returns)
        PROVE  DriverInv'
    <2>1. /\ worker[w].pc = "drive" /\ Lease(FALSE, drives)!close(w, fails)
          /\ worker' = [worker EXCEPT ![w] = away]
          /\ UNCHANGED <<ownership, saved, generation, worked>>
      BY <1>7 DEF Lease!ResultFenced, Lease!_release_execution_lease, Lease!Driving, away
    <2>a. /\ worker[w].lease \in Usable
          /\ backend'[worker[w].lease] = "ready" =>
                worker[w].lease \in abandoned' \/ ownership = "host"
          /\ abandoned \subseteq abandoned'
      BY <2>1, CloseKeeps
    <2>b. PICK l : l = worker[w].lease
      OBVIOUS
    <2>c. \E b : backend' = [backend EXCEPT ![l] = b]
      BY <2>1, <2>b DEF Lease!close
    <2>2. /\ l \in Usable /\ abandoned \subseteq abandoned'
          /\ backend'[l] = "ready" => l \in abandoned' \/ ownership = "host"
      BY <2>a, <2>b
    <2>3. saved \in {NoLease, l}
      BY <1>0, <2>1, <2>b
    <2>4. \A m \in Leases : m # l => backend'[m] = backend[m]
      BY <1>0, <2>c DEF LeaseTypes
    <2>5. ASSUME NEW m \in Leases, backend'[m] = "ready"
          PROVE  m \in abandoned' \/ (backend[m] = "ready" /\ l # m /\ m # saved)
      BY <2>2, <2>3, <2>4, <2>5, LeaseConstants DEF Usable
    <2>6. \A m \in Leases : backend'[m] = "ready" =>
             m \in abandoned' \/ (backend[m] = "ready" /\ worker[w].lease # m /\ m # saved)
      BY <2>5, <2>b
    <2> QED BY <1>0, <2>1, <2>2, <2>6, DriverMoves
  <1>8. ASSUME NEW l \in Leases, Lease(FALSE, drives)!Expire(l) PROVE DriverInv'
    <2>1. /\ backend' = [backend EXCEPT ![l] = "expired"]
          /\ UNCHANGED <<ownership, run, saved, generation, worker, worked, abandoned>>
      BY <1>8 DEF Lease!Expire
    <2>2. \A m \in Leases : backend'[m] = "ready" => backend[m] = "ready"
      BY <1>0, <2>1 DEF LeaseTypes
    <2> QED BY <2>1, <2>2 DEF DriverInv, LeaseIsAccounted
  <1> QED BY <1>1, <1>2, <1>3, <1>4, <1>5, <1>6, <1>7, <1>8 DEF Lease!Next

\* What the invariants say of the lease.
LEMMA LeaseFacts ==
    ASSUME LeaseInv, DriverInv
    PROVE  /\ Lease(FALSE, MaxDrives)!OneEnvironment
           /\ Lease(FALSE, MaxDrives)!NothingIsHeldByNobody
  <1>1. worked = {} \/ worked = {saved}
    BY DEF DriverInv
  <1>2. Cardinality(worked) <= 1
    <2>1. CASE worked = {}
      BY <2>1, FS_EmptySet
    <2>2. CASE worked = {saved}
      BY <2>2, FS_Singleton
    <2> QED BY <1>1, <2>1, <2>2
  <1>3. Lease(FALSE, MaxDrives)!Cardinality(worked) = Cardinality(worked)
    BY DEF Lease!Cardinality, Cardinality
  <1>4. Lease(FALSE, MaxDrives)!OneEnvironment
    BY <1>2, <1>3 DEF Lease!OneEnvironment
  <1>5. Lease(FALSE, MaxDrives)!NothingIsHeldByNobody
    BY DEF Lease!NothingIsHeldByNobody, DriverInv, LeaseIsAccounted
  <1> QED BY <1>4, <1>5

-----------------------------------------------------------------------------
(***************************************************************************)
(* The observation of a job.                                               *)
(***************************************************************************)
JobTypes ==
    /\ job \in [generation : 0 .. MaxGeneration, last : -1 .. MaxSequence,
                compacted : Int, ended : BOOLEAN]
    /\ handle \in 0 .. MaxGeneration
    /\ cursor \in -1 .. MaxSequence
    /\ persisted \in -1 .. MaxSequence
    /\ observer \in [seen : SUBSET Job!Event, needs_snapshot : BOOLEAN, complete : BOOLEAN,
                     pages : Int]
    /\ shown \in [now : [Job!Event -> Nat], before : SUBSET Job!Event]

\* This process or an earlier one was shown the event.
Was(e) == e \in shown.before \/ shown.now[e] > 0

\* Up to position n the generation the host knows of was shown, if the job is still in it.
Covered(n) == handle = job.generation => \A s \in 0 .. n : Was(<<handle, s>>)

\* The handle is of a generation the job has been in, and before there is one nothing was
\* read.
HandleIsSound ==
    /\ handle <= job.generation
    /\ pc = "new" => job.generation = 0
    /\ pc \in {"new", "lookup"} => /\ handle = 0 /\ cursor = -1 /\ persisted = -1
                                   /\ \A e \in Job!Event : shown.now[e] = 0
    /\ pc \in {"observe", "snapshot"} => handle > 0

\* The observer has seen what was handed on, each event once, and only its generation's.
ShownIsSeen ==
    /\ \A e \in Job!Event : e \in observer.seen <=> shown.now[e] > 0
    /\ \A e \in Job!Event : shown.now[e] <= 1 /\ (shown.now[e] > 0 => e[1] = handle)

\* The inductive invariant of the job: the saved position, which a restart returns to, is
\* covered like the present one.
JobInv ==
    /\ JobTypes
    /\ HandleIsSound
    /\ ShownIsSeen
    /\ pc = "observe" => Covered(cursor)
    /\ pc \in {"observe", "snapshot"} => Covered(persisted)

LEMMA JobConstants ==
    MaxGeneration \in Nat \ {0} /\ MaxSequence \in Nat /\ max_pages \in Nat \ {0}
  BY JobsAssumption DEF JobsAssumption, Job!JobsAssumption

LEMMA MaxOfTwo ==
    ASSUME NEW a \in Int, NEW b \in Int
    PROVE  Job!Max({a, b}) = IF a >= b THEN a ELSE b
  <1> DEFINE m == IF a >= b THEN a ELSE b
  <1>1. m \in {a, b} /\ \A y \in {a, b} : m >= y
    OBVIOUS
  <1>2. \A x \in {a, b} : (\A y \in {a, b} : x >= y) => x = m
    OBVIOUS
  <1> HIDE DEF m
  <1>3. (CHOOSE x \in {a, b} : \A y \in {a, b} : x >= y) = m
    BY <1>1, <1>2
  <1> QED BY <1>3 DEF Job!Max, m

LEMMA MinOfTwo ==
    ASSUME NEW a \in Int, NEW b \in Int
    PROVE  Job!Min({a, b}) \in Int
  <1> DEFINE m == IF a <= b THEN a ELSE b
  <1>1. m \in {a, b} /\ m \in Int /\ \A y \in {a, b} : m <= y
    OBVIOUS
  <1>2. \A x \in {a, b} : (\A y \in {a, b} : x <= y) => x = m
    OBVIOUS
  <1> HIDE DEF m
  <1>3. (CHOOSE x \in {a, b} : \A y \in {a, b} : x <= y) = m
    BY <1>1, <1>2
  <1> QED BY <1>1, <1>3 DEF Job!Min

LEMMA JobInitially == Job!Init => JobInv
  <1> SUFFICES ASSUME Job!Init PROVE JobInv
    OBVIOUS
  <1>1. /\ job = [generation |-> 0, last |-> -1, compacted |-> -1, ended |-> FALSE]
        /\ pc = "new" /\ handle = 0 /\ cursor = -1 /\ persisted = -1
        /\ observer = [seen |-> {}, needs_snapshot |-> FALSE, complete |-> FALSE, pages |-> 0]
        /\ shown = [now |-> [e \in Job!Event |-> 0], before |-> {}]
    BY DEF Job!Init, Job!initial_cursor, Job!NewObserver, Job!Unseen
  <1>2. JobTypes
    BY <1>1, JobConstants DEF JobTypes
  <1>3. HandleIsSound /\ ShownIsSeen
    BY <1>1 DEF HandleIsSound, ShownIsSeen
  <1> QED BY <1>1, <1>2, <1>3 DEF JobInv

\* A page: what follows the cursor is seen or was seen before, however much of it is a
\* repetition, unless the loop ends with a gap.
LEMMA ObserveKeeps == ASSUME JobInv, Job!observe PROVE JobInv'
  <1>0. /\ JobTypes /\ HandleIsSound /\ ShownIsSeen /\ pc = "observe"
        /\ Covered(cursor) /\ Covered(persisted)
        /\ UNCHANGED <<job, handle, persisted>>
    BY DEF JobInv, Job!observe
  <1>1. PICK from \in -1 .. cursor, to \in -1 .. job.last, late \in SUBSET Job!Event :
           LET events == late \cup {<<job.generation, s>> : s \in
                            {n \in 0 .. MaxSequence : from < n /\ n <= to /\ n > job.compacted}}
           IN /\ Job!ingest(events, Job!Max({cursor, to}), job.compacted > cursor,
                            job.ended /\ to = job.last)
              /\ pc' = IF Job!ReadsOn(events) THEN "observe" ELSE "snapshot"
    BY DEF Job!observe
  <1> DEFINE page == {<<job.generation, s>> : s \in
                         {n \in 0 .. MaxSequence : from < n /\ n <= to /\ n > job.compacted}}
             events == late \cup page
             fresh == Job!Fresh(events)
  <1>2. /\ Job!ingest(events, Job!Max({cursor, to}), job.compacted > cursor,
                      job.ended /\ to = job.last)
        /\ pc' = IF Job!ReadsOn(events) THEN "observe" ELSE "snapshot"
    BY <1>1
  <1>3. /\ job.generation \in 1 .. MaxGeneration /\ job.last \in -1 .. MaxSequence
        /\ job.compacted \in Int /\ handle \in 1 .. MaxGeneration /\ handle <= job.generation
        /\ cursor \in -1 .. MaxSequence /\ from <= cursor /\ from \in Int
        /\ to \in Int /\ to <= MaxSequence /\ to >= -1
    BY <1>0, <1>1, JobConstants DEF JobTypes, HandleIsSound
  <1>4. events \subseteq Job!Event
    BY <1>1, <1>3 DEF Job!Event
  <1>5. \A s \in 0 .. MaxSequence :
           from < s /\ s <= to /\ s > job.compacted => <<job.generation, s>> \in events
    OBVIOUS
  <1> HIDE DEF events
  <1>6. /\ fresh \subseteq Job!Event
        /\ \A e \in Job!Event : e \in fresh <=> e \in events /\ e[1] = handle /\ e \notin observer.seen
    BY <1>4 DEF Job!Fresh, Job!fence_stale
  <1>7. cursor' = Job!Max({cursor, to}) /\ shown' = [shown EXCEPT !.now = Job!Handed(events)]
    BY <1>2 DEF Job!ingest
  <1>8. Job!Handed(events) = [e \in Job!Event |-> shown.now[e] + IF e \in fresh THEN 1 ELSE 0]
    BY DEF Job!Handed
  <1> DEFINE snapshot == observer.needs_snapshot \/ job.compacted > cursor
             complete == \/ observer.complete \/ (job.ended /\ to = job.last)
                         \/ \E e \in fresh : Job!Terminal(e)
             pages == Job!Min({observer.pages + 1, max_pages})
  <1>9. observer' = [observer EXCEPT !.seen = observer.seen \cup fresh,
                                     !.needs_snapshot = snapshot,
                                     !.complete = complete,
                                     !.pages = pages]
    BY <1>2 DEF Job!ingest
  <1>10. pages \in Int /\ snapshot \in BOOLEAN /\ complete \in BOOLEAN
    BY <1>0, MinOfTwo, JobConstants DEF JobTypes
  <1>11. ~snapshot => job.compacted <= cursor
    BY <1>3
  <1> HIDE DEF fresh, snapshot, complete, pages
  <1>12. /\ observer' \in [seen : SUBSET Job!Event, needs_snapshot : BOOLEAN, complete : BOOLEAN,
                           pages : Int]
         /\ observer'.seen = observer.seen \cup fresh
         /\ observer'.needs_snapshot = snapshot
    BY <1>0, <1>6, <1>9, <1>10 DEF JobTypes
  <1>13. /\ shown'.before = shown.before
         /\ shown'.now \in [Job!Event -> Nat]
         /\ shown' \in [now : [Job!Event -> Nat], before : SUBSET Job!Event]
         /\ \A e \in Job!Event : shown'.now[e] = shown.now[e] + IF e \in fresh THEN 1 ELSE 0
    BY <1>0, <1>7, <1>8 DEF JobTypes
  <1>14. cursor' = (IF cursor >= to THEN cursor ELSE to) /\ cursor' \in -1 .. MaxSequence
    BY <1>3, <1>7, MaxOfTwo
  <1>15. JobTypes'
    BY <1>0, <1>12, <1>13, <1>14 DEF JobTypes
  <1>16. pc' \in {"observe", "snapshot"} /\ (pc' = "observe" => job.compacted <= cursor)
    BY <1>2, <1>11, <1>12 DEF Job!ReadsOn
  <1>17. HandleIsSound'
    BY <1>0, <1>3, <1>16 DEF HandleIsSound
  <1>18. ShownIsSeen'
    <2> SUFFICES ASSUME NEW e \in Job!Event
                 PROVE  /\ e \in observer'.seen <=> shown'.now[e] > 0
                        /\ shown'.now[e] <= 1 /\ (shown'.now[e] > 0 => e[1] = handle)
      BY <1>0 DEF ShownIsSeen
    <2>1. /\ shown.now[e] \in Nat /\ shown.now[e] <= 1 /\ (shown.now[e] > 0 => e[1] = handle)
          /\ e \in observer.seen <=> shown.now[e] > 0
      BY <1>0 DEF ShownIsSeen, JobTypes
    <2> QED BY <1>6, <1>12, <1>13, <2>1
  <1>19. \A e \in Job!Event : Was(e) \/ e \in fresh => Was(e)'
    BY <1>0, <1>13 DEF Was, JobTypes
  <1>20. \A s \in 0 .. MaxSequence : <<handle, s>> \in Job!Event /\ <<handle, s>>[1] = handle
    BY <1>3 DEF Job!Event
  <1>21. Covered(persisted)'
    BY <1>0, <1>19, <1>20, JobConstants DEF Covered, JobTypes
  <1>22. ASSUME pc' = "observe", handle = job.generation, NEW s \in 0 .. cursor'
         PROVE  Was(<<handle, s>>)'
    <2>1. CASE s <= cursor
      BY <1>0, <1>3, <1>19, <1>20, <1>22, <2>1, JobConstants DEF Covered
    <2>2. CASE s > cursor
      <3>1. s \in 0 .. MaxSequence /\ from < s /\ s <= to /\ s > job.compacted
        BY <1>3, <1>14, <1>16, <1>22, <2>2, JobConstants
      <3>2. <<handle, s>> \in events
        BY <1>5, <1>22, <3>1
      <3>3. <<handle, s>> \in fresh \/ <<handle, s>> \in observer.seen
        BY <1>6, <1>20, <3>1, <3>2
      <3>4. <<handle, s>> \in fresh \/ Was(<<handle, s>>)
        BY <1>0, <1>20, <3>1, <3>3 DEF ShownIsSeen, Was
      <3> QED BY <1>0, <1>19, <1>20, <3>1, <3>4
    <2> QED BY <1>3, <1>14, <1>22, <2>1, <2>2
  <1>23. pc' = "observe" => Covered(cursor)'
    BY <1>0, <1>22 DEF Covered
  <1> QED BY <1>15, <1>17, <1>18, <1>21, <1>23 DEF JobInv

\* Every step of the host and of the backend keeps the invariant.
LEMMA JobStep == ASSUME JobInv, Job!Next PROVE JobInv'
  <1>0. JobTypes /\ HandleIsSound /\ ShownIsSeen
    BY DEF JobInv
  <1>1. ASSUME NEW starts \in BOOLEAN, NEW replies \in BOOLEAN, Job!start(starts, replies)
        PROVE  JobInv'
    <2>1. /\ pc = "new" /\ (replies => starts)
          /\ job' = IF starts THEN [job EXCEPT !.generation = 1] ELSE job
          /\ handle' = IF replies THEN 1 ELSE handle
          /\ pc' = IF replies THEN "observe" ELSE "lookup"
          /\ UNCHANGED <<cursor, observer, persisted, shown>>
      BY <1>1 DEF Job!start
    <2>2. /\ job' \in [generation : 0 .. MaxGeneration, last : -1 .. MaxSequence,
                       compacted : Int, ended : BOOLEAN]
          /\ job'.generation = IF starts THEN 1 ELSE 0
          /\ handle' = IF replies THEN 1 ELSE 0
      BY <1>0, <2>1, JobConstants DEF JobTypes, HandleIsSound
    <2>3. /\ cursor = -1 /\ persisted = -1 /\ \A e \in Job!Event : shown.now[e] = 0
      BY <1>0, <2>1 DEF HandleIsSound
    <2>4. JobTypes'
      BY <1>0, <2>1, <2>2, JobConstants DEF JobTypes
    <2>5. HandleIsSound'
      BY <2>1, <2>2, <2>3 DEF HandleIsSound
    <2>6. ShownIsSeen' /\ Covered(cursor)' /\ Covered(persisted)'
      BY <1>0, <2>1, <2>3 DEF ShownIsSeen, Covered
    <2> QED BY <2>4, <2>5, <2>6 DEF JobInv
  <1>2. ASSUME NEW found \in BOOLEAN, Job!lookup_job(found) PROVE JobInv'
    <2>1. /\ pc = "lookup" /\ (found => job.generation > 0)
          /\ handle' = IF found THEN job.generation ELSE handle
          /\ pc' = IF found THEN "observe" ELSE "indeterminate"
          /\ UNCHANGED <<job, cursor, observer, persisted, shown>>
      BY <1>2 DEF Job!lookup_job
    <2>2. /\ cursor = -1 /\ persisted = -1 /\ \A e \in Job!Event : shown.now[e] = 0
      BY <1>0, <2>1 DEF HandleIsSound
    <2>3. JobTypes'
      BY <1>0, <2>1 DEF JobTypes
    <2>4. HandleIsSound'
      BY <1>0, <2>1 DEF HandleIsSound, JobTypes
    <2>5. ShownIsSeen' /\ Covered(cursor)' /\ Covered(persisted)'
      BY <1>0, <2>1, <2>2 DEF ShownIsSeen, Covered
    <2> QED BY <2>3, <2>4, <2>5 DEF JobInv
  <1>3. CASE Job!ObserveLost
    BY <1>3 DEF Job!ObserveLost, JobInv, JobTypes, HandleIsSound, ShownIsSeen, Covered, Was
  <1>4. CASE Job!resolve_terminal
    BY <1>4 DEF Job!resolve_terminal, JobInv, JobTypes, HandleIsSound, ShownIsSeen, Covered, Was
  <1>5. CASE Job!persist_job_recovery
    BY <1>5 DEF Job!persist_job_recovery, JobInv, JobTypes, HandleIsSound, ShownIsSeen,
                Covered, Was
  <1>6. CASE Job!restore_job_recovery
    <2>1. /\ pc \in {"observe", "snapshot"} /\ pc' = "observe" /\ cursor' = persisted
          /\ observer' = [seen |-> {}, needs_snapshot |-> FALSE, complete |-> FALSE, pages |-> 0]
          /\ shown' = [now |-> [e \in Job!Event |-> 0],
                       before |-> shown.before \cup {e \in Job!Event : shown.now[e] > 0}]
          /\ UNCHANGED <<job, handle, persisted>>
      BY <1>6 DEF Job!restore_job_recovery, Job!NewObserver, Job!Unseen
    <2>2. JobTypes'
      BY <1>0, <2>1 DEF JobTypes
    <2>3. HandleIsSound' /\ ShownIsSeen'
      BY <1>0, <2>1 DEF HandleIsSound, ShownIsSeen
    <2>4. \A e \in Job!Event : Was(e) => Was(e)'
      BY <2>1 DEF Was
    <2>5. \A s \in 0 .. MaxSequence : <<handle, s>> \in Job!Event
      BY <1>0, <2>1 DEF JobTypes, HandleIsSound, Job!Event
    <2>6. Covered(persisted) /\ persisted <= MaxSequence /\ persisted \in Int
      BY <1>0, <2>1 DEF JobInv, JobTypes
    <2>7. Covered(persisted)'
      BY <2>1, <2>4, <2>5, <2>6, JobConstants DEF Covered
    <2>8. Covered(cursor)'
      BY <2>1, <2>7 DEF Covered
    <2> QED BY <2>2, <2>3, <2>7, <2>8 DEF JobInv
  <1>7. ASSUME job' \in [generation : 0 .. MaxGeneration, last : -1 .. MaxSequence,
                         compacted : Int, ended : BOOLEAN],
               \/ job'.generation = job.generation
               \/ job.generation > 0 /\ job'.generation = job.generation + 1,
               UNCHANGED <<pc, handle, cursor, observer, persisted, shown>>
        PROVE  JobInv'
    <2>1. JobTypes' /\ ShownIsSeen'
      BY <1>0, <1>7 DEF JobTypes, ShownIsSeen
    <2>2. HandleIsSound'
      BY <1>0, <1>7 DEF JobTypes, HandleIsSound
    <2>3. handle' = job'.generation => handle = job.generation
      BY <1>0, <1>7 DEF JobTypes, HandleIsSound
    <2>4. (Covered(cursor) => Covered(cursor)') /\ (Covered(persisted) => Covered(persisted)')
      BY <1>7, <2>3 DEF Covered, Was
    <2> QED BY <1>7, <2>1, <2>2, <2>4 DEF JobInv
  <1>8. ASSUME NEW ends \in BOOLEAN, Job!Produce(ends) PROVE JobInv'
    <2>1. /\ job' = [job EXCEPT !.last = job.last + 1, !.ended = ends] /\ job.last < MaxSequence
          /\ UNCHANGED <<pc, handle, cursor, observer, persisted, shown>>
      BY <1>8 DEF Job!Produce
    <2>a. job.last + 1 \in -1 .. MaxSequence
      BY <1>0, <2>1, JobConstants DEF JobTypes
    <2>b. PICK n \in -1 .. MaxSequence : n = job.last + 1
      BY <2>a
    <2>c. job' = [job EXCEPT !.last = n, !.ended = ends]
      BY <2>1, <2>b
    <2>2. /\ job' \in [generation : 0 .. MaxGeneration, last : -1 .. MaxSequence,
                       compacted : Int, ended : BOOLEAN]
          /\ job'.generation = job.generation
      BY <1>0, <2>c, Zenon DEF JobTypes
    <2> QED BY <1>7, <2>1, <2>2
  <1>9. CASE Job!Compact
    <2>1. /\ job' = [job EXCEPT !.compacted = job.compacted + 1]
          /\ UNCHANGED <<pc, handle, cursor, observer, persisted, shown>>
      BY <1>9 DEF Job!Compact
    <2>2. /\ job' \in [generation : 0 .. MaxGeneration, last : -1 .. MaxSequence,
                       compacted : Int, ended : BOOLEAN]
          /\ job'.generation = job.generation
      BY <1>0, <2>1 DEF JobTypes
    <2> QED BY <1>7, <2>1, <2>2
  <1>10. CASE Job!StartOver
    <2>1. /\ job.generation \in 1 .. MaxGeneration - 1
          /\ job' = [generation |-> job.generation + 1, last |-> -1, compacted |-> -1,
                     ended |-> FALSE]
          /\ UNCHANGED <<pc, handle, cursor, observer, persisted, shown>>
      BY <1>10 DEF Job!StartOver
    <2>2. /\ job' \in [generation : 0 .. MaxGeneration, last : -1 .. MaxSequence,
                       compacted : Int, ended : BOOLEAN]
          /\ job.generation > 0 /\ job'.generation = job.generation + 1
      BY <2>1, JobConstants
    <2> QED BY <1>7, <2>1, <2>2
  <1> QED BY <1>1, <1>2, <1>3, <1>4, <1>5, <1>6, <1>8, <1>9, <1>10, ObserveKeeps DEF Job!Next

\* What the invariant says of the observation.
LEMMA JobFacts == JobInv => Job!NothingIsMissed /\ Job!ShownOnce
  BY DEF JobInv, ShownIsSeen, Covered, Was, Job!NothingIsMissed, Job!ShownOnce, Job!fence_stale

-----------------------------------------------------------------------------
(***************************************************************************)
(* The group of children.                                                  *)
(***************************************************************************)
Scheduled == Group!_select_schedulable_tasks
Ended(t) == row[t].status \in Group!_TERMINAL_STATUSES
NeedsAResult == group.mode = "sync" /\ group.policy \in {"wait_any", "race", "k_of_n"}

GroupRow == [status : {"absent", "running", "completed"}, mode : {"sync", "background"},
             policy : Group!Policy, end : {"none", "returned", "raised"}, runs : Nat]
ChildRow == [status : Group!_TERMINAL_STATUSES \cup {"absent", "running"},
             messages : Nat, stopped : BOOLEAN]

GroupTypes ==
    /\ group \in GroupRow
    /\ row \in [Tasks -> ChildRow]
    /\ task \in [Tasks -> {"none", "waiting", "running", "done", "raised"}]
    /\ sent \in [Tasks -> Nat]

\* The inductive invariant of a group: a task that is done wrote a terminal row; a parent
\* that waits has no task left when its group is completed; a background group may have
\* some, and what they write is terminal too.
GroupInv ==
    /\ GroupTypes
    /\ \A t \in Tasks : t \notin Scheduled => task[t] = "none"
    /\ \A t \in Scheduled : task[t] = "done" => Ended(t)
    /\ group.status = "completed" =>
          /\ \A t \in Scheduled : Ended(t)
          /\ group.mode = "sync" => \A t \in Scheduled : task[t] = "done"
          /\ NeedsAResult => \E t \in Scheduled : row[t].status = "completed"

LEMMA ScheduledTasks == Scheduled \subseteq Tasks
  BY DEF Scheduled, Group!_select_schedulable_tasks

LEMMA PendingRow ==
    /\ Group!Pending \in ChildRow /\ Group!Pending.status = "running"
    /\ \A s \in Group!_TERMINAL_STATUSES \cup {"absent"} :
          /\ [Group!Pending EXCEPT !.status = s] \in ChildRow
          /\ [Group!Pending EXCEPT !.status = s].status = s
  BY DEF Group!Pending, ChildRow, Group!_TERMINAL_STATUSES

LEMMA GroupInitially == Group!Init => GroupInv
  <1> SUFFICES ASSUME Group!Init PROVE GroupInv
    OBVIOUS
  <1> DEFINE absent == [Group!Pending EXCEPT !.status = "absent"]
  <1>1. absent \in ChildRow
    BY PendingRow
  <1> HIDE DEF absent
  <1>2. /\ group = [status |-> "absent", mode |-> "sync", policy |-> "wait_all", end |-> "none",
                    runs |-> 0]
        /\ row = [t \in Tasks |-> absent] /\ task = [t \in Tasks |-> "none"]
        /\ sent = [t \in Tasks |-> 0]
    BY DEF Group!Init, absent
  <1>3. group \in GroupRow /\ group.status = "absent"
    BY <1>2 DEF GroupRow, Group!Policy
  <1>4. GroupTypes
    BY <1>1, <1>2, <1>3 DEF GroupTypes
  <1> QED BY <1>2, <1>3, <1>4, ScheduledTasks DEF GroupInv

\* A child that ends writes a terminal row; with it a background group may be completed.
LEMMA UpsertKeeps ==
    ASSUME GroupInv, NEW t \in Tasks, NEW s \in Group!_TERMINAL_STATUSES,
           task[t] \in {"waiting", "running"}, task' = [task EXCEPT ![t] = "done"],
           Group!Upsert(t, s), sent' \in [Tasks -> Nat]
    PROVE  GroupInv'
  <1> DEFINE new == [Group!Pending EXCEPT !.status = s]
             rows == [row EXCEPT ![t] = new]
  <1>1. new \in ChildRow /\ new.status = s
    BY PendingRow
  <1>2. /\ row' = rows
        /\ group' = IF group.mode = "background" /\ Group!_maybe_complete_background_group(rows)
                    THEN [group EXCEPT !.status = "completed"] ELSE group
    BY DEF Group!Upsert
  <1>3. GroupTypes /\ t \in Scheduled /\ Scheduled \subseteq Tasks
    BY ScheduledTasks DEF GroupInv
  <1>4. Group!_maybe_complete_background_group(rows) <=>
           \A u \in Scheduled : rows[u].status \in Group!_TERMINAL_STATUSES
    BY DEF Group!_maybe_complete_background_group, Scheduled
  <1> HIDE DEF new, rows
  <1>5. /\ rows \in [Tasks -> ChildRow] /\ rows[t].status = s
        /\ \A u \in Tasks : u # t => rows[u] = row[u]
    BY <1>1, <1>3 DEF GroupTypes, rows
  <1>6. /\ task' \in [Tasks -> {"none", "waiting", "running", "done", "raised"}]
        /\ task'[t] = "done" /\ \A u \in Tasks : u # t => task'[u] = task[u]
    BY <1>3 DEF GroupTypes
  <1>7. /\ group' \in GroupRow /\ group'.mode = group.mode
        /\ group'.status \in {group.status, "completed"}
        /\ group'.status = "completed" /\ group.status # "completed" =>
              /\ group.mode = "background"
              /\ \A u \in Scheduled : rows[u].status \in Group!_TERMINAL_STATUSES
    BY <1>2, <1>3, <1>4 DEF GroupTypes, GroupRow
  <1>8. GroupTypes'
    BY <1>2, <1>5, <1>6, <1>7 DEF GroupTypes
  <1>9. \A u \in Tasks : u \notin Scheduled => task'[u] = "none"
    BY <1>3, <1>6 DEF GroupInv
  <1>10. \A u \in Scheduled : task'[u] = "done" => Ended(u)'
    BY <1>2, <1>3, <1>5, <1>6 DEF GroupInv, Ended
  <1>11. ASSUME group'.status = "completed"
         PROVE  group.mode = "background" /\ \A u \in Scheduled : Ended(u)'
    <2>1. CASE group.status = "completed"
      <3>1. group.mode = "background"
        BY <1>3, <2>1 DEF GroupInv, GroupTypes, GroupRow
      <3>2. \A u \in Scheduled : Ended(u)
        BY <2>1 DEF GroupInv
      <3>3. \A u \in Scheduled : Ended(u)'
        BY <1>2, <1>3, <1>5, <3>2 DEF Ended
      <3> QED BY <3>1, <3>3
    <2>2. CASE group.status # "completed"
      BY <1>2, <1>7, <1>11, <2>2 DEF Ended
    <2> QED BY <2>1, <2>2
  <1> QED BY <1>7, <1>8, <1>9, <1>10, <1>11 DEF GroupInv, NeedsAResult

\* A step that completes nothing and takes no terminal row away: what is completed has
\* neither a task to be started nor one that runs, or runs in the background.
LEMMA GroupGoesOn ==
    ASSUME GroupInv, GroupTypes', UNCHANGED group,
           \A t \in Tasks : t \notin Scheduled => task'[t] = "none",
           \A t \in Scheduled : task'[t] = "done" => task[t] = "done",
           \A t \in Scheduled : Ended(t) => Ended(t)' \/ (task'[t] # "done" /\ group.mode = "sync"),
           group.status = "completed" /\ group.mode = "sync" => UNCHANGED <<row, task>>
    PROVE  GroupInv'
  <1>1. group \in GroupRow
    BY DEF GroupInv, GroupTypes
  <1>2. \A t \in Scheduled : task'[t] = "done" => Ended(t)'
    BY DEF GroupInv
  <1>3. CASE group.status = "completed" /\ group.mode = "sync"
    BY <1>2, <1>3 DEF GroupInv, Ended, NeedsAResult
  <1>4. CASE group.status = "completed" /\ group.mode = "background"
    <2>1. \A t \in Scheduled : Ended(t)'
      BY <1>4 DEF GroupInv
    <2> QED BY <1>2, <1>4, <2>1 DEF GroupInv, NeedsAResult
  <1>5. CASE group.status # "completed"
    BY <1>2, <1>5 DEF GroupInv
  <1> QED BY <1>1, <1>3, <1>4, <1>5 DEF GroupRow

\* A policy that needs a result is satisfied only when a child has completed.
LEMMA JoinNeedsAResult ==
    ASSUME NEW policy \in {"wait_any", "race", "k_of_n"},
           Group!evaluate_join_policy(policy, Group!Statuses)
    PROVE  \E t \in Scheduled : row[t].status = "completed"
  <1> DEFINE with == Group!With(Group!Statuses, {"completed"})
             n == Group!Cardinality(DOMAIN Group!Statuses)
             k == IF n > 1 THEN 2 ELSE 1
  <1>1. Group!Cardinality(with) >= 1 \/ Group!Cardinality(with) >= k
    BY DEF Group!evaluate_join_policy
  <1>2. Group!Cardinality({}) = 0
    BY FS_EmptySet DEF Group!Cardinality, Cardinality
  <1>3. with # {}
    <2>1. k \in {1, 2}
      OBVIOUS
    <2> HIDE DEF k, with
    <2> QED BY <1>1, <1>2, <2>1
  <1>4. PICK t \in DOMAIN Group!Statuses : Group!Statuses[t] = "completed"
    BY <1>3 DEF Group!With
  <1>5. t \in Scheduled /\ row[t].status = "completed"
    BY <1>4 DEF Group!Statuses, Scheduled
  <1> QED BY <1>5

\* Every step of the group, its children and its parent's tools keeps the invariant.
LEMMA GroupStep == ASSUME GroupInv, Group!Next PROVE GroupInv'
  <1>0. GroupTypes /\ Scheduled \subseteq Tasks
    BY ScheduledTasks DEF GroupInv
  <1>1. ASSUME NEW mode \in {"sync", "background"}, NEW policy \in Group!Policy,
               Group!execute_subagent_group(mode, policy)
        PROVE  GroupInv'
    <2> DEFINE end == IF mode = "background" THEN "returned" ELSE "none"
               new == [status |-> "running", mode |-> mode, policy |-> policy, end |-> end,
                       runs |-> group.runs + 1]
               rows == [t \in Tasks |-> IF mode = "background" /\ t \in Scheduled
                                        THEN Group!Pending ELSE row[t]]
               tasks == [t \in Tasks |-> IF t \in Scheduled THEN "waiting" ELSE "none"]
    <2>1. /\ group' = new /\ row' = rows /\ task' = tasks
          /\ sent' = IF mode = "background" THEN [t \in Tasks |-> 0] ELSE sent
      BY <1>1 DEF Group!execute_subagent_group, Scheduled
    <2>2. new \in GroupRow /\ new.status = "running"
      <3>1. group.runs + 1 \in Nat
        BY <1>0 DEF GroupTypes, GroupRow
      <3> QED BY <3>1 DEF GroupRow
    <2>3. rows \in [Tasks -> ChildRow]
      BY <1>0, PendingRow DEF GroupTypes
    <2>4. /\ tasks \in [Tasks -> {"none", "waiting", "running", "done", "raised"}]
          /\ \A t \in Tasks : tasks[t] # "done" /\ (t \notin Scheduled => tasks[t] = "none")
      OBVIOUS
    <2>5. sent' \in [Tasks -> Nat]
      BY <1>0, <2>1 DEF GroupTypes
    <2> HIDE DEF new, rows, tasks
    <2> QED BY <1>0, <2>1, <2>2, <2>3, <2>4, <2>5 DEF GroupInv, GroupTypes
  <1>2. ASSUME NEW t \in Tasks, Group!stop_subagent_run(t) PROVE GroupInv'
    <2>1. /\ group.mode = "background"
          /\ row' = [row EXCEPT ![t].status = "cancelled", ![t].stopped = TRUE]
          /\ UNCHANGED <<group, task, sent>>
      BY <1>2 DEF Group!stop_subagent_run
    <2> DEFINE new == [row[t] EXCEPT !.status = "cancelled", !.stopped = TRUE]
    <2>2. new \in ChildRow /\ new.status = "cancelled"
      BY <1>0 DEF GroupTypes, ChildRow, Group!_TERMINAL_STATUSES
    <2>3. row' = [row EXCEPT ![t] = new]
      BY <1>0, <2>1 DEF GroupTypes
    <2> HIDE DEF new
    <2>4. GroupTypes'
      BY <1>0, <2>1, <2>2, <2>3 DEF GroupTypes
    <2>5. \A u \in Scheduled : Ended(u) => Ended(u)'
      BY <1>0, <2>2, <2>3 DEF GroupTypes, Ended, Group!_TERMINAL_STATUSES
    <2>6. /\ \A u \in Tasks : u \notin Scheduled => task'[u] = "none"
          /\ \A u \in Scheduled : task'[u] = "done" => task[u] = "done"
      BY <2>1 DEF GroupInv
    <2> QED BY <2>1, <2>4, <2>5, <2>6, GroupGoesOn
  <1>3. ASSUME NEW t \in Tasks, Group!append_subagent_continuation(t) PROVE GroupInv'
    <2>1. /\ group.mode = "background"
          /\ row' = [row EXCEPT ![t].messages = @ + 1] /\ sent' = [sent EXCEPT ![t] = @ + 1]
          /\ UNCHANGED <<group, task>>
      BY <1>3 DEF Group!append_subagent_continuation
    <2> DEFINE new == [row[t] EXCEPT !.messages = row[t].messages + 1]
    <2>2. new \in ChildRow /\ new.status = row[t].status
      <3>1. row[t].messages + 1 \in Nat /\ row[t] \in ChildRow
        BY <1>0 DEF GroupTypes, ChildRow
      <3> QED BY <3>1 DEF ChildRow
    <2>3. row' = [row EXCEPT ![t] = new]
      BY <1>0, <2>1 DEF GroupTypes
    <2> HIDE DEF new
    <2>4. GroupTypes'
      BY <1>0, <2>1, <2>2, <2>3 DEF GroupTypes
    <2>5. \A u \in Scheduled : Ended(u) => Ended(u)'
      BY <1>0, <2>2, <2>3 DEF GroupTypes, Ended
    <2>6. /\ \A u \in Tasks : u \notin Scheduled => task'[u] = "none"
          /\ \A u \in Scheduled : task'[u] = "done" => task[u] = "done"
      BY <2>1 DEF GroupInv
    <2> QED BY <2>1, <2>4, <2>5, <2>6, GroupGoesOn
  <1>4. ASSUME NEW t \in Tasks, Group!StartChild(t) PROVE GroupInv'
    <2>1. /\ task[t] = "waiting"
          /\ sent' = IF group.mode = "sync" THEN [sent EXCEPT ![t] = 0] ELSE sent
      BY <1>4 DEF Group!StartChild
    <2>2. sent' \in [Tasks -> Nat] /\ t \in Scheduled
      BY <1>0, <2>1 DEF GroupTypes, GroupInv
    <2>3. CASE task' = [task EXCEPT ![t] = "done"] /\ Group!Upsert(t, "cancelled")
      BY <2>1, <2>2, <2>3, UpsertKeeps DEF Group!_TERMINAL_STATUSES
    <2>4. CASE /\ task' = [task EXCEPT ![t] = "running"]
               /\ row' = IF group.mode = "sync" THEN [row EXCEPT ![t] = Group!Pending] ELSE row
               /\ UNCHANGED group
      <3>1. /\ task' \in [Tasks -> {"none", "waiting", "running", "done", "raised"}]
            /\ task'[t] = "running" /\ \A u \in Tasks : u # t => task'[u] = task[u]
        BY <1>0, <2>4 DEF GroupTypes
      <3>2. /\ row' \in [Tasks -> ChildRow]
            /\ \A u \in Tasks : u # t \/ group.mode = "background" => row'[u] = row[u]
        BY <1>0, <2>4, PendingRow DEF GroupTypes
      <3>3. GroupTypes'
        BY <1>0, <2>2, <2>4, <3>1, <3>2 DEF GroupTypes
      <3>4. group.mode \in {"sync", "background"}
        BY <1>0 DEF GroupTypes, GroupRow
      <3>5. \A u \in Scheduled :
               Ended(u) => Ended(u)' \/ (task'[u] # "done" /\ group.mode = "sync")
        BY <1>0, <3>1, <3>2, <3>4 DEF Ended
      <3>6. ~(group.status = "completed" /\ group.mode = "sync")
        BY <2>1, <2>2 DEF GroupInv
      <3>7. /\ \A u \in Tasks : u \notin Scheduled => task'[u] = "none"
            /\ \A u \in Scheduled : task'[u] = "done" => task[u] = "done"
        BY <1>0, <2>2, <3>1 DEF GroupInv
      <3> QED BY <2>4, <3>3, <3>5, <3>6, <3>7, GroupGoesOn
    <2> QED BY <1>4, <2>3, <2>4 DEF Group!StartChild
  <1>5. ASSUME NEW t \in Tasks, NEW s \in Group!_TERMINAL_STATUSES, Group!ChildReturns(t, s)
        PROVE  GroupInv'
    <2>1. /\ task[t] = "running" /\ task' = [task EXCEPT ![t] = "done"]
          /\ Group!Upsert(t, s) /\ UNCHANGED sent
      BY <1>5 DEF Group!ChildReturns
    <2>2. sent' \in [Tasks -> Nat]
      BY <1>0, <2>1 DEF GroupTypes
    <2> QED BY <2>1, <2>2, UpsertKeeps
  <1>6. ASSUME NEW t \in Tasks, Group!ChildRaises(t) PROVE GroupInv'
    <2>1. task[t] = "running" /\ UNCHANGED sent
      BY <1>6 DEF Group!ChildRaises
    <2>2. sent' \in [Tasks -> Nat] /\ t \in Scheduled
      BY <1>0, <2>1 DEF GroupTypes, GroupInv
    <2>3. CASE task' = [task EXCEPT ![t] = "done"] /\ Group!Upsert(t, "failed")
      BY <2>1, <2>2, <2>3, UpsertKeeps DEF Group!_TERMINAL_STATUSES
    <2>4. CASE /\ group.mode = "sync" /\ task' = [task EXCEPT ![t] = "raised"]
               /\ UNCHANGED <<group, row>>
      <3>1. /\ task' \in [Tasks -> {"none", "waiting", "running", "done", "raised"}]
            /\ task'[t] = "raised" /\ \A u \in Tasks : u # t => task'[u] = task[u]
        BY <1>0, <2>4 DEF GroupTypes
      <3>2. GroupTypes'
        BY <1>0, <2>2, <2>4, <3>1 DEF GroupTypes
      <3>3. /\ \A u \in Tasks : u \notin Scheduled => task'[u] = "none"
            /\ \A u \in Scheduled : task'[u] = "done" => task[u] = "done"
            /\ \A u \in Scheduled : Ended(u) => Ended(u)'
        BY <1>0, <2>2, <2>4, <3>1 DEF GroupInv, Ended
      <3>4. ~(group.status = "completed" /\ group.mode = "sync")
        BY <2>1, <2>2 DEF GroupInv
      <3> QED BY <2>4, <3>2, <3>3, <3>4, GroupGoesOn
    <2> QED BY <1>6, <2>3, <2>4 DEF Group!ChildRaises
  <1>7. CASE Group!JoinGroup
    <2>1. /\ group.mode = "sync" /\ UNCHANGED <<row, task, sent>>
          /\ \A t \in Scheduled : task[t] \in {"done", "raised"}
      BY <1>7 DEF Group!JoinGroup, Scheduled
    <2>2. CASE group' = [group EXCEPT !.end = "raised"]
      <3>1. /\ group' \in GroupRow /\ group'.status = group.status
            /\ group'.mode = group.mode /\ group'.policy = group.policy
        BY <1>0, <2>2 DEF GroupTypes, GroupRow
      <3> QED BY <2>1, <3>1 DEF GroupInv, GroupTypes, Ended, NeedsAResult
    <2>3. CASE /\ ~\E t \in Tasks : task[t] = "raised"
               /\ group' = [group EXCEPT !.end = "returned", !.status =
                              IF Group!evaluate_join_policy(group.policy, Group!Statuses)
                              THEN "completed" ELSE "running"]
      <3>1. /\ group' \in GroupRow /\ group'.mode = group.mode /\ group'.policy = group.policy
            /\ group'.status = "completed" =>
                  Group!evaluate_join_policy(group.policy, Group!Statuses)
        BY <1>0, <2>3 DEF GroupTypes, GroupRow
      <3>2. \A t \in Scheduled : task[t] = "done" /\ Ended(t)
        BY <1>0, <2>1, <2>3 DEF GroupInv
      <3>3. group'.status = "completed" /\ group.policy \in {"wait_any", "race", "k_of_n"} =>
               \E t \in Scheduled : row[t].status = "completed"
        BY <3>1, JoinNeedsAResult
      <3> QED BY <2>1, <3>1, <3>2, <3>3 DEF GroupInv, GroupTypes, Ended, NeedsAResult
    <2> QED BY <1>7, <2>2, <2>3 DEF Group!JoinGroup
  <1>8. CASE Group!AbortParent
    BY <1>8 DEF Group!AbortParent, GroupInv, GroupTypes, Ended, NeedsAResult
  <1> QED BY <1>1, <1>2, <1>3, <1>4, <1>5, <1>6, <1>7, <1>8
          DEF Group!Next, Group!Progress, Group!ChildEnds

\* What the invariant says of a completed group.
LEMMA GroupFacts == GroupInv => Group!CompletedIsSettled
  <1> SUFFICES ASSUME GroupInv, group.status = "completed"
               PROVE  /\ Group!With(Group!Statuses, Group!_TERMINAL_STATUSES) = DOMAIN Group!Statuses
                      /\ NeedsAResult => Group!With(Group!Statuses, {"completed"}) # {}
    BY DEF Group!CompletedIsSettled, NeedsAResult
  <1>1. /\ DOMAIN Group!Statuses = Scheduled
        /\ \A t \in Scheduled : Group!Statuses[t] = row[t].status
    BY DEF Group!Statuses, Scheduled
  <1>2. \A t \in Scheduled : row[t].status \in Group!_TERMINAL_STATUSES
    BY DEF GroupInv, Ended
  <1>3. NeedsAResult => \E t \in Scheduled : row[t].status = "completed"
    BY DEF GroupInv
  <1> QED BY <1>1, <1>2, <1>3 DEF Group!With

-----------------------------------------------------------------------------
(***************************************************************************)
(* What a run delegates its work to.                                       *)
(***************************************************************************)
DelegatedInv ==
    /\ part = "lease" => DriverInv
    /\ LeaseInv /\ JobInv /\ GroupInv /\ MailboxInv

delegatedVars == <<part, leaseVars, jobVars, groupVars, mailboxVars>>

LEMMA DelegatedInitially == Init => DelegatedInv
  BY LeaseInitially, JobInitially, GroupInitially, MailboxInitially DEF Init, DelegatedInv

LEMMA LeaseUntouched ==
    ASSUME LeaseInv, UNCHANGED leaseVars PROVE LeaseInv' /\ (DriverInv => DriverInv')
  BY DEF leaseVars, LeaseInv, LeaseTypes, WorkerFits, Usable, DriverInv, LeaseIsAccounted

LEMMA JobUntouched == ASSUME JobInv, UNCHANGED jobVars PROVE JobInv'
  BY DEF jobVars, JobInv, JobTypes, HandleIsSound, ShownIsSeen, Covered, Was

LEMMA GroupUntouched == ASSUME GroupInv, UNCHANGED groupVars PROVE GroupInv'
  BY DEF groupVars, GroupInv, GroupTypes, Ended, NeedsAResult

LEMMA MailboxUntouched == ASSUME MailboxInv, UNCHANGED mailboxVars PROVE MailboxInv'
  BY DEF mailboxVars, MailboxInv, MailboxTypes, CallIsSound, Mailbox!OneQueuedPerKey,
         Mailbox!NotMergedIntoThePast, Mailbox!list_pending

LEMMA DelegatedStep == ASSUME DelegatedInv, [Next]_delegatedVars PROVE DelegatedInv'
  <1>1. LeaseInv /\ JobInv /\ GroupInv /\ MailboxInv /\ (part = "lease" => DriverInv)
    BY DEF DelegatedInv
  <1>2. CASE /\ part = "lease" /\ Lease(FALSE, MaxDrives)!Next
             /\ UNCHANGED <<part, jobVars, groupVars, mailboxVars>>
    BY <1>1, <1>2, LeaseStep, DriverStep, JobUntouched, GroupUntouched, MailboxUntouched
       DEF DelegatedInv
  <1>3. CASE /\ part = "takeover" /\ Lease(TRUE, MaxTakeovers)!Next
             /\ UNCHANGED <<part, jobVars, groupVars, mailboxVars>>
    BY <1>1, <1>3, LeaseStep, JobUntouched, GroupUntouched, MailboxUntouched DEF DelegatedInv
  <1>4. CASE Job!Next /\ UNCHANGED <<part, leaseVars, groupVars, mailboxVars>>
    BY <1>1, <1>4, LeaseUntouched, JobStep, GroupUntouched, MailboxUntouched DEF DelegatedInv
  <1>5. CASE Group!Next /\ UNCHANGED <<part, leaseVars, jobVars, mailboxVars>>
    BY <1>1, <1>5, LeaseUntouched, JobUntouched, GroupStep, MailboxUntouched DEF DelegatedInv
  <1>6. CASE Mailbox!Next /\ UNCHANGED <<part, leaseVars, jobVars, groupVars>>
    BY <1>1, <1>6, LeaseUntouched, JobUntouched, GroupUntouched, MailboxStep DEF DelegatedInv
  <1>7. CASE UNCHANGED delegatedVars
    BY <1>1, <1>7, LeaseUntouched, JobUntouched, GroupUntouched, MailboxUntouched
       DEF DelegatedInv, delegatedVars
  <1> QED BY <1>2, <1>3, <1>4, <1>5, <1>6, <1>7 DEF Next

\* The invariants of the lease, the job, the group and the mailbox hold in every reachable
\* state, for every number of environments, workers, events, children, items and processes.
THEOREM DelegatedInvariant == Spec => []DelegatedInv
  <1>1. Spec => Init /\ [][Next]_delegatedVars
    BY PTL DEF Spec, delegatedVars
  <1> QED BY <1>1, DelegatedInitially, DelegatedStep, PTL

\* Through pauses, crashes and resumes the work of a run with one driver at a time is done in
\* one environment, and one that was acquired is held, kept or gone; and whoever drives the
\* run, what LeaseManager closes is never the host's environment.
THEOREM LeaseKeepsItsWord == Spec => []LeaseIsKept
  <1>1. DelegatedInv => LeaseIsKept
    BY LeaseFacts DEF DelegatedInv, LeaseIsKept, LeaseInv, Lease!HostStateSurvives
  <1> QED BY <1>1, DelegatedInvariant, PTL

\* However pages overlap, however late events of an earlier generation arrive and wherever a
\* host dies, JobObserver hands on every event up to its cursor, each once to a process.
THEOREM JobMissesNothing == Spec => []NothingIsMissed
  <1>1. DelegatedInv => NothingIsMissed
    BY JobFacts DEF DelegatedInv, NothingIsMissed
  <1> QED BY <1>1, DelegatedInvariant, PTL

\* A group that the executor completed has only rows of children that ended, and what its
\* join policy needs, while stops, messages, aborts and repeats go on.
THEOREM GroupStaysSettled == Spec => []CompletedIsSettled
  <1>1. DelegatedInv => CompletedIsSettled
    BY GroupFacts DEF DelegatedInv, CompletedIsSettled
  <1> QED BY <1>1, DelegatedInvariant, PTL

\* Any number of processes that enqueue at once leave one queued item for a key, and none
\* merges a message into an item that was collected before.
THEOREM MailboxQueuesOne == Spec => []OneQueuedPerKey
  <1>1. DelegatedInv => OneQueuedPerKey
    BY DEF DelegatedInv, MailboxInv, OneQueuedPerKey
  <1> QED BY <1>1, DelegatedInvariant, PTL

\* Whatever stale row a process writes last, an item that has left the queue stays out.
THEOREM MailboxNeverRequeues == Spec => NeverRequeued
  <1> DEFINE Forward == \A i \in Items :
                 status[i] \notin {"absent", "queued"} => status'[i] # "queued"
  <1>1. ASSUME DelegatedInv, [Next]_delegatedVars PROVE [Forward]_mailboxVars
    <2>1. CASE UNCHANGED mailboxVars
      BY <2>1
    <2>2. CASE Mailbox!Next
      <3>1. MailboxInv
        BY <1>1 DEF DelegatedInv
      <3> QED BY <2>2, <3>1, QueuedOnce
    <2> QED BY <1>1, <2>1, <2>2 DEF Next, delegatedVars
  <1>2. Spec => [][Next]_delegatedVars
    BY PTL DEF Spec, delegatedVars
  <1>3. Spec => [][Forward]_mailboxVars
    BY <1>1, <1>2, DelegatedInvariant, PTL
  <1> QED BY <1>3 DEF NeverRequeued

=============================================================================
