---------------------------- MODULE AbortCascade ----------------------------
(***************************************************************************)
(* The cascading abort signal of runtime/abort.py: handles of a run and of *)
(* its subagents, each holding its children weakly, flipped and extended   *)
(* by any thread.  Each section under a handle's lock is one step; between *)
(* two of them a thread still has handles to descend into.  The order in   *)
(* which a thread visits a snapshot of a WeakSet is arbitrary, so what is  *)
(* left of its recursion is a set.                                         *)
(***************************************************************************)
EXTENDS Naturals, FiniteSets

CONSTANTS
    Handles,        \* handles that can ever exist
    Root,           \* the handle of the top-level run
    Threads,        \* threads that call abort() and child()
    Reasons,        \* reasons callers give to abort()
    ParentAborted,  \* the reason "parent_aborted"
    NoReason,       \* _reason is None
    NoHandle,       \* no parent: the root, or not created
    ParentsOutlive  \* callers keep a handle as long as they keep one of its children

ASSUME HandlesAssumption == Root \in Handles /\ NoHandle \notin Handles
ASSUME ReasonsAssumption == NoReason \notin Reasons \cup {ParentAborted}
ASSUME ParentsAssumption == ParentsOutlive \in BOOLEAN

VARIABLES
    created,   \* handles ever constructed
    live,      \* handles somebody still holds
    parent,    \* the handle whose child() made this one
    aborted,   \* _aborted
    reason,    \* _reason
    children,  \* _children, the weak set
    pending,   \* handles each thread is still to call abort() on
    carried,   \* the reason it calls it with
    waiting,   \* handles somebody awaits in wait_aborted()
    called     \* history: handles that a host aborted itself

vars == <<created, live, parent, aborted, reason, children, pending, carried,
          waiting, called>>

AnyReason == Reasons \cup {ParentAborted}

Init ==
    /\ created = {Root}
    /\ live = {Root}
    /\ parent = [h \in Handles |-> NoHandle]
    /\ aborted = [h \in Handles |-> FALSE]
    /\ reason = [h \in Handles |-> NoReason]
    /\ children = [h \in Handles |-> {}]
    /\ pending = [t \in Threads |-> {}]
    /\ carried = [t \in Threads |-> NoReason]
    /\ waiting = {}
    /\ called = {}

Held(h) == \E t \in Threads : h \in pending[t]

\* A host calls abort() on a handle it holds.
CallAbort(t, h, r) ==
    /\ pending[t] = {}
    /\ h \in live
    /\ pending' = [pending EXCEPT ![t] = {h}]
    /\ carried' = [carried EXCEPT ![t] = r]
    /\ called' = called \cup {h}
    /\ UNCHANGED <<created, live, parent, aborted, reason, children, waiting>>

\* abort(): the flag, the reason and the snapshot of the children are taken under
\* the lock; the descent goes on without it.  A second abort returns at once.
abort(t, h) ==
    /\ h \in pending[t]
    /\ aborted' = [aborted EXCEPT ![h] = TRUE]
    /\ reason' = IF aborted[h] THEN reason ELSE [reason EXCEPT ![h] = carried[t]]
    /\ pending' = [pending EXCEPT ![t] = (@ \ {h}) \cup
                      (IF aborted[h] THEN {} ELSE children[h])]
    /\ UNCHANGED <<created, live, parent, children, carried, waiting, called>>

\* Mutant: a child of an aborted parent is returned as it is.
ChildIsBornFree(t, h, c) ==
    /\ pending[t] = {}
    /\ h \in live
    /\ c \notin created
    /\ created' = created \cup {c}
    /\ live' = live \cup {c}
    /\ parent' = [parent EXCEPT ![c] = h]
    /\ children' = [children EXCEPT ![h] = @ \cup {c}]
    /\ UNCHANGED <<aborted, reason, waiting, called, pending, carried>>

\* child(): linked and the flag read under the parent's lock; a child of an aborted
\* parent is aborted by the same thread before it is returned.
child(t, h, c) ==
    /\ pending[t] = {}
    /\ h \in live
    /\ c \notin created
    /\ created' = created \cup {c}
    /\ live' = live \cup {c}
    /\ parent' = [parent EXCEPT ![c] = h]
    /\ children' = [children EXCEPT ![h] = @ \cup {c}]
    /\ pending' = [pending EXCEPT ![t] = IF aborted[h] THEN {c} ELSE {}]
    /\ carried' = IF aborted[h]
                  THEN [carried EXCEPT ![t] = IF reason[h] # NoReason THEN reason[h]
                                              ELSE ParentAborted]
                  ELSE carried
    /\ UNCHANGED <<aborted, reason, waiting, called>>

\* Mutant: a handle goes although one of its children is in use.
CollectTheMiddle(h) ==
    /\ h \in live \ {Root}
    /\ h \notin waiting
    /\ ~Held(h)
    /\ live' = live \ {h}
    /\ children' = [p \in Handles |-> children[p] \ {h}]
    /\ UNCHANGED <<created, parent, aborted, reason, pending, carried, waiting, called>>

\* The last strong reference goes: a handle in a snapshot, or one that is awaited, is
\* still held.
Collect(h) ==
    /\ h \in live \ {Root}
    /\ h \notin waiting
    /\ ~Held(h)
    /\ ParentsOutlive => children[h] = {}
    /\ live' = live \ {h}
    /\ children' = [p \in Handles |-> children[p] \ {h}]
    /\ UNCHANGED <<created, parent, aborted, reason, pending, carried, waiting, called>>

\* wait_aborted(): a coroutine polls the flag.
StartWaiting(h) ==
    /\ h \in live \ waiting
    /\ ~aborted[h]
    /\ waiting' = waiting \cup {h}
    /\ UNCHANGED <<created, live, parent, aborted, reason, children, pending, carried,
                   called>>

wait_aborted(h) ==
    /\ h \in waiting
    /\ aborted[h]
    /\ waiting' = waiting \ {h}
    /\ UNCHANGED <<created, live, parent, aborted, reason, children, pending, carried,
                   called>>

Next ==
    \/ \E t \in Threads, h \in Handles :
          \/ \E r \in Reasons : CallAbort(t, h, r)
          \/ abort(t, h)
          \/ \E c \in Handles : child(t, h, c)
    \/ \E h \in Handles : Collect(h) \/ StartWaiting(h) \/ wait_aborted(h)

\* Threads finish the call they are in, and a polling coroutine polls again.
Fairness ==
    /\ \A t \in Threads : WF_vars(\E h \in Handles : abort(t, h))
    /\ \A h \in Handles : WF_vars(wait_aborted(h))

Spec == Init /\ [][Next]_vars
FairSpec == Spec /\ Fairness

-----------------------------------------------------------------------------
\* The shape of the handles' state: runtime/abort.py's slots and the threads in it.
TypeOK ==
    /\ created \subseteq Handles
    /\ live \subseteq created
    /\ parent \in [Handles -> Handles \cup {NoHandle}]
    /\ aborted \in [Handles -> BOOLEAN]
    /\ reason \in [Handles -> AnyReason \cup {NoReason}]
    /\ children \in [Handles -> SUBSET Handles]
    /\ pending \in [Threads -> SUBSET Handles]
    /\ carried \in [Threads -> AnyReason \cup {NoReason}]
    /\ waiting \subseteq Handles
    /\ called \subseteq Handles

\* abort() and child() race on the parent's lock: whatever the order, no child that an
\* aborted parent still links is left alone - it is aborted or some thread has it in hand.
NoChildIsMissed ==
    \A p \in Handles : aborted[p] =>
        \A c \in children[p] : aborted[c] \/ Held(c)

\* An abort only travels downwards: an aborted handle, or one about to be, was aborted by
\* a host or has a parent that is aborted.
AbortHasACause ==
    \A h \in Handles : aborted[h] \/ Held(h) =>
        \/ h \in called
        \/ parent[h] # NoHandle /\ aborted[parent[h]]

\* The cascade reaches what it must and nothing else: no linked child of an aborted
\* handle escapes abort(), and no handle is aborted from below or from the side.
CascadeIsExact == NoChildIsMissed /\ AbortHasACause

\* "Idempotent - calling twice keeps the original reason": the first reason stays, and so
\* does the flag, whoever aborts the handle again.
FirstReasonStays ==
    [][\A h \in Handles : aborted[h] => aborted'[h] /\ reason'[h] = reason[h]]_vars

\* An abort of a handle reaches all the linked handles below it, whoever awaits one of
\* them wakes up, and, as is_aborted documents it ("on self or an ancestor"), the flag of
\* a handle still held follows its grandparent's.
CascadeCompletes ==
    \A c \in Handles \ {Root} :
        /\ (\E p \in Handles : aborted[p] /\ c \in children[p])
            ~> (c \notin live \/ (aborted[c] /\ c \notin waiting))
        /\ (/\ c \in live /\ parent[c] # NoHandle
            /\ parent[parent[c]] # NoHandle /\ aborted[parent[parent[c]]])
           ~> (c \notin live \/ aborted[c])
=============================================================================
