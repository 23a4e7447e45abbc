------------------------ MODULE AbortCascadeProofs ------------------------
(***************************************************************************)
(* The abort cascade's invariants for any number of handles and threads.   *)
(***************************************************************************)
EXTENDS AbortCascade, TLAPS

\* What child() and abort() keep of the links between handles: a handle that was never
\* created is nowhere, and a linked child names the handle that links it.
Links ==
    /\ \A h \in Handles \ created :
          parent[h] = NoHandle /\ ~aborted[h] /\ h \notin called /\ ~Held(h)
    /\ \A p \in Handles : \A c \in children[p] : parent[c] = p /\ c \in created

IInv == TypeOK /\ Links /\ NoChildIsMissed /\ AbortHasACause

LEMMA InitIInv == Init => IInv
BY HandlesAssumption, ReasonsAssumption
DEF Init, IInv, TypeOK, Links, NoChildIsMissed, AbortHasACause, Held, AnyReason

LEMMA CallAbortStep ==
    ASSUME IInv, NEW t \in Threads, NEW h \in Handles, NEW r \in Reasons, CallAbort(t, h, r)
    PROVE  IInv'
<1>1. TypeOK'
  BY DEF IInv, TypeOK, CallAbort, AnyReason
<1>2. Links'
  BY DEF IInv, TypeOK, Links, CallAbort, Held
<1>3. NoChildIsMissed'
  <2>1. \A c \in Handles : Held(c) => Held(c)'
    BY DEF IInv, TypeOK, CallAbort, Held
  <2>2. children \in [Handles -> SUBSET Handles]
    BY DEF IInv, TypeOK
  <2> QED  BY <2>1, <2>2 DEF IInv, NoChildIsMissed, CallAbort
<1>4. AbortHasACause'
  BY DEF IInv, TypeOK, AbortHasACause, CallAbort, Held
<1> QED  BY <1>1, <1>2, <1>3, <1>4 DEF IInv

LEMMA AbortStep ==
    ASSUME IInv, NEW t \in Threads, NEW h \in Handles, abort(t, h)
    PROVE  IInv'
<1>t. TypeOK /\ Links /\ NoChildIsMissed /\ AbortHasACause
  BY DEF IInv
<1>1. TypeOK'
  <2>1. pending' \in [Threads -> SUBSET Handles]
    BY <1>t DEF TypeOK, abort
  <2>2. reason' \in [Handles -> AnyReason \cup {NoReason}]
    BY <1>t DEF TypeOK, abort
  <2>3. aborted' \in [Handles -> BOOLEAN]
    BY <1>t DEF TypeOK, abort
  <2> QED  BY <1>t, <2>1, <2>2, <2>3 DEF TypeOK, abort
<1>2. \A c \in Handles : Held(c)' => Held(c) \/ (c \in children[h] /\ ~aborted[h])
  BY <1>t DEF TypeOK, abort, Held
<1>3. \A c \in Handles : Held(c) => c = h \/ Held(c)'
  BY <1>t DEF TypeOK, abort, Held
<1>4. \A c \in children[h] : aborted[h] \/ Held(c)'
  BY <1>t DEF TypeOK, abort, Held
<1>5. aborted'[h] /\ \A c \in Handles : c # h => (aborted'[c] <=> aborted[c])
  BY <1>t DEF TypeOK, abort
<1>6. Held(h)
  BY DEF abort, Held
<1>7. children \in [Handles -> SUBSET Handles]
  BY <1>t DEF TypeOK
<1>8. Links'
  BY <1>t, <1>2, <1>5, <1>6, <1>7 DEF Links, abort
<1>9. NoChildIsMissed'
  BY <1>t, <1>3, <1>4, <1>5, <1>7 DEF NoChildIsMissed, abort
<1>10. AbortHasACause'
  <2> SUFFICES ASSUME NEW x \in Handles, aborted'[x] \/ Held(x)'
               PROVE  (x \in called \/ (parent[x] # NoHandle /\ aborted[parent[x]]))'
    BY DEF AbortHasACause
  <2>1. \A p \in Handles : aborted[p] => aborted'[p]
    BY <1>5
  <2>2. parent \in [Handles -> Handles \cup {NoHandle}] /\ parent' = parent /\ called' = called
    BY <1>t DEF TypeOK, abort
  <2>3. CASE aborted[x] \/ Held(x)
    BY <1>t, <2>1, <2>2, <2>3 DEF AbortHasACause
  <2>4. CASE ~(aborted[x] \/ Held(x))
    <3>1. x # h
      BY <1>6, <2>4
    <3>2. x \in children[h]
      BY <1>2, <1>5, <2>4, <3>1
    <3>3. parent[x] = h
      BY <1>t, <3>2 DEF Links
    <3> QED  BY <1>5, <2>2, <3>3, HandlesAssumption
  <2> QED  BY <2>3, <2>4
<1> QED  BY <1>1, <1>8, <1>9, <1>10 DEF IInv

LEMMA ChildStep ==
    ASSUME IInv, NEW t \in Threads, NEW h \in Handles, NEW c \in Handles, child(t, h, c)
    PROVE  IInv'
<1>t. TypeOK /\ Links /\ NoChildIsMissed /\ AbortHasACause
  BY DEF IInv
<1>1. TypeOK'
  <2>1. pending' \in [Threads -> SUBSET Handles]
    BY <1>t DEF TypeOK, child
  <2>2. carried' \in [Threads -> AnyReason \cup {NoReason}]
    BY <1>t DEF TypeOK, child, AnyReason
  <2>3. children' \in [Handles -> SUBSET Handles]
    BY <1>t DEF TypeOK, child
  <2>4. parent' \in [Handles -> Handles \cup {NoHandle}]
    BY <1>t DEF TypeOK, child
  <2> QED  BY <1>t, <2>1, <2>2, <2>3, <2>4 DEF TypeOK, child
<1>2. c \notin created /\ h \in created
  BY <1>t DEF TypeOK, child
<1>3. \A x \in Handles : Held(x) => Held(x)'
  BY <1>t DEF TypeOK, child, Held
<1>4. \A x \in Handles : Held(x)' => Held(x) \/ (x = c /\ aborted[h])
  BY <1>t DEF TypeOK, child, Held
<1>5. aborted[h] => Held(c)'
  BY <1>t DEF TypeOK, child, Held
<1>6. aborted' = aborted /\ called' = called
  BY DEF child
<1>7. \A x \in Handles : x # c => parent'[x] = parent[x]
  BY <1>t DEF TypeOK, child
<1>8. parent'[c] = h
  BY <1>t DEF TypeOK, child
<1>9. \A p \in Handles : \A x \in children'[p] : x \in children[p] \/ (p = h /\ x = c)
  BY <1>t DEF TypeOK, child
<1>10. Links'
  <2>1. \A x \in Handles \ created' : x \in Handles \ created /\ x # c
    BY DEF child
  <2>2. (\A x \in Handles \ created :
            parent[x] = NoHandle /\ ~aborted[x] /\ x \notin called /\ ~Held(x))'
    BY <1>t, <2>1, <1>4, <1>6, <1>7 DEF Links
  <2>3. created' = created \cup {c}
    BY DEF child
  <2>4. \A p \in Handles : \A x \in children[p] : x # c
    BY <1>t, <1>2 DEF Links
  <2>5. (\A p \in Handles : \A x \in children[p] : parent[x] = p /\ x \in created)'
    BY <1>t, <1>7, <1>8, <1>9, <2>3, <2>4 DEF Links, TypeOK
  <2> QED  BY <2>2, <2>5 DEF Links
<1>11. NoChildIsMissed'
  BY <1>t, <1>3, <1>5, <1>6, <1>9 DEF NoChildIsMissed, TypeOK
<1>12. AbortHasACause'
  <2> SUFFICES ASSUME NEW x \in Handles, aborted'[x] \/ Held(x)'
               PROVE  (x \in called \/ (parent[x] # NoHandle /\ aborted[parent[x]]))'
    BY DEF AbortHasACause
  <2>1. CASE x = c
    <3>1. ~aborted[c] /\ ~Held(c)
      BY <1>t, <1>2 DEF Links
    <3> QED  BY <1>4, <1>6, <1>8, <2>1, <3>1, HandlesAssumption
  <2>2. CASE x # c
    BY <1>t, <1>4, <1>6, <1>7, <2>2 DEF AbortHasACause
  <2> QED  BY <2>1, <2>2
<1> QED  BY <1>1, <1>10, <1>11, <1>12 DEF IInv

LEMMA CollectStep ==
    ASSUME IInv, NEW h \in Handles, Collect(h)
    PROVE  IInv'
<1>1. \A x \in Handles : Held(x)' <=> Held(x)
  BY DEF Collect, Held
<1>2. TypeOK'
  <2>1. children' \in [Handles -> SUBSET Handles]
    BY DEF IInv, TypeOK, Collect
  <2> QED  BY <2>1 DEF IInv, TypeOK, Collect
<1>3. \A p \in Handles : children'[p] \subseteq children[p]
  BY DEF Collect
<1>4. Links'
  BY <1>1, <1>3 DEF IInv, Links, Collect
<1>5. NoChildIsMissed'
  BY <1>1, <1>3 DEF IInv, TypeOK, NoChildIsMissed, Collect
<1>6. AbortHasACause'
  BY <1>1 DEF IInv, AbortHasACause, Collect
<1> QED  BY <1>2, <1>4, <1>5, <1>6 DEF IInv

LEMMA WaitStep ==
    ASSUME IInv, NEW h \in Handles, StartWaiting(h) \/ wait_aborted(h)
    PROVE  IInv'
BY DEF IInv, TypeOK, Links, NoChildIsMissed, AbortHasACause, Held, StartWaiting,
       wait_aborted

LEMMA NextIInv == IInv /\ [Next]_vars => IInv'
<1> SUFFICES ASSUME IInv, [Next]_vars PROVE IInv'
  OBVIOUS
<1>1. CASE \E t \in Threads, h \in Handles, r \in Reasons : CallAbort(t, h, r)
  BY <1>1, CallAbortStep
<1>2. CASE \E t \in Threads, h \in Handles : abort(t, h)
  BY <1>2, AbortStep
<1>3. CASE \E t \in Threads, h \in Handles, c \in Handles : child(t, h, c)
  BY <1>3, ChildStep
<1>4. CASE \E h \in Handles : Collect(h)
  BY <1>4, CollectStep
<1>5. CASE \E h \in Handles : StartWaiting(h) \/ wait_aborted(h)
  BY <1>5, WaitStep
<1>6. CASE UNCHANGED vars
  BY <1>6 DEF vars, IInv, TypeOK, Links, NoChildIsMissed, AbortHasACause, Held
<1> QED  BY <1>1, <1>2, <1>3, <1>4, <1>5, <1>6 DEF Next

\* child() racing with abort() on its parent's lock leaves no child behind, and an abort
\* never climbs to a parent or crosses to a sibling, however many threads and handles.
THEOREM CascadeSafety == Spec => []CascadeIsExact
<1>1. IInv => CascadeIsExact
  BY DEF IInv, CascadeIsExact
<1> QED  BY InitIInv, NextIInv, <1>1, PTL DEF Spec

LEMMA FirstReasonStep ==
    IInv /\ [Next]_vars =>
        [\A h \in Handles : aborted[h] => aborted'[h] /\ reason'[h] = reason[h]]_vars
<1> SUFFICES ASSUME IInv, Next, NEW h \in Handles, aborted[h]
             PROVE  aborted'[h] /\ reason'[h] = reason[h]
  OBVIOUS
<1>1. TypeOK
  BY DEF IInv
<1>2. CASE \E t \in Threads, x \in Handles : abort(t, x)
  <2> PICK t \in Threads, x \in Handles : abort(t, x)
    BY <1>2
  <2>1. aborted' = [aborted EXCEPT ![x] = TRUE]
    BY DEF abort
  <2>2. reason' = IF aborted[x] THEN reason ELSE [reason EXCEPT ![x] = carried[t]]
    BY DEF abort
  <2>3. aborted'[h]
    BY <1>1, <2>1 DEF TypeOK
  <2>4. reason'[h] = reason[h]
    BY <1>1, <2>2 DEF TypeOK
  <2> QED  BY <2>3, <2>4
<1>3. CASE ~\E t \in Threads, x \in Handles : abort(t, x)
  <2>1. aborted' = aborted /\ reason' = reason
    BY <1>3 DEF Next, CallAbort, child, Collect, StartWaiting, wait_aborted
  <2> QED  BY <2>1
<1> QED  BY <1>2, <1>3

\* Whoever aborts a handle again changes neither its flag nor its reason.
THEOREM ReasonsAreKept == Spec => FirstReasonStays
<1> QED  BY InitIInv, NextIInv, FirstReasonStep, PTL DEF Spec, FirstReasonStays
=============================================================================
