--------------------------- MODULE ExecutionLease ---------------------------
(***************************************************************************)
(* The workspace lease of one run (execution/lease.py, and its use in      *)
(* runtime/runner.py): acquired or attached when a worker begins to drive  *)
(* the run, kept over a pause and attached again by the reference in the   *)
(* checkpoint, released or detached when the drive ends.  Workers may      *)
(* crash; a run may be driven again from its last checkpoint while an      *)
(* earlier worker is still alive.  The backend is external.                *)
(***************************************************************************)
EXTENDS Naturals, FiniteSets

CONSTANTS
    Leases,     \* environments the backend can hand out, in their order
    Workers,
    NoLease,
    HostLease,  \* the environment of the host, for a run that attaches to it
    Takeover,   \* whether a run is driven again while a worker still drives it
    MaxDrives   \* bound: how often the run is driven

\* What the constants have to be.
LeaseAssumption ==
    /\ Leases \subseteq Nat /\ IsFiniteSet(Leases) /\ NoLease \notin Leases
    /\ HostLease \notin Leases \cup {NoLease} /\ Takeover \in BOOLEAN /\ MaxDrives \in Nat

VARIABLES
    ownership,  \* of the run's lease: runtime or host
    backend,    \* the state of every environment
    run,        \* new, running, paused or over; a resumed run is paused until it is saved again
    saved,      \* execution_lease_ref in the checkpoint
    generation, \* llm_generation: the number of the last drive
    worker,     \* what every worker does: pc, its manager's lease and its generation
    worked,     \* history: environments whose work is in a checkpoint
    abandoned   \* history: environments lost with a crash or a failed teardown

vars == <<ownership, backend, run, saved, generation, worker, worked, abandoned>>

Environments == Leases \cup {HostLease}
Away == [pc |-> "away", lease |-> NoLease, gen |-> 0]

Init ==
    /\ ownership \in {"runtime", "host"}
    /\ backend = [l \in Environments |-> IF l = HostLease THEN "ready" ELSE "absent"]
    /\ run = "new"
    /\ saved = IF ownership = "host" THEN HostLease ELSE NoLease
    /\ generation = 0
    /\ worker = [w \in Workers |-> Away]
    /\ worked = {}
    /\ abandoned = {}

Driving == {w \in Workers : worker[w].pc = "drive"}

\* run(): a worker begins to drive a new run, a paused one, or one whose worker is gone.
Begin(w) ==
    /\ worker[w] = Away
    /\ generation < MaxDrives
    /\ run # "over"
    /\ \A v \in Workers : worker[v].pc # "setup"
    /\ Takeover \/ Driving = {}
    /\ generation' = generation + 1
    /\ run' = IF run = "paused" THEN run ELSE "running"
    /\ worker' = [worker EXCEPT ![w] = [pc |-> "setup", lease |-> NoLease, gen |-> generation + 1]]
    /\ UNCHANGED <<ownership, backend, saved, worked, abandoned>>

\* attach_by_ref: the environment the checkpoint names, or the run fails closed.
attach_by_ref(w) ==
    /\ worker[w].pc = "setup" /\ saved # NoLease
    /\ \/ /\ backend[saved] = "ready"
          /\ worker' = [worker EXCEPT ![w].pc = "drive", ![w].lease = saved]
          /\ UNCHANGED run
       \/ /\ backend[saved] # "ready"
          /\ worker' = [worker EXCEPT ![w] = Away]
          /\ run' = "over"
    /\ UNCHANGED <<ownership, backend, saved, generation, worked, abandoned>>

\* acquire_or_attach without a reference: a new environment; one that is not ready fails
\* the run, and the manager forgets it.
acquire_or_attach(w) ==
    /\ worker[w].pc = "setup" /\ saved = NoLease
    /\ \E l \in Leases, state \in {"ready", "pending"} :
          /\ backend[l] = "absent" /\ \A m \in Leases : m < l => backend[m] # "absent"
          /\ backend' = [backend EXCEPT ![l] = state]
          /\ \/ /\ state = "ready"
                /\ worker' = [worker EXCEPT ![w].pc = "drive", ![w].lease = l]
                /\ UNCHANGED run
             \/ /\ state = "pending"
                /\ worker' = [worker EXCEPT ![w] = Away]
                /\ run' = "over"
    /\ UNCHANGED <<ownership, saved, generation, worked, abandoned>>

\* A step of the loop: its work and the reference are in the checkpoint.
_execute_step(w) ==
    /\ w \in Driving
    /\ worked' = worked \cup {worker[w].lease}
    /\ saved' = worker[w].lease
    /\ run' = "running"
    /\ UNCHANGED <<ownership, backend, generation, worker, abandoned>>

\* close: a lease of the runtime is released, one of the host detached; the backend may fail.
close(w, fails) ==
    LET l == worker[w].lease
    IN /\ backend' = [backend EXCEPT ![l] = IF fails \/ ownership = "host" THEN @ ELSE "released"]
       /\ abandoned' = IF fails THEN abandoned \cup {l} ELSE abandoned

\* The drive ends in a pause: the lease is kept, its reference saved.
Pause(w) ==
    /\ w \in Driving
    /\ saved' = worker[w].lease
    /\ worked' = worked \cup {worker[w].lease}
    /\ run' = "paused"
    /\ worker' = [worker EXCEPT ![w] = Away]
    /\ UNCHANGED <<ownership, backend, generation, abandoned>>

\* Mutant: a drive that raises does not come to its end.
ReleaseOnReturn(w, fails, returns) ==
    /\ w \in Driving
    /\ IF returns THEN close(w, fails) ELSE UNCHANGED <<backend, abandoned>>
    /\ run' = IF returns THEN "over" ELSE run
    /\ worker' = [worker EXCEPT ![w] = Away]
    /\ UNCHANGED <<ownership, saved, generation, worked>>

\* _release_execution_lease: the drive returns a terminal output, or raises and leaves the
\* run to be driven again.
_release_execution_lease(w, fails, returns) ==
    /\ w \in Driving
    /\ close(w, fails)
    /\ run' = IF returns THEN "over" ELSE run
    /\ worker' = [worker EXCEPT ![w] = Away]
    /\ UNCHANGED <<ownership, saved, generation, worked>>

\* A worker that finds its generation superseded, which it looks at around a model call,
\* raises and leaves through the same finally.
ResultFenced(w, fails) ==
    /\ w \in Driving /\ worker[w].gen # generation
    /\ close(w, fails)
    /\ worker' = [worker EXCEPT ![w] = Away]
    /\ UNCHANGED <<ownership, run, saved, generation, worked>>

\* A worker dies.
Crash(w) ==
    /\ worker[w] # Away
    /\ worker' = [worker EXCEPT ![w] = Away]
    /\ abandoned' = IF worker[w].lease = NoLease THEN abandoned
                    ELSE abandoned \cup {worker[w].lease}
    /\ UNCHANGED <<ownership, backend, run, saved, generation, worked>>

\* The backend lets an environment expire.
Expire(l) ==
    /\ backend[l] = "ready" /\ l # HostLease
    /\ backend' = [backend EXCEPT ![l] = "expired"]
    /\ UNCHANGED <<ownership, run, saved, generation, worker, worked, abandoned>>

Next ==
    \/ \E w \in Workers :
          \/ Begin(w) \/ attach_by_ref(w) \/ acquire_or_attach(w) \/ _execute_step(w)
          \/ Pause(w) \/ Crash(w)
          \/ \E fails \in BOOLEAN :
                \/ ResultFenced(w, fails)
                \/ \E returns \in BOOLEAN : _release_execution_lease(w, fails, returns)
    \/ \E l \in Leases : Expire(l)

Spec == Init /\ [][Next]_vars

-----------------------------------------------------------------------------
\* "it never destroys host-owned external state": through pauses, crashes, resumes and stale
\* workers, the host's environment is as the host made it.
HostStateSurvives == backend[HostLease] = "ready"

\* The work of a run is done in one environment: a run that is resumed continues where its
\* checkpoints were made or fails, it does not go on in an empty one.
OneEnvironment == Cardinality(worked) <= 1

\* "close exactly once on every exit": an environment of the runtime that was usable is held
\* by a worker, kept for a paused run, or gone, unless its worker crashed or the backend
\* refused to tear it down.
NothingIsHeldByNobody ==
    \A l \in Leases :
        backend[l] = "ready" =>
            \/ \E w \in Workers : worker[w].lease = l
            \/ (saved = l /\ run = "paused")
            \/ (saved = l /\ \E w \in Workers : worker[w].pc = "setup")
            \/ l \in abandoned

\* "A runtime-owned lease receives exactly one effective release across normal, exception,
\* timeout, and cancellation paths": nothing the run acquired is left when it is over.
NothingAcquiredIsLeft == run = "over" /\ Driving = {} => \A l \in Leases : backend[l] # "pending"

\* "PAUSED retains the lease (resume re-attaches)": a paused run finds its environment again,
\* only the backend can have taken it away.
PausedKeepsItsLease ==
    run = "paused" => saved \in worked /\ backend[saved] \in {"ready", "expired"}

\* "The stale attempt may record that it was fenced, but must not ...": what it does at its
\* end does not reach the worker that owns the run.
OwnerKeepsItsLease ==
    \A w \in Driving : worker[w].gen = generation => backend[worker[w].lease] # "released"
=============================================================================
