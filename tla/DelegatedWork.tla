---------------------------- MODULE DelegatedWork ----------------------------
(***************************************************************************)
(* What a run delegates its work to: the workspace lease with one driver   *)
(* at a time ("lease") and with a driver that is superseded ("takeover"),  *)
(* a job on an execution backend ("job"), a group of child agents          *)
(* ("group") and their mailbox ("mailbox").  They share no variable; a     *)
(* behaviour is one of a single instance.                                  *)
(***************************************************************************)
EXTENDS Integers

CONSTANTS
    Leases, Workers, NoLease, HostLease, MaxDrives, MaxTakeovers,          \* ExecutionLease
    MaxGeneration, MaxSequence, max_pages, MaxCrashes,                     \* ExecutionJobs
    Tasks, max_parallel, max_child_runs, MaxMessages, MaxExecutions,       \* SubagentGroup
    Items, Processes, Key, Kind, NoItem                                    \* SubagentMailbox

VARIABLES
    part,                                                    \* the instance that moves
    ownership, backend, run, saved, generation, worker, worked, abandoned, \* ExecutionLease
    job, pc, handle, cursor, observer, persisted, shown, result, crashes,  \* ExecutionJobs
    group, row, task, aborted, spawned, sent,                              \* SubagentGroup
    sqlite, status, call, left, answer                                     \* SubagentMailbox

Lease(takeover, drives) == INSTANCE ExecutionLease WITH
    Takeover <- takeover, MaxDrives <- drives

Job == INSTANCE ExecutionJobs WITH saved <- persisted

Group == INSTANCE SubagentGroup

Mailbox == INSTANCE SubagentMailbox

ASSUME LeasesAssumption ==
    Lease(FALSE, MaxDrives)!LeaseAssumption /\ Lease(TRUE, MaxTakeovers)!LeaseAssumption

ASSUME JobsAssumption == Job!JobsAssumption

ASSUME GroupAssumption == Group!GroupAssumption

ASSUME MailboxAssumption == Mailbox!MailboxAssumption

leaseVars == <<ownership, backend, run, saved, generation, worker, worked, abandoned>>
jobVars == <<job, pc, handle, cursor, observer, persisted, shown, result, crashes>>
groupVars == <<group, row, task, aborted, spawned, sent>>
mailboxVars == <<sqlite, status, call, left, answer>>

Init ==
    /\ part \in {"lease", "takeover", "job", "group", "mailbox"}
    /\ Lease(FALSE, MaxDrives)!Init
    /\ part \notin {"lease", "takeover"} => ownership = "host"
    /\ Job!Init
    /\ Group!Init
    /\ Mailbox!Init
    /\ part # "mailbox" => sqlite

Next ==
    \/ /\ part = "lease" /\ Lease(FALSE, MaxDrives)!Next
       /\ UNCHANGED <<part, jobVars, groupVars, mailboxVars>>
    \/ /\ part = "takeover" /\ Lease(TRUE, MaxTakeovers)!Next
       /\ UNCHANGED <<part, jobVars, groupVars, mailboxVars>>
    \/ part = "job" /\ Job!Next /\ UNCHANGED <<part, leaseVars, groupVars, mailboxVars>>
    \/ part = "group" /\ Group!Next /\ UNCHANGED <<part, leaseVars, jobVars, mailboxVars>>
    \/ part = "mailbox" /\ Mailbox!Next /\ UNCHANGED <<part, leaseVars, jobVars, groupVars>>

\* A call of the job's backend returns, so its host goes on; a group goes on and its
\* children end.
Spec ==
    /\ Init /\ [][Next]_<<part, leaseVars, jobVars, groupVars, mailboxVars>>
    /\ WF_jobVars(part = "job" /\ Job!observe)
    /\ WF_jobVars(part = "job" /\ Job!resolve_terminal)
    /\ WF_groupVars(part = "group" /\ Group!Progress)

-----------------------------------------------------------------------------
\* The work of a run is done in one environment, where its checkpoints were made, or the
\* resume fails closed; the environment is held by a worker, kept for a paused run, or gone,
\* unless its worker crashed or the backend refused; and the host's own survives pauses,
\* crashes, resumes and superseded workers.
LeaseIsKept ==
    /\ part = "lease" => /\ Lease(FALSE, MaxDrives)!OneEnvironment
                         /\ Lease(FALSE, MaxDrives)!NothingIsHeldByNobody
    /\ Lease(FALSE, MaxDrives)!HostStateSurvives

\* Up to the cursor every event was shown, now or to an earlier process, unless the job was
\* started over or the loop knows that it has a gap; and however pages overlap and however
\* late others arrive, a process is shown an event once, of the generation it holds.
NothingIsMissed == Job!NothingIsMissed /\ Job!ShownOnce

\* The observation of a job ends: quiet and endless jobs, lost transports and hosts that die
\* all lead to an answer.
ObservationEnds == pc = "observe" ~> pc = "returned"

\* A group that is completed stays settled while stops and repeats go on.
CompletedIsSettled == Group!CompletedIsSettled

\* Every group comes to an end, although its children raise, are stopped or aborted.
GroupEnds ==
    group.status = "running" ~>
        (group.status = "completed" \/ (group.mode = "sync" /\ group.end # "none"))

\* Two processes that enqueue at once leave one queued item where one was to be merged, and
\* a message is merged only into an item that somebody has still to collect.
OneQueuedPerKey == Mailbox!OneQueuedPerKey /\ Mailbox!NotMergedIntoThePast

\* An item that has left the queue does not come back, whatever stale row is written last.
NeverRequeued ==
    [][\A i \in Items :
          status[i] \notin {"absent", "queued"} => status'[i] # "queued"]_mailboxVars
==============================================================================
