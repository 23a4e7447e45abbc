---------------------------- MODULE ControlPlane ----------------------------
(***************************************************************************)
(* What a host stops, approves and watches runs with: the abort handles,   *)
(* the abort ledger, the HTTP run manager and the gateway.  They share no  *)
(* state, so a behaviour is one of a single part, the others stay as they  *)
(* are initially.                                                          *)
(***************************************************************************)
EXTENDS AbortCascade

CONSTANTS
    Workers,                                            \* AbortLedger
    Runs, Watchers, NoRun, MaxRuns, MaxParks,           \* RunManager, whose clients watch
    Clients, Sessions, NoSession, MaxPauses, Disconnects \* Gateway

VARIABLES
    part,                                                       \* the part that moves
    rows, phase, outcome, handle, early,                        \* AbortLedger
    records, tasks, table, streams, durable, parks, decisions, stopped,  \* RunManager
    parked, owner, pauses, saved, leg, ungated                  \* Gateway

Ledger  == INSTANCE AbortLedger
Manager == INSTANCE RunManager WITH Clients <- Watchers
Front   == INSTANCE Gateway

ASSUME LedgerAssumption == Ledger!ReasonAssumption
ASSUME ManagerAssumption == Manager!ManagerAssumption
ASSUME GatewayAssumption == Front!GatewayAssumption

ledgerVars  == <<rows, phase, outcome, handle, early>>
managerVars == <<records, tasks, table, streams, durable, parks, decisions, stopped>>
gatewayVars == <<parked, owner, pauses, saved, leg, ungated>>

AllInit ==
    /\ part \in {"handles", "ledger", "manager", "gateway"}
    /\ Init /\ Ledger!Init /\ Manager!Init /\ Front!Init

AllNext ==
    \/ part = "handles" /\ Next /\ UNCHANGED <<part, ledgerVars, managerVars, gatewayVars>>
    \/ part = "ledger" /\ Ledger!Next /\ UNCHANGED <<part, vars, managerVars, gatewayVars>>
    \/ part = "manager" /\ Manager!Next /\ UNCHANGED <<part, vars, ledgerVars, gatewayVars>>
    \/ part = "gateway" /\ Front!Next /\ UNCHANGED <<part, vars, ledgerVars, managerVars>>

AllSpec ==
    /\ AllInit /\ [][AllNext]_<<part, vars, ledgerVars, managerVars, gatewayVars>>
    /\ Fairness /\ Manager!Fairness

-----------------------------------------------------------------------------
\* Both implementations of the abort ledger tell a host the same state; it claims an
\* abort only if a drive ended by one, a completion only if one completed; and a stop on
\* the ledger when a drive returned is answered when that process is done
\* (_finalize_abort_lifecycle).
LedgerIsTruthful ==
    Ledger!StatesAgree /\ Ledger!OutcomeIsTruthful /\ Ledger!EarlyRequestIsAnswered

\* The run manager keeps what clients still need: eviction takes no run that approvals
\* and stops have to find, a parked run takes one decision of an approval and a stop that
\* race, and a subscriber sees every event once, in order, whenever it joins.  So does the
\* gateway: two answers do not both drive a run, a run is answered only in the session it
\* was submitted in, and what is listed as pending is what the checkpoint store waits for.
RunsAreKept ==
    /\ Manager!LiveRunIsKept /\ Manager!OneDecisionPerPark /\ Manager!StreamIsComplete
    /\ Front!OneDriver /\ Front!SessionsAreSeparate /\ Front!ParkedIsPaused

\* A run stopped while it is parked comes to its end, and the stream of a run that is
\* over ends.
StreamEnds == Manager!StopUnparks /\ Manager!StreamEnds
=============================================================================
