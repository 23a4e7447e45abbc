------------------------ MODULE LiveMessageContract -------------------------
(***************************************************************************)
(* What the live-message control plane promises a host, with no store,     *)
(* claims, priorities or generations in sight: a message accepted for a    *)
(* turn is delivered or dropped at most once, the end of the turn moves    *)
(* every undelivered message to the next turn in the same step, and Stop   *)
(* drops every undelivered message in the same step.                       *)
(***************************************************************************)
EXTENDS Naturals

CONSTANTS Runs, NoRun, MaxItems

VARIABLES
    rows,   \* run and place of every accepted row, by admission number
    size,   \* number of rows
    turn    \* "open", "stopped" or "ended", for every run

contractVars == <<rows, size, turn>>

Pending == {"current", "next"}
Row(r, place) == [run |-> r, place |-> place]
Grow(old, row) == [q \in 1..(size + 1) |-> IF q = size + 1 THEN row ELSE old[q]]

\* The rows once every row of r at one of the places has moved.
Move(r, places, to) ==
    [q \in 1..size |-> IF rows[q].run = r /\ rows[q].place \in places
                       THEN Row(r, to) ELSE rows[q]]

ContractInit ==
    /\ rows = [q \in 1..0 |-> Row(NoRun, "control")]
    /\ size = 0
    /\ turn = [r \in Runs |-> "open"]

\* Only an open turn accepts a message; other controls are always recorded.
Accept(r, place) ==
    /\ place \in Pending /\ r \in Runs => turn[r] = "open"
    /\ size < MaxItems
    /\ rows' = Grow(rows, Row(r, place))
    /\ size' = size + 1
    /\ UNCHANGED turn

Resolve(q, place) ==
    /\ rows[q].place \in Pending
    /\ rows' = [rows EXCEPT ![q] = Row(rows[q].run, place)]
    /\ UNCHANGED <<size, turn>>

End(r) ==
    /\ turn[r] = "open"
    /\ turn' = [turn EXCEPT ![r] = "ended"]
    /\ rows' = Move(r, {"current"}, "next")
    /\ UNCHANGED size

\* A Stop is either a recorded request or the way the turn ends.
Stop(r) ==
    /\ turn' = [turn EXCEPT ![r] = "stopped"]
    /\ LET dropped == Move(r, Pending, "dropped") IN
       \/ rows' = dropped /\ UNCHANGED size
       \/ /\ turn[r] = "open"
          /\ size < MaxItems
          /\ rows' = Grow(dropped, Row(r, "control"))
          /\ size' = size + 1

ContractNext ==
    \/ \E r \in Runs \cup {NoRun}, place \in Pending \cup {"control"} : Accept(r, place)
    \/ \E q \in 1..size, place \in {"delivered", "dropped"} : Resolve(q, place)
    \/ \E r \in Runs : End(r) \/ Stop(r)

ContractSpec == ContractInit /\ [][ContractNext]_contractVars
=============================================================================
