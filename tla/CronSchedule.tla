---------------------------- MODULE CronSchedule ----------------------------
(***************************************************************************)
(* Cron fields and the search for the next match (scheduler/schedule.py).  *)
(* The parser of one part of a field is a function of its numbers; the     *)
(* search is the code's loop, one candidate a step.  The time of day is    *)
(* kept as a few slots (the code scans minutes), the calendar is real.     *)
(***************************************************************************)
EXTENDS Integers, FiniteSets

CONSTANTS
    Slots,       \* times of day, 0..Slots-1
    Horizon,     \* _CRON_SCAN_MINUTES, in days
    Schedules,   \* the parsed schedules that are searched
    Starts       \* the dates the search starts after

VARIABLES
    schedule,   \* the schedule that is searched
    start,      \* next_after's argument
    candidate,  \* the moment under test
    scanned,    \* candidates tested so far
    found       \* "searching", "match" or "error" (ScheduleError)

vars == <<schedule, start, candidate, scanned, found>>

Any == {-1}           \* a field that is None
ScheduleError == {-2}

(***************************************************************************)
(* The calendar (datetime).                                                *)
(***************************************************************************)
Leap(y) == (y % 4 = 0 /\ y % 100 # 0) \/ y % 400 = 0
DaysIn(y, m) == CASE m = 2 -> IF Leap(y) THEN 29 ELSE 28
                  [] m \in {4, 6, 9, 11} -> 30
                  [] OTHER -> 31

Date(y, m, d, w, s) == [year |-> y, month |-> m, day |-> d, dow |-> w, slot |-> s]

NextSlot(t) ==
    IF t.slot + 1 < Slots THEN [t EXCEPT !.slot = @ + 1]
    ELSE LET w == (t.dow + 1) % 7 IN
         IF t.day < DaysIn(t.year, t.month) THEN Date(t.year, t.month, t.day + 1, w, 0)
         ELSE IF t.month < 12 THEN Date(t.year, t.month + 1, 1, w, 0)
         ELSE Date(t.year + 1, 1, 1, w, 0)

(***************************************************************************)
(* Parsing: a part is "*", a number or a range, with a step.               *)
(***************************************************************************)
\* Seven is Sunday too.
_normalize(v, dow) == IF dow /\ v = 7 THEN 0 ELSE v

\* A range that runs backwards is accepted and names nothing.
_parse_part(first, last, step, lo, hi, dow) ==
    LET values == {_normalize(v, dow) : v \in {n \in first..last : (n - first) % step = 0}}
    IN IF values \subseteq lo..hi THEN values ELSE ScheduleError

(***************************************************************************)
(* Matching and the search.                                                *)
(***************************************************************************)
In(v, field) == field = Any \/ v \in field

\* Mutant: both day fields have to match.
DayMatchesBoth(sch, t) == In(t.day, sch.doms) /\ In(t.dow, sch.dows)

\* Two restricted day fields are alternatives, otherwise both apply.
_day_matches(sch, t) ==
    IF sch.doms # Any /\ sch.dows # Any
    THEN In(t.day, sch.doms) \/ In(t.dow, sch.dows)
    ELSE In(t.day, sch.doms) /\ In(t.dow, sch.dows)

_matches(sch, t) ==
    In(t.slot, sch.slots) /\ In(t.month, sch.months) /\ _day_matches(sch, t)

FirstCandidate(t) == NextSlot(t)

Init ==
    /\ schedule \in Schedules
    /\ start \in Starts
    /\ candidate = FirstCandidate(start)
    /\ scanned = 0
    /\ found = "searching"

\* One turn of next_after's loop.
next_after ==
    /\ found = "searching"
    /\ scanned < Horizon * Slots
    /\ IF _matches(schedule, candidate)
       THEN found' = "match" /\ UNCHANGED <<candidate, scanned>>
       ELSE candidate' = NextSlot(candidate) /\ scanned' = scanned + 1 /\ UNCHANGED found
    /\ UNCHANGED <<schedule, start>>

\* The loop is exhausted: "no cron match within horizon".
NoMatch ==
    /\ found = "searching"
    /\ scanned = Horizon * Slots
    /\ found' = "error"
    /\ UNCHANGED <<schedule, start, candidate, scanned>>

Next == next_after \/ NoMatch

Spec == Init /\ [][Next]_vars

-----------------------------------------------------------------------------
\* A calendar day, counted from the first of January of the year 1: a reference for the
\* calendar that does not step from day to day.
Ordinal(t) ==
    LET y == t.year - 1
        before == <<0, 31, 59, 90, 120, 151, 181, 212, 243, 273, 304, 334>>
    IN 365 * y + (y \div 4) - (y \div 100) + (y \div 400) + before[t.month] + t.day
       + (IF t.month > 2 /\ Leap(t.year) THEN 1 ELSE 0)

\* A moment of the calendar: a day there is, with its weekday, and a time of day.
IsMoment(t) ==
    /\ t \in [year : Nat \ {0}, month : 1..12, day : 1..31, dow : 0..6, slot : 0..(Slots - 1)]
    /\ t.day <= DaysIn(t.year, t.month)
    /\ t.dow = Ordinal(t) % 7

\* What the constants have to be: the search starts from moments.
CronAssumption ==
    /\ Slots \in Nat \ {0} /\ Horizon \in Nat
    /\ \A t \in Starts : IsMoment(t)

\* A day of the reference calendar that the schedule names, by the rule crontab(5) gives.
Named(sch, t) ==
    /\ sch.slots = Any \/ t.slot \in sch.slots
    /\ sch.months = Any \/ t.month \in sch.months
    /\ \/ sch.doms = Any /\ sch.dows = Any
       \/ sch.doms # Any /\ t.day \in sch.doms
       \/ sch.dows # Any /\ (Ordinal(t) % 7) \in sch.dows

\* What next_after returns is a moment the schedule names and lies strictly after its
\* argument; no moment it passed over is one.
FindsTheNext ==
    /\ found = "match" =>
          /\ Named(schedule, candidate)
          /\ Ordinal(candidate) * Slots + candidate.slot > Ordinal(start) * Slots + start.slot
    /\ found = "searching" /\ ~_matches(schedule, candidate) => ~Named(schedule, candidate)

\* "A valid 5-field cron always fires within ~a year".
AlwaysFires == found # "error"
=============================================================================
