---------------------------- MODULE MCHostedWork ----------------------------
(***************************************************************************)
(* Small instances of the services of HostedWork: two providers and a lone *)
(* one, two jobs, a few cron schedules around awkward dates, and a batch   *)
(* of two items.                                                           *)
(***************************************************************************)
EXTENDS HostedWork

Parser == INSTANCE CronSchedule WITH Schedules <- {}, Starts <- {}

At(n, lo, hi) == Parser!_parse_part(n, n, 1, lo, hi, FALSE)
Weekdays(first, last) == Parser!_parse_part(first, last, 1, 0, 6, TRUE)
Entry(slots, doms, months, dows) ==
    [slots |-> slots, doms |-> doms, months |-> months, dows |-> dows]

\* 29 February; the 31st; every tenth day of every fourth month; Friday to Sunday; the
\* 29th of February or a Monday; every day at the last time; January.
MCSchedules ==
    LET Any == Parser!Any IN
    {Entry(At(0, 0, 1), At(29, 1, 31), At(2, 1, 12), Any),
     Entry(At(1, 0, 1), At(31, 1, 31), Any, Any),
     Entry(Any, Parser!_parse_part(1, 31, 10, 1, 31, FALSE),
           Parser!_parse_part(1, 12, 4, 1, 12, FALSE), Any),
     Entry(At(0, 0, 1), Any, Any, Weekdays(5, 7)),
     Entry(At(1, 0, 1), At(29, 1, 31), At(2, 1, 12), Weekdays(1, 1)),
     Entry(At(1, 0, 1), Any, Any, Any),
     Entry(Any, Any, At(1, 1, 12), Any)}

\* Around the ends of months, years and Februaries.
MCStarts ==
    {Parser!Date(2023, 12, 30, 6, 1), Parser!Date(2024, 2, 27, 2, 0),
     Parser!Date(2025, 2, 27, 4, 0), Parser!Date(2025, 3, 1, 6, 1),
     Parser!Date(2027, 12, 31, 5, 0)}
=============================================================================
