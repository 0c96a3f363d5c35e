------------------------------- MODULE MCTimes -------------------------------
(***************************************************************************)
(* Small instances for TLC of the parts that are about time: rate limits,  *)
(* dates, and the clocks of different hosts. They share no state, so each  *)
(* behaviour follows one of them, and the others stay as they began.       *)
(***************************************************************************)
EXTENDS Throttle, Calendar, Clocks, TLC

CONSTANTS acme, k1, k2, r1, r2, r4, ip

VARIABLE part  \* the part that a behaviour follows

\* One project with two keys; one request resolves to no project.
MCProjectOf == r4 :> NoProject @@ [r \in Calls |-> acme]
MCCallerOf == r1 :> k1 @@ r2 :> k1 @@ [r \in Calls |-> k2]
MCIpOf == [r \in Calls |-> ip]

\* 14 months with a 29 February, a 28 February and two ends of the year
BeforeLeapYear == [year |-> 2027, month |-> 12, day |-> 28]

TimesInit ==
  /\ part \in {"throttle", "calendar", "clocks"}
  /\ ThrottleInit /\ CalendarInit /\ ClocksInit
  /\ part = "calendar" \/ interval = "day"
  /\ part = "clocks" \/ \A h \in Hosts : offset[h] = 0

TimesNext ==
  /\ \/ part = "throttle" /\ ThrottleNext /\ UNCHANGED <<calendarVars, clocksVars>>
     \/ part = "calendar" /\ CalendarNext /\ UNCHANGED <<throttleVars, clocksVars>>
     \/ part = "clocks" /\ ClocksNext /\ UNCHANGED <<throttleVars, calendarVars>>
  /\ UNCHANGED part

TimesSpec ==
  TimesInit /\ [][TimesNext]_<<part, throttleVars, calendarVars, clocksVars>>

=============================================================================
