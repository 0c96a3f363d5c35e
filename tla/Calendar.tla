------------------------------ MODULE Calendar ------------------------------
(***************************************************************************)
(* The dates of a subscription, which module Billing leaves out: when a    *)
(* period starts and ends, in the calendar of calendar.monthrange, day by  *)
(* day. A period starts when it is billed, not when the last one ended;    *)
(* the plan's interval may be edited meanwhile, and counts from the next   *)
(* period on.                                                              *)
(***************************************************************************)
EXTENDS Integers

CONSTANTS
  FirstDay,   \* the date on which the run starts
  TrialDays,  \* trial_period_days
  MaxDays     \* bound: how long it goes on

Intervals == {"day", "week", "month", "year"}

Leap(year) == year % 4 = 0 /\ (year % 100 # 0 \/ year % 400 = 0)

\* calendar.monthrange
DaysIn(year, month) ==
  CASE month = 2 -> IF Leap(year) THEN 29 ELSE 28
    [] month \in {4, 6, 9, 11} -> 30
    [] OTHER -> 31

IsDate(d) ==
  /\ d \in [year : Nat, month : 1..12, day : Nat]
  /\ d.day \in 1..DaysIn(d.year, d.month)

ASSUME CalendarAssumption ==
  IsDate(FirstDay) /\ TrialDays \in Nat /\ MaxDays \in Nat

NextDay(d) ==
  IF d.day < DaysIn(d.year, d.month)
  THEN [d EXCEPT !.day = @ + 1]
  ELSE IF d.month < 12
  THEN [d EXCEPT !.day = 1, !.month = @ + 1]
  ELSE [year |-> d.year + 1, month |-> 1, day |-> 1]

\* timedelta
AddDays(d, n) ==
  LET later[k \in 0..n] == IF k = 0 THEN d ELSE NextDay(later[k - 1])
  IN  later[n]

d \preceq e ==
  \/ d.year < e.year
  \/ d.year = e.year /\ d.month < e.month
  \/ d.year = e.year /\ d.month = e.month /\ d.day <= e.day

-----------------------------------------------------------------------------
(* _add_months *)

\* The first of the month that comes so many months later.
MonthAfter(d, months) ==
  LET total == d.month - 1 + months
  IN  [year |-> d.year + total \div 12, month |-> (total % 12) + 1, day |-> 1]

\* Bug: days that the month lacks run on into the next one.
RunOn(d, months) == AddDays(MonthAfter(d, months), d.day - 1)

AddMonths(d, months) ==
  LET first == MonthAfter(d, months)
      last == DaysIn(first.year, first.month)
  IN  [first EXCEPT !.day = IF d.day <= last THEN d.day ELSE last]

\* _compute_period_end
PeriodEnd(start, interval) ==
  CASE interval = "day" -> AddDays(start, 1)
    [] interval = "week" -> AddDays(start, 7)
    [] interval = "month" -> AddMonths(start, 1)
    [] interval = "year" -> AddMonths(start, 12)

-----------------------------------------------------------------------------
VARIABLES
  today,
  interval,  \* the plan's
  status,    \* the subscription's: "none", "TRIAL" or "ACTIVE"
  start,     \* current_period_start
  end,       \* current_period_end
  basis,     \* history: the interval from which end was computed
  elapsed,   \* history: days since start, counted one by one
  days       \* days so far

calendarVars == <<today, interval, status, start, end, basis, elapsed, days>>

CalendarTypeOK ==
  /\ IsDate(today) /\ IsDate(start) /\ IsDate(end)
  /\ {interval, basis} \subseteq Intervals
  /\ status \in {"none", "TRIAL", "ACTIVE"}
  /\ elapsed \in 0..days /\ days \in 0..MaxDays

CalendarInit ==
  /\ today = FirstDay /\ start = FirstDay /\ end = FirstDay
  /\ interval \in Intervals /\ basis = interval
  /\ status = "none"
  /\ elapsed = 0 /\ days = 0

Midnight ==
  /\ days < MaxDays /\ days' = days + 1
  /\ today' = NextDay(today)
  /\ elapsed' = IF status = "none" THEN 0 ELSE elapsed + 1
  /\ UNCHANGED <<interval, status, start, end, basis>>

EditPlan(i) ==
  /\ i # interval /\ interval' = i
  /\ UNCHANGED <<today, status, start, end, basis, elapsed, days>>

\* The period begins today and lasts until e.
Bill(e) ==
  /\ start' = today /\ end' = e
  /\ basis' = interval /\ elapsed' = 0
  /\ UNCHANGED <<today, interval, days>>

Subscribe ==
  /\ status = "none"
  /\ \/ status' = "TRIAL" /\ Bill(AddDays(today, TrialDays))
     \/ status' = "ACTIVE" /\ Bill(PeriodEnd(today, interval))

\* A trial may be ended early.
Activate ==
  /\ status = "TRIAL" /\ status' = "ACTIVE"
  /\ Bill(PeriodEnd(today, interval))

\* Bug: no check that the period has ended.
RenewAnyTime ==
  /\ status = "ACTIVE"
  /\ Bill(PeriodEnd(today, interval)) /\ UNCHANGED status

\* is_due_for_renewal: never early, and possibly late.
Renew ==
  /\ status = "ACTIVE" /\ end \preceq today
  /\ Bill(PeriodEnd(today, interval)) /\ UNCHANGED status

CalendarNext ==
  \/ Midnight \/ Subscribe \/ Activate \/ Renew
  \/ \E i \in Intervals : EditPlan(i)

CalendarSpec == CalendarInit /\ [][CalendarNext]_calendarVars

-----------------------------------------------------------------------------
\* The shortest and the longest that a period may last
Shortest == [day |-> 1, week |-> 7, month |-> 28, year |-> 365]
Longest == [day |-> 1, week |-> 7, month |-> 31, year |-> 366]

\* Counted day by day, a period that was paid for is due neither before it has
\* lasted as long as the shortest of its kind nor after the longest, across the
\* ends of months and years and through 29 February.
DueInTime ==
  status = "ACTIVE" =>
    /\ end \preceq today => elapsed >= Shortest[basis]
    /\ elapsed >= Longest[basis] => end \preceq today

\* Who starts a month or a year later is never due earlier, though the 29th to
\* the 31st may all fall on one day.
LaterEndsNoEarlier ==
  \A months \in {1, 12} : AddMonths(start, months) \preceq AddMonths(today, months)

\* Periods end when they should, and in the order in which they began.
CalendarSafe == CalendarTypeOK /\ DueInTime /\ LaterEndsNoEarlier

\* No day is billed twice: what starts after a paid period starts when that one
\* has ended, whatever happened to the plan in between.
PeriodsFollow ==
  [][status = "ACTIVE" /\ (start' # start \/ end' # end) => end \preceq start']_calendarVars

=============================================================================
