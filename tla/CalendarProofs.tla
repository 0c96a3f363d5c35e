---------------------------- MODULE CalendarProofs ----------------------------
(***************************************************************************)
(* The proofs about module Calendar. A date is measured by its ordinal,    *)
(* the days that have passed before it, which only the proofs use.         *)
(***************************************************************************)
EXTENDS Calendar, WellFoundedInduction, TLAPS

-----------------------------------------------------------------------------
(* Counting up: induction over a set, the predicate of which it is. *)

LEMMA LeastNatural ==
  ASSUME NEW T, T \subseteq Nat, T # {}
  PROVE  \E x \in T : \A y \in T : x <= y
<1>. DEFINE R == OpToRel(<, Nat)
<1>1. IsWellFoundedOn(R, Nat)
  BY NatLessThanWellFounded
<1>2. \A x, y \in Nat : y < x => <<y, x>> \in R
  BY DEF OpToRel
<1>. HIDE DEF R
<1>3. PICK x \in T : \A y \in T : ~(<<y, x>> \in R)
  BY <1>1, WFMin
<1>4. \A y \in T : y \in Nat /\ x \in Nat /\ ~(y < x)
  BY <1>2, <1>3
<1>. QED
  BY <1>3, <1>4

LEMMA FromZero ==
  ASSUME NEW S, 0 \in S, \A n \in Nat : n \in S => n + 1 \in S
  PROVE  \A n \in Nat : n \in S
<1>. DEFINE T == {n \in Nat : n \notin S}
<1>. SUFFICES ASSUME T # {} PROVE FALSE
  OBVIOUS
<1>1. PICK x \in T : \A y \in T : x <= y
  BY LeastNatural
<1>2. x \in Nat \ {0} /\ x - 1 \in Nat /\ x - 1 \in S /\ (x - 1) + 1 = x
  BY <1>1
<1>. QED
  BY <1>1, <1>2

-----------------------------------------------------------------------------
(* The ordinal of a date *)

YearDays(y) ==
  365 * y + ((y + 3) \div 4) - ((y + 99) \div 100) + ((y + 399) \div 400)

MonthDays(y, m) ==
  LET leap == IF Leap(y) THEN 1 ELSE 0
  IN  CASE m = 1 -> 0
        [] m = 2 -> 31
        [] m = 3 -> 59 + leap
        [] m = 4 -> 90 + leap
        [] m = 5 -> 120 + leap
        [] m = 6 -> 151 + leap
        [] m = 7 -> 181 + leap
        [] m = 8 -> 212 + leap
        [] m = 9 -> 243 + leap
        [] m = 10 -> 273 + leap
        [] m = 11 -> 304 + leap
        [] OTHER -> 334 + leap

Ordinal(d) == YearDays(d.year) + MonthDays(d.year, d.month) + d.day

LEMMA OrdinalType ==
  ASSUME NEW d, IsDate(d)
  PROVE  /\ d.year \in Nat /\ d.month \in 1..12 /\ d.day \in 1..31
         /\ YearDays(d.year) \in Nat /\ MonthDays(d.year, d.month) \in Nat
         /\ Ordinal(d) \in Nat
<1>1. d.year \in Nat /\ d.month \in 1..12 /\ d.day \in 1..31
  BY DEF IsDate, DaysIn
<1>2. YearDays(d.year) \in Nat
  BY <1>1 DEF YearDays
<1>3. MonthDays(d.year, d.month) \in Nat
  BY <1>1 DEF MonthDays
<1>. QED
  BY <1>1, <1>2, <1>3 DEF Ordinal

LEMMA NextYear ==
  ASSUME NEW y \in Nat
  PROVE  YearDays(y + 1) = YearDays(y) + (IF Leap(y) THEN 366 ELSE 365)
BY DEF YearDays, Leap

LEMMA LaterYear ==
  ASSUME NEW y \in Nat, NEW z \in Nat, y < z
  PROVE  YearDays(y) + 365 <= YearDays(z) /\ YearDays(y + 1) <= YearDays(z)
BY DEF YearDays

LEMMA NextMonth ==
  ASSUME NEW y \in Nat, NEW m \in 1..12
  PROVE  /\ DaysIn(y, m) \in 28..31
         /\ m < 12 => MonthDays(y, m + 1) = MonthDays(y, m) + DaysIn(y, m)
         /\ m = 12 => YearDays(y + 1) = YearDays(y) + MonthDays(y, m) + DaysIn(y, m)
<1>1. m \in {1, 2, 3, 4, 5, 6, 7, 8, 9, 10, 11, 12}
  OBVIOUS
<1>2. DaysIn(y, m) \in 28..31
  BY DEF DaysIn
<1>3. m < 12 => MonthDays(y, m + 1) = MonthDays(y, m) + DaysIn(y, m)
  BY <1>1 DEF MonthDays, DaysIn
<1>4. m = 12 => YearDays(y + 1) = YearDays(y) + MonthDays(y, m) + DaysIn(y, m)
  <2>1. MonthDays(y, 12) + DaysIn(y, 12) = IF Leap(y) THEN 366 ELSE 365
    BY DEF MonthDays, DaysIn
  <2>2. YearDays(y) \in Nat /\ MonthDays(y, 12) \in Nat /\ DaysIn(y, 12) \in Nat
    BY DEF YearDays, MonthDays, DaysIn
  <2>. QED
    BY <2>1, <2>2, NextYear
<1>. QED
  BY <1>2, <1>3, <1>4

LEMMA LaterMonth ==
  ASSUME NEW y \in Nat, NEW m \in 1..12, NEW n \in 1..12, m < n
  PROVE  MonthDays(y, m) + DaysIn(y, m) <= MonthDays(y, n)
<1>1. m \in {1, 2, 3, 4, 5, 6, 7, 8, 9, 10, 11, 12}
  OBVIOUS
<1>2. n \in {1, 2, 3, 4, 5, 6, 7, 8, 9, 10, 11, 12}
  OBVIOUS
<1>. QED
  BY <1>1, <1>2 DEF MonthDays, DaysIn

\* The year is over after its last month.
LEMMA WithinYear ==
  ASSUME NEW y \in Nat, NEW m \in 1..12
  PROVE  YearDays(y) + MonthDays(y, m) + DaysIn(y, m) <= YearDays(y + 1)
<1>1. m \in {1, 2, 3, 4, 5, 6, 7, 8, 9, 10, 11, 12}
  OBVIOUS
<1>2. MonthDays(y, m) + DaysIn(y, m) <= IF Leap(y) THEN 366 ELSE 365
  BY <1>1 DEF MonthDays, DaysIn
<1>. QED
  BY <1>2, NextYear DEF YearDays, MonthDays, DaysIn

LEMMA NextDayIs ==
  ASSUME NEW d, IsDate(d)
  PROVE  IsDate(NextDay(d)) /\ Ordinal(NextDay(d)) = Ordinal(d) + 1
<1>. DEFINE e == NextDay(d)
<1>1. d \in [year : Nat, month : 1..12, day : Nat] /\ d.day \in 1..DaysIn(d.year, d.month)
  BY DEF IsDate
<1>2. /\ YearDays(d.year) \in Nat /\ MonthDays(d.year, d.month) \in Nat
      /\ DaysIn(d.year, d.month) \in 28..31
  BY OrdinalType, NextMonth
<1>3. CASE d.day < DaysIn(d.year, d.month)
  <2>1. e = [d EXCEPT !.day = @ + 1]
    BY <1>3 DEF NextDay
  <2>2. e \in [year : Nat, month : 1..12, day : Nat] /\ e.year = d.year /\ e.month = d.month
        /\ e.day = d.day + 1
    BY <1>1, <2>1
  <2>. HIDE DEF e
  <2>3. IsDate(e) /\ Ordinal(e) = Ordinal(d) + 1
    BY <1>1, <1>2, <1>3, <2>2 DEF IsDate, Ordinal
  <2>. QED
    BY <2>3 DEF e
<1>4. CASE d.day = DaysIn(d.year, d.month) /\ d.month < 12
  <2>1. e = [d EXCEPT !.day = 1, !.month = @ + 1]
    BY <1>2, <1>4 DEF NextDay
  <2>2. e \in [year : Nat, month : 1..12, day : Nat] /\ e.year = d.year
        /\ e.month = d.month + 1 /\ e.day = 1
    <3>1. d.month + 1 \in 1..12 /\ e = [d EXCEPT !.day = 1, !.month = d.month + 1]
      BY <1>1, <1>4, <2>1
    <3>. HIDE DEF e
    <3>. QED
      BY <1>1, <3>1
  <2>3. DaysIn(d.year, d.month + 1) \in 28..31
        /\ MonthDays(d.year, d.month + 1) = MonthDays(d.year, d.month) + d.day
    BY <1>1, <1>4, NextMonth
  <2>. HIDE DEF e
  <2>4. IsDate(e) /\ Ordinal(e) = Ordinal(d) + 1
    BY <1>1, <1>2, <2>2, <2>3 DEF IsDate, Ordinal
  <2>. QED
    BY <2>4 DEF e
<1>5. CASE d.day = DaysIn(d.year, d.month) /\ d.month = 12
  <2>1. e = [year |-> d.year + 1, month |-> 1, day |-> 1]
    BY <1>2, <1>5 DEF NextDay
  <2>2. e \in [year : Nat, month : 1..12, day : Nat] /\ e.year = d.year + 1
        /\ e.month = 1 /\ e.day = 1
    BY <1>1, <2>1
  <2>3. YearDays(d.year + 1) = YearDays(d.year) + MonthDays(d.year, d.month) + d.day
    BY <1>1, <1>5, NextMonth
  <2>4. MonthDays(e.year, 1) = 0 /\ DaysIn(e.year, 1) = 31
    BY DEF MonthDays, DaysIn
  <2>. HIDE DEF e
  <2>5. IsDate(e) /\ Ordinal(e) = Ordinal(d) + 1
    BY <1>1, <1>2, <2>2, <2>3, <2>4 DEF IsDate, Ordinal
  <2>. QED
    BY <2>5 DEF e
<1>. QED
  BY <1>1, <1>2, <1>3, <1>4, <1>5

\* Dates are ordered as they follow each other.
LEMMA OrdinalOrders ==
  ASSUME NEW d, NEW e, IsDate(d), IsDate(e)
  PROVE  d \preceq e <=> Ordinal(d) <= Ordinal(e)
<1>1. ASSUME NEW x, NEW z, IsDate(x), IsDate(z), ~(z \preceq x)
      PROVE  Ordinal(x) < Ordinal(z)
  <2>1. /\ x.year \in Nat /\ x.month \in 1..12 /\ x.day \in 1..DaysIn(x.year, x.month)
        /\ z.year \in Nat /\ z.month \in 1..12 /\ z.day \in Nat \ {0}
        /\ YearDays(x.year) \in Nat /\ MonthDays(x.year, x.month) \in Nat
        /\ YearDays(z.year) \in Nat /\ MonthDays(z.year, z.month) \in Nat
        /\ YearDays(x.year + 1) \in Int
        /\ DaysIn(x.year, x.month) \in 28..31
    <3>1. x.year \in Nat /\ x.month \in 1..12 /\ x.day \in 1..DaysIn(x.year, x.month)
      BY <1>1 DEF IsDate
    <3>2. z.year \in Nat /\ z.month \in 1..12 /\ z.day \in Nat \ {0}
      BY <1>1, OrdinalType
    <3>3. YearDays(x.year + 1) \in Int
      BY <3>1 DEF YearDays
    <3>. QED
      BY <1>1, <3>1, <3>2, <3>3, OrdinalType, NextMonth
  <2>2. CASE x.year < z.year
    <3>1. YearDays(x.year + 1) <= YearDays(z.year)
      BY <2>1, <2>2, LaterYear
    <3>2. YearDays(x.year) + MonthDays(x.year, x.month) + DaysIn(x.year, x.month)
          <= YearDays(x.year + 1)
      BY <2>1, WithinYear
    <3>. QED
      BY <2>1, <3>1, <3>2 DEF Ordinal
  <2>3. CASE x.year = z.year /\ x.month < z.month
    BY <2>1, <2>3, LaterMonth DEF Ordinal
  <2>4. CASE x.year = z.year /\ x.month = z.month /\ x.day < z.day
    BY <2>1, <2>4 DEF Ordinal
  <2>. QED
    BY <1>1, <2>1, <2>2, <2>3, <2>4 DEF \preceq
<1>2. d \preceq e \/ e \preceq d
  BY OrdinalType DEF \preceq
<1>3. ASSUME d \preceq e, e \preceq d PROVE Ordinal(d) = Ordinal(e)
  BY <1>3, OrdinalType DEF \preceq, Ordinal
<1>4. Ordinal(d) \in Nat /\ Ordinal(e) \in Nat
  BY OrdinalType
<1>5. ~(d \preceq e) => Ordinal(e) < Ordinal(d)
  BY <1>1
<1>6. ~(e \preceq d) => Ordinal(d) < Ordinal(e)
  BY <1>1
<1>. QED
  BY <1>2, <1>3, <1>4, <1>5, <1>6

-----------------------------------------------------------------------------
(* timedelta: days are counted one by one. *)

Counted(d, n, later) ==
  later = [k \in 0..n |-> IF k = 0 THEN d ELSE NextDay(later[k - 1])]

LEMMA CountedExists ==
  ASSUME NEW d
  PROVE  \A n \in Nat : \E f : Counted(d, n, f)
<1>. DEFINE S == {n \in Nat : \E f : Counted(d, n, f)}
<1>1. 0 \in S
  <2>. DEFINE f == [k \in 0..0 |-> d]
  <2>1. Counted(d, 0, f)
    BY DEF Counted
  <2>. QED
    BY <2>1
<1>2. ASSUME NEW n \in Nat, n \in S PROVE n + 1 \in S
  <2>1. PICK f : Counted(d, n, f)
    BY <1>2
  <2>. DEFINE g == [k \in 0..(n + 1) |-> IF k = n + 1 THEN NextDay(f[n]) ELSE f[k]]
  <2>2. ASSUME NEW k \in 0..(n + 1) PROVE g[k] = IF k = 0 THEN d ELSE NextDay(g[k - 1])
    BY <2>1 DEF Counted
  <2>3. Counted(d, n + 1, g)
    BY <2>2 DEF Counted
  <2>. QED
    BY <2>3
<1>. HIDE DEF S
<1>3. \A n \in Nat : n \in S
  BY <1>1, <1>2, FromZero
<1>. QED
  BY <1>3 DEF S

LEMMA AddDaysCounts ==
  ASSUME NEW d, NEW n \in Nat
  PROVE  \E f : Counted(d, n, f) /\ AddDays(d, n) = f[n]
<1>. DEFINE f == CHOOSE later :
                   later = [k \in 0..n |-> IF k = 0 THEN d ELSE NextDay(later[k - 1])]
<1>1. \E g : g = [k \in 0..n |-> IF k = 0 THEN d ELSE NextDay(g[k - 1])]
  BY CountedExists DEF Counted
<1>2. f = [k \in 0..n |-> IF k = 0 THEN d ELSE NextDay(f[k - 1])]
  BY <1>1, Zenon
<1>3. AddDays(d, n) = f[n]
  BY Zenon DEF AddDays
<1>. QED
  BY <1>2, <1>3, Zenon DEF Counted

\* So many days later is a date, and is that much later.
LEMMA AddDaysIs ==
  ASSUME NEW d, IsDate(d), NEW n \in Nat
  PROVE  IsDate(AddDays(d, n)) /\ Ordinal(AddDays(d, n)) = Ordinal(d) + n
<1>1. PICK f : Counted(d, n, f) /\ AddDays(d, n) = f[n]
  BY AddDaysCounts
<1>. DEFINE S == {k \in Nat : k <= n => IsDate(f[k]) /\ Ordinal(f[k]) = Ordinal(d) + k}
<1>2. Ordinal(d) \in Nat
  BY OrdinalType
<1>3. 0 \in S
  BY <1>1, <1>2 DEF Counted
<1>4. ASSUME NEW k \in Nat, k \in S PROVE k + 1 \in S
  <2>. SUFFICES ASSUME k + 1 <= n
                PROVE  IsDate(f[k + 1]) /\ Ordinal(f[k + 1]) = Ordinal(d) + (k + 1)
    OBVIOUS
  <2>1. IsDate(f[k]) /\ Ordinal(f[k]) = Ordinal(d) + k
    BY <1>4
  <2>2. f[k + 1] = NextDay(f[k])
    BY <1>1 DEF Counted
  <2>. QED
    BY <1>2, <2>1, <2>2, NextDayIs
<1>. HIDE DEF S
<1>5. n \in S
  BY <1>3, <1>4, FromZero
<1>. QED
  BY <1>1, <1>5 DEF S

-----------------------------------------------------------------------------
(* _add_months *)

LEMMA MonthAfterIs ==
  ASSUME NEW d, IsDate(d), NEW n \in Nat
  PROVE  /\ MonthAfter(d, n) \in [year : Nat, month : 1..12, day : Nat]
         /\ 12 * MonthAfter(d, n).year + MonthAfter(d, n).month = 12 * d.year + d.month + n
<1>1. d.year \in Nat /\ d.month \in 1..12
  BY OrdinalType
<1>2. PICK total \in Nat : total = d.month - 1 + n
  BY <1>1
<1>3. PICK q \in Nat : q = total \div 12
  BY <1>2
<1>4. PICK r \in 0..11 : r = total % 12
  BY <1>2
<1>5. total = 12 * q + r
  BY <1>2, <1>3, <1>4
<1>6. MonthAfter(d, n) = [year |-> d.year + q, month |-> r + 1, day |-> 1]
  BY <1>2, <1>3, <1>4 DEF MonthAfter
<1>7. 12 * (d.year + q) + (r + 1) = 12 * d.year + d.month + n
  <2>1. 12 * (d.year + q) = 12 * d.year + 12 * q
    BY <1>1
  <2>2. 12 * q + r + 1 = d.month + n
    BY <1>1, <1>2, <1>5
  <2>. QED
    BY <1>1, <2>1, <2>2
<1>. QED
  BY <1>1, <1>3, <1>4, <1>6, <1>7

\* A month has so many months before it, and the day is the same or its last.
LEMMA AddMonthsIs ==
  ASSUME NEW d, IsDate(d), NEW n \in Nat, NEW e, e = AddMonths(d, n)
  PROVE  /\ IsDate(e)
         /\ 12 * e.year + e.month = 12 * d.year + d.month + n
         /\ \/ e.day = d.day /\ d.day <= DaysIn(e.year, e.month)
            \/ e.day = DaysIn(e.year, e.month) /\ d.day > DaysIn(e.year, e.month)
<1>1. PICK first : first = MonthAfter(d, n)
  OBVIOUS
<1>2. /\ first \in [year : Nat, month : 1..12, day : Nat]
      /\ 12 * first.year + first.month = 12 * d.year + d.month + n
  BY <1>1, MonthAfterIs
<1>3. PICK last : last = DaysIn(first.year, first.month)
  OBVIOUS
<1>4. last \in 28..31 /\ d.day \in 1..31
  BY <1>2, <1>3, NextMonth, OrdinalType
<1>5. e = [first EXCEPT !.day = IF d.day <= last THEN d.day ELSE last]
  BY <1>1, <1>3 DEF AddMonths
<1>6. /\ e \in [year : Nat, month : 1..12, day : Nat]
      /\ e.year = first.year /\ e.month = first.month
      /\ e.day = IF d.day <= last THEN d.day ELSE last
  BY <1>2, <1>4, <1>5
<1>. QED
  BY <1>2, <1>3, <1>4, <1>6 DEF IsDate

\* Months counted from year 0 tell which is earlier.
LEMMA MonthOrder ==
  ASSUME NEW y \in Nat, NEW z \in Nat, NEW m \in 1..12, NEW n \in 1..12
  PROVE  /\ 12 * y + m < 12 * z + n <=> (y < z \/ (y = z /\ m < n))
         /\ ~(12 * y + m < 12 * z + n) /\ ~(12 * z + n < 12 * y + m) => y = z /\ m = n
OBVIOUS

\* Who starts later is not due earlier, so many months on.
LEMMA AddMonthsKeepsOrder ==
  ASSUME NEW d, NEW e, IsDate(d), IsDate(e), d \preceq e, NEW n \in Nat
  PROVE  AddMonths(d, n) \preceq AddMonths(e, n)
<1>1. PICK f : f = AddMonths(d, n)
  OBVIOUS
<1>2. PICK g : g = AddMonths(e, n)
  OBVIOUS
<1>3. /\ d.year \in Nat /\ d.month \in 1..12 /\ d.day \in 1..31
      /\ e.year \in Nat /\ e.month \in 1..12 /\ e.day \in 1..31
  BY OrdinalType
<1>4. /\ f.year \in Nat /\ f.month \in 1..12 /\ f.day \in 1..31
      /\ g.year \in Nat /\ g.month \in 1..12 /\ g.day \in 1..31
  BY <1>1, <1>2, AddMonthsIs, OrdinalType
<1>5. /\ 12 * f.year + f.month = 12 * d.year + d.month + n
      /\ 12 * g.year + g.month = 12 * e.year + e.month + n
  BY <1>1, <1>2, AddMonthsIs
<1>6. CASE 12 * d.year + d.month < 12 * e.year + e.month
  <2>1. 12 * f.year + f.month < 12 * g.year + g.month
    BY <1>3, <1>5, <1>6
  <2>2. f.year < g.year \/ (f.year = g.year /\ f.month < g.month)
    BY <1>4, <2>1, MonthOrder
  <2>. QED
    BY <1>1, <1>2, <2>2 DEF \preceq
<1>7. CASE 12 * d.year + d.month >= 12 * e.year + e.month
  <2>1. d.year = e.year /\ d.month = e.month /\ d.day <= e.day
    BY <1>3, <1>7 DEF \preceq
  <2>2. f.year = g.year /\ f.month = g.month
    <3>1. /\ ~(12 * f.year + f.month < 12 * g.year + g.month)
          /\ ~(12 * g.year + g.month < 12 * f.year + f.month)
      BY <1>3, <1>5, <2>1
    <3>. QED
      BY <1>4, <3>1, MonthOrder
  <2>3. DaysIn(f.year, f.month) \in 28..31
    BY <1>4, NextMonth
  <2>4. f.day <= g.day
    <3>1. \/ f.day = d.day /\ d.day <= DaysIn(f.year, f.month)
          \/ f.day = DaysIn(f.year, f.month) /\ d.day > DaysIn(f.year, f.month)
      BY <1>1, AddMonthsIs
    <3>2. \/ g.day = e.day /\ e.day <= DaysIn(g.year, g.month)
          \/ g.day = DaysIn(g.year, g.month) /\ e.day > DaysIn(g.year, g.month)
      BY <1>2, AddMonthsIs
    <3>. QED
      BY <1>3, <2>1, <2>2, <2>3, <3>1, <3>2
  <2>. QED
    BY <1>1, <1>2, <2>2, <2>4 DEF \preceq
<1>. QED
  BY <1>3, <1>6, <1>7

LEMMA MonthLasts ==
  ASSUME NEW d, IsDate(d)
  PROVE  Ordinal(AddMonths(d, 1)) - Ordinal(d) \in 28..31
<1>1. PICK e : e = AddMonths(d, 1)
  OBVIOUS
<1>2. /\ IsDate(e) /\ 12 * e.year + e.month = 12 * d.year + d.month + 1
      /\ \/ e.day = d.day /\ d.day <= DaysIn(e.year, e.month)
         \/ e.day = DaysIn(e.year, e.month) /\ d.day > DaysIn(e.year, e.month)
  BY <1>1, AddMonthsIs
<1>3. /\ d.year \in Nat /\ d.month \in 1..12 /\ d.day \in 1..DaysIn(d.year, d.month)
      /\ e.year \in Nat /\ e.month \in 1..12 /\ e.day \in Nat
  BY <1>2 DEF IsDate
<1>4. /\ DaysIn(d.year, d.month) \in 28..31 /\ DaysIn(e.year, e.month) \in 28..31
      /\ YearDays(d.year) \in Nat /\ MonthDays(d.year, d.month) \in Nat
  BY <1>3, NextMonth, OrdinalType
<1>5. YearDays(e.year) + MonthDays(e.year, e.month)
        = YearDays(d.year) + MonthDays(d.year, d.month) + DaysIn(d.year, d.month)
  <2>1. CASE d.month < 12
    <3>1. e.year = d.year /\ e.month = d.month + 1
      BY <1>2, <1>3, <2>1
    <3>. QED
      BY <1>3, <1>4, <2>1, <3>1, NextMonth
  <2>2. CASE d.month = 12
    <3>1. e.year = d.year + 1 /\ e.month = 1
      BY <1>2, <1>3, <2>2
    <3>2. MonthDays(e.year, 1) = 0 /\ YearDays(e.year) \in Nat
      BY <1>2, <1>3, OrdinalType DEF MonthDays
    <3>. QED
      BY <1>3, <1>4, <2>2, <3>1, <3>2, NextMonth
  <2>. QED
    BY <1>3, <2>1, <2>2
<1>6. YearDays(e.year) \in Nat /\ MonthDays(e.year, e.month) \in Nat
  BY <1>2, OrdinalType
<1>. QED
  <2>1. Ordinal(e) - Ordinal(d) = DaysIn(d.year, d.month) + e.day - d.day
    BY <1>3, <1>4, <1>5, <1>6 DEF Ordinal
  <2>2. DaysIn(d.year, d.month) + e.day - d.day \in 28..31
    BY <1>2, <1>3, <1>4
  <2>. QED
    BY <1>1, <2>1, <2>2

LEMMA YearLasts ==
  ASSUME NEW d, IsDate(d)
  PROVE  Ordinal(AddMonths(d, 12)) - Ordinal(d) \in 365..366
<1>1. PICK e : e = AddMonths(d, 12)
  OBVIOUS
<1>2. /\ IsDate(e) /\ 12 * e.year + e.month = 12 * d.year + d.month + 12
      /\ \/ e.day = d.day /\ d.day <= DaysIn(e.year, e.month)
         \/ e.day = DaysIn(e.year, e.month) /\ d.day > DaysIn(e.year, e.month)
  BY <1>1, AddMonthsIs
<1>3. /\ d.year \in Nat /\ d.month \in 1..12 /\ d.day \in 1..DaysIn(d.year, d.month)
      /\ e.year \in Nat /\ e.month \in 1..12 /\ e.day \in Nat
      /\ YearDays(d.year) \in Nat /\ YearDays(e.year) \in Nat
  BY <1>2, OrdinalType DEF IsDate
<1>4. e.year = d.year + 1 /\ e.month = d.month
  BY <1>2, <1>3
<1>5. YearDays(e.year) = YearDays(d.year) + (IF Leap(d.year) THEN 366 ELSE 365)
  BY <1>3, <1>4, NextYear
<1>6. Leap(d.year) => ~Leap(e.year)
  BY <1>3, <1>4 DEF Leap
<1>7. d.month \in {1, 2, 3, 4, 5, 6, 7, 8, 9, 10, 11, 12}
  BY <1>3
<1>8. MonthDays(e.year, e.month) + e.day - MonthDays(d.year, d.month) - d.day
        + (IF Leap(d.year) THEN 366 ELSE 365) \in 365..366
  BY <1>2, <1>3, <1>4, <1>6, <1>7 DEF MonthDays, DaysIn
<1>9. MonthDays(e.year, e.month) \in Nat /\ MonthDays(d.year, d.month) \in Nat
  BY <1>2, OrdinalType
<1>. QED
  BY <1>1, <1>3, <1>5, <1>8, <1>9 DEF Ordinal

\* A period ends on a date, as much later as its interval says.
LEMMA PeriodLasts ==
  ASSUME NEW d, IsDate(d), NEW i \in Intervals
  PROVE  /\ IsDate(PeriodEnd(d, i))
         /\ Ordinal(PeriodEnd(d, i)) - Ordinal(d) \in Shortest[i] .. Longest[i]
<1>1. Ordinal(d) \in Nat
  BY OrdinalType
<1>2. CASE i = "day"
  <2>1. PeriodEnd(d, i) = AddDays(d, 1) /\ Shortest[i] = 1 /\ Longest[i] = 1
    BY <1>2 DEF PeriodEnd, Shortest, Longest
  <2>. QED
    BY <1>1, <2>1, AddDaysIs
<1>3. CASE i = "week"
  <2>1. PeriodEnd(d, i) = AddDays(d, 7) /\ Shortest[i] = 7 /\ Longest[i] = 7
    BY <1>3 DEF PeriodEnd, Shortest, Longest
  <2>. QED
    BY <1>1, <2>1, AddDaysIs
<1>4. CASE i = "month"
  <2>1. PeriodEnd(d, i) = AddMonths(d, 1) /\ Shortest[i] = 28 /\ Longest[i] = 31
    BY <1>4 DEF PeriodEnd, Shortest, Longest
  <2>. QED
    BY <2>1, AddMonthsIs, MonthLasts
<1>5. CASE i = "year"
  <2>1. PeriodEnd(d, i) = AddMonths(d, 12) /\ Shortest[i] = 365 /\ Longest[i] = 366
    BY <1>5 DEF PeriodEnd, Shortest, Longest
  <2>. QED
    BY <2>1, AddMonthsIs, YearLasts
<1>. QED
  BY <1>2, <1>3, <1>4, <1>5 DEF Intervals

-----------------------------------------------------------------------------
(* The inductive invariant: days are counted as they pass, and a paid      *)
(* period still ends where it was computed to end.                         *)

DaysCounted ==
  /\ start \preceq today
  /\ status # "none" => Ordinal(start) + elapsed = Ordinal(today)

PaidUntil == status = "ACTIVE" => end = PeriodEnd(start, basis)

CalendarInv == CalendarTypeOK /\ DaysCounted /\ PaidUntil

LEMMA BillKeeps ==
  ASSUME CalendarAssumption, CalendarInv, NEW e, IsDate(e), Bill(e),
         status' \in {"TRIAL", "ACTIVE"},
         status' = "ACTIVE" => e = PeriodEnd(today, interval)
  PROVE  CalendarInv'
<1>. USE DEF CalendarInv, CalendarTypeOK, Bill
<1>1. CalendarTypeOK'
  OBVIOUS
<1>2. today \preceq today /\ Ordinal(today) \in Nat
  BY OrdinalType DEF \preceq
<1>3. DaysCounted'
  BY <1>2 DEF DaysCounted
<1>4. PaidUntil'
  BY DEF PaidUntil
<1>. QED
  BY <1>1, <1>3, <1>4

LEMMA MidnightKeeps ==
  ASSUME CalendarAssumption, CalendarInv, Midnight
  PROVE  CalendarInv'
<1>. USE DEF CalendarInv, CalendarTypeOK, Midnight
<1>1. IsDate(today') /\ Ordinal(today') = Ordinal(today) + 1
  BY NextDayIs
<1>2. /\ start' = start /\ end' = end /\ basis' = basis /\ status' = status
      /\ Ordinal(start) \in Nat /\ Ordinal(today) \in Nat
  BY OrdinalType
<1>3. CalendarTypeOK'
  BY <1>1, <1>2 DEF CalendarAssumption
<1>4. DaysCounted'
  BY <1>1, <1>2, OrdinalOrders DEF DaysCounted
<1>5. PaidUntil'
  BY <1>2 DEF PaidUntil
<1>. QED
  BY <1>3, <1>4, <1>5

THEOREM CalendarInvariant ==
  ASSUME CalendarAssumption
  PROVE  CalendarSpec => []CalendarInv
<1>1. CalendarInit => CalendarInv
  <2>. SUFFICES ASSUME CalendarInit PROVE CalendarInv
    OBVIOUS
  <2>. USE DEF CalendarInit, CalendarAssumption
  <2>1. CalendarTypeOK
    BY DEF CalendarTypeOK
  <2>2. FirstDay \preceq FirstDay
    BY OrdinalType DEF \preceq
  <2>. QED
    BY <2>1, <2>2 DEF CalendarInv, DaysCounted, PaidUntil
<1>2. CalendarInv /\ [CalendarNext]_calendarVars => CalendarInv'
  <2>. SUFFICES ASSUME CalendarInv, [CalendarNext]_calendarVars PROVE CalendarInv'
    OBVIOUS
  <2>1. IsDate(today) /\ interval \in Intervals
    BY DEF CalendarInv, CalendarTypeOK
  <2>2. IsDate(PeriodEnd(today, interval)) /\ IsDate(AddDays(today, TrialDays))
    BY <2>1, PeriodLasts, AddDaysIs DEF CalendarAssumption
  <2>3. CASE Midnight
    BY <2>3, MidnightKeeps
  <2>4. CASE Subscribe
    BY <2>2, <2>4, BillKeeps DEF Subscribe
  <2>5. CASE Activate
    BY <2>2, <2>5, BillKeeps DEF Activate
  <2>6. CASE Renew
    BY <2>2, <2>6, BillKeeps DEF Renew
  <2>7. CASE \E i \in Intervals : EditPlan(i)
    BY <2>7 DEF EditPlan, CalendarInv, CalendarTypeOK, DaysCounted, PaidUntil
  <2>8. CASE UNCHANGED calendarVars
    BY <2>8 DEF calendarVars, CalendarInv, CalendarTypeOK, DaysCounted, PaidUntil
  <2>. QED
    BY <2>3, <2>4, <2>5, <2>6, <2>7, <2>8 DEF CalendarNext
<1>. QED
  BY <1>1, <1>2, PTL DEF CalendarSpec

\* A paid period is due neither before the shortest of its kind could end nor after
\* the longest, and who starts later is due no earlier.
THEOREM CalendarSafeHolds ==
  ASSUME CalendarAssumption
  PROVE  CalendarSpec => []CalendarSafe
<1>1. ASSUME CalendarInv PROVE CalendarSafe
  <2>. USE <1>1 DEF CalendarInv
  <2>1. IsDate(today) /\ IsDate(start) /\ IsDate(end) /\ basis \in Intervals /\ elapsed \in Int
    BY DEF CalendarTypeOK
  <2>2. ASSUME status = "ACTIVE"
        PROVE  /\ end \preceq today => elapsed >= Shortest[basis]
               /\ elapsed >= Longest[basis] => end \preceq today
    <3>1. Ordinal(end) - Ordinal(start) \in Shortest[basis] .. Longest[basis]
      BY <2>1, <2>2, PeriodLasts DEF PaidUntil
    <3>2. Ordinal(start) + elapsed = Ordinal(today)
      BY <2>2 DEF DaysCounted
    <3>3. end \preceq today <=> Ordinal(end) <= Ordinal(today)
      BY <2>1, OrdinalOrders
    <3>4. /\ Ordinal(start) \in Nat /\ Ordinal(end) \in Nat /\ Ordinal(today) \in Nat
          /\ Shortest[basis] \in Nat /\ Longest[basis] \in Nat
      BY <2>1, OrdinalType DEF Intervals, Shortest, Longest
    <3>. QED
      BY <2>1, <3>1, <3>2, <3>3, <3>4
  <2>3. LaterEndsNoEarlier
    BY <2>1, AddMonthsKeepsOrder DEF DaysCounted, LaterEndsNoEarlier
  <2>. QED
    BY <2>2, <2>3 DEF CalendarSafe, DueInTime
<1>. QED
  BY <1>1, CalendarInvariant, PTL

\* No day is billed twice.
THEOREM PeriodsFollowHolds ==
  ASSUME CalendarAssumption
  PROVE  CalendarSpec => PeriodsFollow
<1>1. [CalendarNext]_calendarVars =>
        [status = "ACTIVE" /\ (start' # start \/ end' # end) => end \preceq start']_calendarVars
  <2>. SUFFICES ASSUME CalendarNext, status = "ACTIVE", start' # start \/ end' # end
                PROVE  end \preceq start'
    BY DEF calendarVars
  <2>1. Renew
    BY DEF CalendarNext, Midnight, Subscribe, Activate, EditPlan
  <2>. QED
    BY <2>1 DEF Renew, Bill
<1>. QED
  BY <1>1, PTL DEF CalendarSpec, PeriodsFollow
=============================================================================
