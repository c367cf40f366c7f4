------------------------------ MODULE LocalDate ------------------------------
(***************************************************************************)
(* js-lib/src/datetime/localDate.ts: LocalDate, a date that is moved by      *)
(* days, weeks, months or years, compared, subtracted and enumerated.        *)
(* The module walks: date is the outcome of the last plus, of num units,     *)
(* to the date before.                                                       *)
(***************************************************************************)
EXTENDS Integers, Sequences

CONSTANTS Years, \* the years the walk is bounded to
          Moves  \* the <<num, unit>> it takes

Unit == {"day", "week", "month", "year"}

ASSUME LocalDateAssumption ==
  /\ Years \subseteq Nat \ {0} /\ Years # {}
  /\ Moves \subseteq Int \X Unit

VARIABLES date, before, num, unit

dateVars == <<date, before, num, unit>>

-----------------------------------------------------------------------------
MDAYS == <<31, 28, 31, 30, 31, 30, 31, 31, 30, 31, 30, 31>>

\* Mutant: the Julian calendar.
IsLeapYear_Julian(y) == y % 4 = 0
IsLeapYear(y) == y % 4 = 0 /\ (y % 100 # 0 \/ y % 400 = 0)

GetYearLength(y) == IF IsLeapYear(y) THEN 366 ELSE 365
GetMonthLength(y, m) == IF m = 2 THEN IF IsLeapYear(y) THEN 29 ELSE 28 ELSE MDAYS[m]

Date(y, m, d) == [year |-> y, month |-> m, day |-> d]

IsDateObjectValid(o) == /\ o.year # 0
                        /\ o.month \in 1..12
                        /\ o.day \in 1..GetMonthLength(o.year, o.month)

Sign(n) == IF n < 0 THEN -1 ELSE IF n > 0 THEN 1 ELSE 0

Compare(a, b) ==
  IF a.year # b.year THEN Sign(a.year - b.year)
  ELSE IF a.month # b.month THEN Sign(a.month - b.month)
  ELSE Sign(a.day - b.day)

IsBefore(a, b, inclusive) == Compare(a, b) = -1 \/ (Compare(a, b) = 0 /\ inclusive)

-----------------------------------------------------------------------------
(* plus                                                                      *)

\* The loops over months below 1 or above 12: the month, and its year.
MonthOf(y, m) == <<y + (m - 1) \div 12, ((m - 1) % 12) + 1>>

\* The loops over the months of the days below 1 or beyond the end of a month.
Carried[x \in Int \X (1..12) \X Int] ==
  LET y == x[1] m == x[2] d == x[3]
      last == MonthOf(y, m - 1)
      next == MonthOf(y, m + 1) IN
  IF d < 1 THEN Carried[<<last[1], last[2], d + GetMonthLength(last[1], last[2])>>]
  ELSE IF d > GetMonthLength(y, m) THEN Carried[<<next[1], next[2], d - GetMonthLength(y, m)>>]
  ELSE Date(y, m, d)

\* Mutant: the day is not cut at the end of the month.
Clipped_Carried(y, m, d) == Carried[<<y, m, d>>]
\* May 31st plus a month is June 30th.
Clipped(y, m, d) == Date(y, m, IF d > GetMonthLength(y, m) THEN GetMonthLength(y, m) ELSE d)

PlusMonths(a, n) == LET ym == MonthOf(a.year, a.month + n) IN Clipped(ym[1], ym[2], a.day)
PlusYears(a, n) == Clipped(a.year + n, a.month, a.day)

Plus(a, n, u) == CASE u = "day"   -> Carried[<<a.year, a.month, a.day + n>>]
                   [] u = "week"  -> Carried[<<a.year, a.month, a.day + 7 * n>>]
                   [] u = "month" -> PlusMonths(a, n)
                   [] u = "year"  -> PlusYears(a, n)

-----------------------------------------------------------------------------
(* diff: of the later date, big, and the earlier one                         *)

IsLastOfMonth(a) == a.day = GetMonthLength(a.year, a.month)

YearsBetween(big, small) ==
  big.year - small.year -
    IF \/ big.month < small.month
       \/ /\ big.month = small.month
          /\ big.day < small.day
          /\ ~(IsLastOfMonth(big) /\ IsLastOfMonth(small))
    THEN 1 ELSE 0

MonthsBetween(big, small) ==
  (big.year - small.year) * 12 + (big.month - small.month) -
    IF /\ big.day < small.day
       /\ ~IsLastOfMonth(big) \/ small.day < GetMonthLength(big.year, big.month)
    THEN 1 ELSE 0

\* Days of the months from m up to n of year y, and of the years from y up to z.
DaysOfMonths(y, m, n) ==
  LET upTo[k \in m..n] == IF k = m THEN 0 ELSE upTo[k - 1] + GetMonthLength(y, k - 1) IN upTo[n]

DaysOfYears(y, z) ==
  LET upTo[k \in y..z] == IF k = y THEN 0 ELSE upTo[k - 1] + GetYearLength(k - 1) IN upTo[z]

\* A year from March on has the length of the next.
DaysBetween(big, small) ==
  LET offsetYear == IF small.month >= 3 THEN 1 ELSE 0 IN
  big.day - small.day
    + DaysOfYears(small.year + offsetYear, big.year + offsetYear)
    + IF small.month < big.month THEN DaysOfMonths(big.year, small.month, big.month)
                                 ELSE -DaysOfMonths(big.year, big.month, small.month)

Diff(a, b, u) ==
  LET sign == Compare(a, b)
      big == IF sign = 1 THEN a ELSE b
      small == IF sign = 1 THEN b ELSE a IN
  sign * CASE u = "day"   -> DaysBetween(big, small)
           [] u = "week"  -> DaysBetween(big, small) \div 7
           [] u = "month" -> MonthsBetween(big, small)
           [] u = "year"  -> YearsBetween(big, small)

-----------------------------------------------------------------------------
(* range                                                                     *)

StartOf(a, u) == CASE u = "day" -> a
                   [] u = "month" -> Date(a.year, a.month, 1)
                   [] u = "year" -> Date(a.year, 1, 1)

\* The dates between a and b: from a on, or from a unit after it, in steps of n.
RangeOf(a, b, fromIncl, toIncl, n, u) ==
  LET max == StartOf(b, u)
      first == IF fromIncl THEN StartOf(a, u) ELSE Plus(StartOf(a, u), 1, u)
      From[value \in [year : Int, month : 1..12, day : IF u = "day" THEN 1..31 ELSE {1}]] ==
        IF IsBefore(value, max, toIncl) THEN <<value>> \o From[Plus(value, n, u)] ELSE <<>> IN
  From[first]

-----------------------------------------------------------------------------
(* The walk                                                                  *)

Dates == {o \in [year : Years, month : 1..12, day : 1..31] : IsDateObjectValid(o)}

LocalDateInit ==
  /\ date \in Dates
  /\ before = date
  /\ num = 0
  /\ unit = "day"

Move ==
  \E m \in Moves :
    LET to == Plus(date, m[1], m[2]) IN
    /\ to.year \in Years
    /\ date' = to
    /\ before' = date
    /\ num' = m[1]
    /\ unit' = m[2]

LocalDateSpec == LocalDateInit /\ [][Move]_dateVars

-----------------------------------------------------------------------------
(* The reference: the proleptic Gregorian calendar, by the numbers of days.  *)
\* Days before a year, and before a month in it.
YearStart(y) == 365 * (y - 1) + (y - 1) \div 4 - (y - 1) \div 100 + (y - 1) \div 400
MonthStart(y, m) == YearStart(y) + <<0, 31, 59, 90, 120, 151, 181, 212, 243, 273, 304, 334>>[m]
                      + IF m > 2 THEN YearStart(y + 1) - YearStart(y) - 365 ELSE 0
DayNumber(a) == MonthStart(a.year, a.month) + a.day

(* plus in days or weeks moves by that many days of the calendar, across    *)
(* any months, years and leap days, to a date that exists, as plus in       *)
(* months and years does (localDate.ts:329-398).                            *)
PlusIsByCalendar ==
  /\ IsDateObjectValid(date)
  /\ unit = "day"  => DayNumber(date) = DayNumber(before) + num
  /\ unit = "week" => DayNumber(date) = DayNumber(before) + 7 * num

\* n is the number of full units from earlier to later.
FullUnits(earlier, later, n, u) ==
  LET days == DayNumber(later) - DayNumber(earlier) IN
  CASE u = "day"  -> n = days
    [] u = "week" -> 7 * n <= days /\ days < 7 * (n + 1)
    [] OTHER      -> /\ n >= 0
                     /\ Compare(Plus(earlier, n, u), later) <= 0
                     /\ Compare(Plus(earlier, n + 1, u), later) = 1

(* diff is the number of full units: of days by the calendar; of months and *)
(* years, adding that many to the earlier date does not go beyond the later *)
(* one, and adding one more does, also where a shorter month or a leap day  *)
(* cuts the day.  It is antisymmetric, and range has as many elements as    *)
(* diff counts (localDate.ts:228-295, 779-829).                             *)
DiffCountsFullUnits ==
  LET later == IF Compare(date, before) = 1 THEN date ELSE before
      earlier == IF later = date THEN before ELSE date IN
  \A u \in Unit :
    LET n == Diff(later, earlier, u) IN
    /\ FullUnits(earlier, later, n, u)
    /\ Diff(earlier, later, u) = -n
    /\ u \in {"month", "year"} /\ n <= 100 =>
         Len(RangeOf(earlier, later, TRUE, FALSE, 1, u)) =
           Diff(StartOf(later, u), StartOf(earlier, u), u)
=============================================================================
