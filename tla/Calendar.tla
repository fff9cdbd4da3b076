------------------------------ MODULE Calendar ------------------------------
(***************************************************************************)
(* Dates as alarm_api.c and virtual_rtc.c compute with them, and what they *)
(* are meant to compute.  A date is a record of year, month and day; the   *)
(* numbers 1 to 7 are Monday to Sunday, as in the modes of an alarm.       *)
(***************************************************************************)
EXTENDS Integers, FiniteSetsExt

Date == [year: Nat, month: 1..12, day: 1..31]

Leap(y) == y % 4 = 0 /\ (y % 100 # 0 \/ y % 400 = 0)

\* month_to_day, behind month_for_day, is in a closed library.
MonthDays(m, y) == CASE m = 2 -> IF Leap(y) THEN 29 ELSE 28
                     [] m \in {4, 6, 9, 11} -> 30
                     [] OTHER -> 31

NextMonth(d) ==
  IF d.month = 12 THEN [year |-> d.year + 1, month |-> 1, day |-> d.day]
  ELSE [year |-> d.year, month |-> d.month + 1, day |-> d.day]

\* rtc_calculate_next_few_day, which refuses more days than the shortest
\* month has.
NextFewDay(d, n) ==
  IF n = 0 \/ n >= 29 THEN d
  ELSE IF d.day + n > MonthDays(d.month, d.year)
       THEN [NextMonth(d) EXCEPT !.day = d.day + n - MonthDays(d.month, d.year)]
       ELSE [d EXCEPT !.day = d.day + n]

\* The midnight of set_virtual_rtc_tick, after which 2099 comes 2000.
Tomorrow(d) ==
  IF d.day < MonthDays(d.month, d.year) THEN [d EXCEPT !.day = @ + 1]
  ELSE IF d.month < 12 THEN [year |-> d.year, month |-> d.month + 1, day |-> 1]
       ELSE [year |-> IF d.year < 2099 THEN d.year + 1 ELSE 2000, month |-> 1, day |-> 1]

\* rtc_calculate_week_val, 0 being Sunday: Zeller's congruence.  val is u32,
\* so that a sum below 0 is one below 2^32, which is 4 modulo 7.
WeekVal(d) ==
  LET early == d.month < 3
      m == IF early THEN d.month + 12 ELSE d.month
      y == IF early THEN d.year - 1 ELSE d.year
      val == (y % 100) + (y % 100) \div 4 + (y \div 100) \div 4
               + (26 * (m + 1)) \div 10 + d.day - 2 * (y \div 100) - 1
  IN IF val >= 0 THEN val % 7 ELSE (val + 4) % 7

Weekday(d) == IF WeekVal(d) = 0 THEN 7 ELSE WeekVal(d)

DateBefore(a, b) ==
  \/ a.year < b.year
  \/ a.year = b.year /\ a.month < b.month
  \/ a.year = b.year /\ a.month = b.month /\ a.day < b.day

-----------------------------------------------------------------------------
(***************************************************************************)
(* The reference: days are counted, from Saturday, the 1st of January      *)
(* 2000; the clock knows the years to 2099.                                *)
(***************************************************************************)

FirstOfYear[y \in 2000 .. 2099] ==
  IF y = 2000 THEN 0 ELSE FirstOfYear[y - 1] + (IF Leap(y - 1) THEN 366 ELSE 365)

\* The days of a common year before a month.
BeforeMonth == <<0, 31, 59, 90, 120, 151, 181, 212, 243, 273, 304, 334>>

DayOfYear(d) == BeforeMonth[d.month] + d.day + (IF d.month > 2 /\ Leap(d.year) THEN 1 ELSE 0)

DayNumber(d) == FirstOfYear[d.year] + DayOfYear(d) - 1

TrueWeekday(d) == ((DayNumber(d) + 5) % 7) + 1
=============================================================================
