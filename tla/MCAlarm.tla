------------------------------ MODULE MCAlarm ------------------------------
(***************************************************************************)
(* Values for checking Alarm: days of two minutes of two seconds, over a   *)
(* year's end that is a Saturday.                                          *)
(***************************************************************************)
EXTENDS Alarm

Day(y, m, d) == [year |-> y, month |-> m, day |-> d]

\* set_rtc_default_time, with 18:18:18 on the small day.
MCDefault == [date |-> Day(2019, 5, 5), min |-> 1, sec |-> 1]

\* Once; on Mondays and Saturdays.
MCModes == {{}, {1, 6}}
MCSettable == {[date |-> Day(2022, 12, 31), min |-> 0, sec |-> 1]}
MCDays == {MCDefault.date, Day(2022, 12, 31), Day(2023, 1, 1), Day(2023, 1, 2)}

\* From March 2019 to 2050 rtc_calculate_week_val and
\* rtc_calculate_next_few_day are right; before, the unsigned sum of
\* Zeller's congruence can fall below 0 and the day of the week is wrong.
ASSUME CalendarIsRight ==
  \A y \in 2019 .. 2050 : \A m \in (IF y = 2019 THEN 3 ELSE 1) .. 12 :
    \A d \in 1 .. MonthDays(m, y) :
      LET day == Day(y, m, d) IN
      /\ (y = 2019 /\ m = 3 /\ d < 3) \/ Weekday(day) = TrueWeekday(day)
      /\ \A n \in 0 .. 7 : DayNumber(NextFewDay(day, n)) = DayNumber(day) + n
      /\ Tomorrow(day) = NextFewDay(day, 1)
=============================================================================
