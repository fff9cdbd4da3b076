---------------------------- MODULE AppCoreProofs ----------------------------
(***************************************************************************)
(* What is proved of the two machines that run in the task app_core: of    *)
(* Alarm for any number of alarms, any days and any times, with the clock  *)
(* prompt or not; and of ModeSwitch for any number of keys, alarms, calls  *)
(* and links.                                                              *)
(***************************************************************************)
EXTENDS Alarm, ModeSwitch, NaturalsInduction, WellFoundedInduction, TLAPS

-----------------------------------------------------------------------------
(***************************************************************************)
(* Dates                                                                   *)
(***************************************************************************)

LEMMA LeastNatural ==
  ASSUME NEW S \in SUBSET Nat, S # {}
  PROVE  \E n \in S : \A k \in S : n <= k
<1>1. PICK n \in S : \A k \in S : <<k, n>> \notin OpToRel(<, Nat)
  BY NatLessThanWellFounded, WFMin
<1>2. \A k \in S : ~(k < n)
  BY <1>1 DEF OpToRel
<1> QED BY <1>2

LEMMA MonthDaysType ==
  ASSUME NEW m, NEW y PROVE MonthDays(m, y) \in 28 .. 31
  BY DEF MonthDays

LEMMA NextFewDayType ==
  ASSUME NEW d \in Date, NEW n \in Nat PROVE NextFewDay(d, n) \in Date
<1>1. MonthDays(d.month, d.year) \in 28 .. 31
  BY MonthDaysType
<1>2. d.year \in Nat /\ d.month \in 1..12 /\ d.day \in 1..31
  BY DEF Date
<1>3. NextMonth(d) \in Date
  <2>1. CASE d.month = 12
    BY <1>2, <2>1 DEF NextMonth, Date
  <2>2. CASE d.month # 12
    BY <1>2, <2>2 DEF NextMonth, Date
  <2> QED BY <2>1, <2>2
<1>4. CASE n = 0 \/ n >= 29
  BY <1>4 DEF NextFewDay
<1>5. CASE n \in 1..28 /\ d.day + n > MonthDays(d.month, d.year)
  <2>1. d.day + n - MonthDays(d.month, d.year) \in 1..31
    BY <1>1, <1>2, <1>5
  <2> QED BY <2>1, <1>3, <1>5 DEF NextFewDay, Date
<1>6. CASE n \in 1..28 /\ ~(d.day + n > MonthDays(d.month, d.year))
  <2>1. d.day + n \in 1..31
    BY <1>1, <1>2, <1>6
  <2> QED BY <2>1, <1>6 DEF NextFewDay, Date
<1> QED BY <1>4, <1>5, <1>6

LEMMA TomorrowType ==
  ASSUME NEW d \in Date PROVE Tomorrow(d) \in Date
<1>1. MonthDays(d.month, d.year) \in 28 .. 31
  BY MonthDaysType
<1>2. d.year \in Nat /\ d.month \in 1..12 /\ d.day \in 1..31
  BY DEF Date
<1>3. CASE d.day < MonthDays(d.month, d.year)
  <2>1. d.day + 1 \in 1..31
    BY <1>1, <1>2, <1>3
  <2> QED BY <2>1, <1>3 DEF Tomorrow, Date
<1>4. CASE ~(d.day < MonthDays(d.month, d.year)) /\ d.month < 12
  BY <1>2, <1>4 DEF Tomorrow, Date
<1>5. CASE ~(d.day < MonthDays(d.month, d.year)) /\ ~(d.month < 12)
  BY <1>5, <1>2 DEF Tomorrow, Date
<1> QED BY <1>3, <1>4, <1>5

\* A tick over midnight and the alarm of the day after agree on that day, as
\* long as the year is not 2099 (set_virtual_rtc_tick,
\* rtc_calculate_next_few_day).
THEOREM MidnightIsNextDay ==
  ASSUME NEW d \in Date, d.year < 2099, d.day <= MonthDays(d.month, d.year)
  PROVE  Tomorrow(d) = NextFewDay(d, 1)
<1>1. MonthDays(d.month, d.year) \in 28 .. 31
  BY MonthDaysType
<1>2. d.year \in Nat /\ d.month \in 1..12 /\ d.day \in 1..31
  BY DEF Date
<1>3. d = [year |-> d.year, month |-> d.month, day |-> d.day]
  BY DEF Date
<1>4. CASE d.day < MonthDays(d.month, d.year)
  BY <1>1, <1>2, <1>4 DEF Tomorrow, NextFewDay
<1>5. CASE d.day = MonthDays(d.month, d.year)
  <2>1. d.day + 1 - MonthDays(d.month, d.year) = 1 /\ d.day + 1 > MonthDays(d.month, d.year)
    BY <1>1, <1>2, <1>5
  <2>2. NextFewDay(d, 1) = [NextMonth(d) EXCEPT !.day = 1]
    BY <2>1 DEF NextFewDay
  <2>3. CASE d.month < 12
    <3>0. d.month # 12 /\ ~(d.day < MonthDays(d.month, d.year))
      BY <1>1, <1>2, <1>5, <2>3
    <3>1. NextMonth(d) = [year |-> d.year, month |-> d.month + 1, day |-> d.day]
      BY <3>0 DEF NextMonth
    <3>2. Tomorrow(d) = [year |-> d.year, month |-> d.month + 1, day |-> 1]
      BY <3>0, <2>3 DEF Tomorrow
    <3> QED BY <2>2, <3>1, <3>2
  <2>4. CASE d.month = 12
    <3>1. NextMonth(d) = [year |-> d.year + 1, month |-> 1, day |-> d.day]
      BY <2>4 DEF NextMonth
    <3>0. ~(d.month < 12) /\ ~(d.day < MonthDays(d.month, d.year))
      BY <1>1, <1>2, <1>5, <2>4
    <3>2. Tomorrow(d) = [year |-> d.year + 1, month |-> 1, day |-> 1]
      BY <3>0 DEF Tomorrow
    <3> QED BY <2>2, <3>1, <3>2
  <2> QED BY <1>2, <2>3, <2>4
<1> QED BY <1>1, <1>2, <1>4, <1>5

LEMMA WeekdayType ==
  ASSUME NEW d \in Date PROVE Weekday(d) \in 1..7
<1> DEFINE early == d.month < 3
           m == IF early THEN d.month + 12 ELSE d.month
           y == IF early THEN d.year - 1 ELSE d.year
           val == (y % 100) + (y % 100) \div 4 + (y \div 100) \div 4
                    + (26 * (m + 1)) \div 10 + d.day - 2 * (y \div 100) - 1
<1>1. \A v \in Int : v % 7 \in 0..6
  OBVIOUS
<1>2. m \in Int /\ y \in Int /\ d.day \in Int
  BY DEF Date
<1> HIDE DEF m, y
<1>3. y % 100 \in Int /\ y \div 100 \in Int
  BY <1>2
<1>4. (y % 100) \div 4 \in Int /\ (y \div 100) \div 4 \in Int
  BY <1>3
<1>5. (26 * (m + 1)) \div 10 \in Int
  BY <1>2
<1>6. val \in Int
  BY <1>2, <1>3, <1>4, <1>5
<1>7. WeekVal(d) = IF val >= 0 THEN val % 7 ELSE (val + 4) % 7
  BY DEF WeekVal, m, y
<1> HIDE DEF val
<1>8. WeekVal(d) \in 0..6
  BY <1>1, <1>6, <1>7
<1> QED BY <1>8 DEF Weekday

LEMMA LeastOfDays ==
  ASSUME NEW S \in SUBSET (1..7), S # {} PROVE Min(S) \in S /\ \A y \in S : Min(S) <= y
<1>1. Min(S) \in S /\ \A y \in S : Min(S) <= y
  <2>1. \E x \in S : \A y \in S : x <= y
    <3>1. S \in SUBSET Nat
      OBVIOUS
    <3> QED BY <3>1, LeastNatural
  <2> QED BY <2>1 DEF Min
<1> QED BY <1>1

\* Of the days to come, DaysAhead finds the first of the mode.
LEMMA DaysAheadIs ==
  ASSUME NEW mode \in SUBSET (0..7), mode \notin AnyDay, NEW w \in 1..7
  PROVE  LET on(k) == IF w + k <= 7 THEN w + k ELSE w + k - 7
             n == DaysAhead(mode, w)
         IN /\ n \in 0 .. 6 /\ on(n) \in mode
            /\ \A k \in 0 .. n - 1 : on(k) \notin mode
<1> DEFINE week == mode \ {0}
           left == {d \in week : d >= w}
           on(k) == IF w + k <= 7 THEN w + k ELSE w + k - 7
           n == DaysAhead(mode, w)
<1>1. week \in SUBSET (1..7) /\ week # {}
  BY DEF AnyDay
<1>2. CASE left # {}
  <2> DEFINE x == Min(left)
  <2>0. left \in SUBSET (1..7)
    BY <1>1
  <2>1. x \in left /\ \A y \in left : x <= y
    <3> HIDE DEF left
    <3> QED BY <1>2, <2>0, LeastOfDays
  <2>2. n = x - w
    BY <1>2 DEF DaysAhead
  <2>3. x \in 1 .. 7 /\ x >= w /\ x \in mode /\ \A y \in mode : (y # 0 /\ y >= w) => x <= y
    BY <1>1, <2>1
  <2> HIDE DEF x, n
  <2>4. n \in 0 .. 6 /\ on(n) = x
    BY <2>2, <2>3
  <2>5. ASSUME NEW k \in 0 .. n - 1 PROVE on(k) \notin mode
    <3>1. on(k) = w + k /\ w + k # 0 /\ w + k >= w /\ ~(x <= w + k)
      BY <2>2, <2>3, <2>4
    <3> QED BY <2>3, <3>1
  <2> QED BY <2>3, <2>4, <2>5 DEF n
<1>3. CASE left = {}
  <2> DEFINE x == Min(week)
  <2>1. x \in week /\ \A y \in week : x <= y
    BY <1>1, LeastOfDays
  <2>2. n = 7 - (w - x)
    BY <1>3 DEF DaysAhead
  <2>3. x \in 1 .. 7 /\ ~(x >= w) /\ x \in mode /\ \A y \in mode : (y # 0) => (x <= y /\ ~(y >= w))
    BY <1>1, <1>3, <2>1
  <2> HIDE DEF x, n
  <2>4. n \in 0 .. 6 /\ on(n) = x
    BY <2>2, <2>3
  <2>5. ASSUME NEW k \in 0 .. n - 1 PROVE on(k) \notin mode
    <3>1. on(k) # 0 /\ (on(k) >= w \/ ~(x <= on(k)))
      BY <2>2, <2>3, <2>4
    <3> QED BY <2>3, <3>1
  <2> QED BY <2>3, <2>4, <2>5 DEF n
<1> QED BY <1>2, <1>3

LEMMA RealDateType ==
  ASSUME NEW a \in Alarm, NEW now \in Time PROVE RealDate(a, now) \in Date
<1> DEFINE day == IF a.min > now.min THEN now.date ELSE NextFewDay(now.date, 1)
<1>1. day \in Date
  BY NextFewDayType DEF Time
<1> HIDE DEF day
<1>2. ASSUME a.mode \notin AnyDay PROVE DaysAhead(a.mode, Weekday(day)) \in Nat
  BY <1>1, <1>2, WeekdayType, DaysAheadIs DEF Alarm
<1>3. ASSUME a.mode \notin AnyDay PROVE NextFewDay(day, DaysAhead(a.mode, Weekday(day))) \in Date
  BY <1>1, <1>2, <1>3, NextFewDayType
<1> QED BY <1>1, <1>3 DEF RealDate, day

-----------------------------------------------------------------------------
(***************************************************************************)
(* Counted days                                                            *)
(***************************************************************************)

\* What the years 2000 to 2099 begin with.
YearStart(y) == 365 * (y - 2000) + (y - 1997) \div 4

LEMMA YearSteps ==
  ASSUME NEW y \in 2001 .. 2099
  PROVE  YearStart(y) = YearStart(y - 1) + (IF Leap(y - 1) THEN 366 ELSE 365)
<1> DEFINE a == y - 2001
<1>1. a \in 0 .. 98 /\ y - 1 = a + 2000 /\ y = a + 2001
  OBVIOUS
<1> HIDE DEF a
<1>2. Leap(y - 1) <=> a % 4 = 0
  <2>1. (a + 2000) % 4 = a % 4
    BY <1>1
  <2>2. (a + 2000) % 400 # 0 => (a + 2000) % 100 # 0
    BY <1>1
  <2>3. (a + 2000) % 400 = 0 => a % 4 = 0
    BY <1>1
  <2> QED BY <1>1, <2>1, <2>2, <2>3 DEF Leap
<1>3. YearStart(y) = 365 * (a + 1) + (a + 4) \div 4
  BY <1>1 DEF YearStart
<1>4. YearStart(y - 1) = 365 * a + (a + 3) \div 4
  BY <1>1 DEF YearStart
<1>5. CASE a % 4 = 0
  <2>1. (a + 4) \div 4 = (a + 3) \div 4 + 1
    BY <1>1, <1>5
  <2> QED BY <1>1, <1>2, <1>3, <1>4, <1>5, <2>1
<1>6. CASE a % 4 # 0
  <2>1. (a + 4) \div 4 = (a + 3) \div 4
    BY <1>1, <1>6
  <2> QED BY <1>1, <1>2, <1>3, <1>4, <1>6, <2>1
<1> QED BY <1>5, <1>6

LEMMA FirstOfYearIs ==
  \A y \in 2000 .. 2099 : FirstOfYear[y] = YearStart(y)
<1> DEFINE f == [y \in 2000 .. 2099 |-> YearStart(y)]
           step(g, y) == IF y = 2000 THEN 0 ELSE g[y - 1] + (IF Leap(y - 1) THEN 366 ELSE 365)
<1>0. YearStart(2000) = 0
  BY DEF YearStart
<1>1. f = [y \in 2000 .. 2099 |-> step(f, y)]
  <2>1. ASSUME NEW y \in 2000 .. 2099 PROVE YearStart(y) = step(f, y)
    <3>1. CASE y = 2000
      BY <1>0, <3>1
    <3>2. CASE y # 2000
      <4>1. y \in 2001 .. 2099 /\ y - 1 \in 2000 .. 2099
        BY <3>2
      <4> QED BY <3>2, <4>1, YearSteps
    <3> QED BY <3>1, <3>2
  <2> QED BY <2>1
<1>2. \E g : g = [y \in 2000 .. 2099 |-> IF y = 2000 THEN 0 ELSE g[y - 1] + (IF Leap(y - 1) THEN 366 ELSE 365)]
  <2> HIDE DEF f
  <2> QED BY <1>1
<1> HIDE DEF f
<1>3. FirstOfYear = [y \in 2000 .. 2099 |->
                       IF y = 2000 THEN 0 ELSE FirstOfYear[y - 1] + (IF Leap(y - 1) THEN 366 ELSE 365)]
  BY <1>2, ZenonT(60) DEF FirstOfYear
<1>4. \A y \in 2000 .. 2099 : FirstOfYear[y] = step(FirstOfYear, y)
  BY <1>3
<1> DEFINE Bad == {y \in 2000 .. 2099 : FirstOfYear[y] # YearStart(y)}
<1> SUFFICES ASSUME Bad # {} PROVE FALSE
  OBVIOUS
<1>5. PICK y \in Bad : \A z \in Bad : y <= z
  <2>1. Bad \in SUBSET Nat
    OBVIOUS
  <2> HIDE DEF Bad
  <2> QED BY <2>1, LeastNatural
<1>6. y # 2000
  BY <1>0, <1>4
<1>7. y \in 2001 .. 2099 /\ y - 1 \in 2000 .. 2099 /\ ~(y <= y - 1)
  BY <1>6
<1>8. FirstOfYear[y - 1] = YearStart(y - 1)
  BY <1>5, <1>7
<1>9. FirstOfYear[y] = FirstOfYear[y - 1] + (IF Leap(y - 1) THEN 366 ELSE 365)
  BY <1>4, <1>6
<1> QED BY <1>7, <1>8, <1>9, YearSteps

\* A day of the calendar; one on which the clock is right about the day of
\* the week; one before the last of them; one before the last weeks.
RealDay(d) == d \in Date /\ d.day <= MonthDays(d.month, d.year)
Served(d) == RealDay(d) /\ d.year <= 2099 /\ ~DateBefore(d, [year |-> 2019, month |-> 3, day |-> 3])
HasNext(d) == Served(d) /\ (d.year < 2099 \/ d.month < 12)
HasWeek(d) == Served(d) /\ (d.year < 2099 \/ d.month < 11)

LEMMA ServedYears ==
  ASSUME NEW d, Served(d)
  PROVE  /\ d.year \in 2019 .. 2099 /\ d.month \in 1 .. 12 /\ d.day \in 1 .. 31
         /\ d.day <= MonthDays(d.month, d.year) /\ MonthDays(d.month, d.year) \in 28 .. 31
         /\ d = [year |-> d.year, month |-> d.month, day |-> d.day]
         /\ d.year = 2019 => d.month >= 3 /\ (d.month = 3 => d.day >= 3)
<1>1. d \in Date
  BY DEF Served, RealDay
<1>2. /\ d.year \in Nat /\ d.month \in 1 .. 12 /\ d.day \in 1 .. 31
      /\ d = [year |-> d.year, month |-> d.month, day |-> d.day]
  BY <1>1 DEF Date
<1>3. ~(d.year < 2019) /\ ~(d.year = 2019 /\ d.month < 3) /\ ~(d.year = 2019 /\ d.month = 3 /\ d.day < 3)
  BY DEF Served, DateBefore
<1> QED BY <1>2, <1>3, MonthDaysType DEF Served, RealDay

LEMMA TomorrowIs ==
  ASSUME NEW d, HasNext(d)
  PROVE  \/ /\ d.day < MonthDays(d.month, d.year)
            /\ Tomorrow(d) = [year |-> d.year, month |-> d.month, day |-> d.day + 1]
         \/ /\ d.day = MonthDays(d.month, d.year) /\ d.month < 12
            /\ Tomorrow(d) = [year |-> d.year, month |-> d.month + 1, day |-> 1]
         \/ /\ d.day = MonthDays(d.month, d.year) /\ d.month = 12 /\ d.year < 2099
            /\ Tomorrow(d) = [year |-> d.year + 1, month |-> 1, day |-> 1]
<1>1. /\ d.year \in 2019 .. 2099 /\ d.month \in 1 .. 12 /\ d.day \in 1 .. 31
      /\ d.day <= MonthDays(d.month, d.year) /\ MonthDays(d.month, d.year) \in 28 .. 31
      /\ d = [year |-> d.year, month |-> d.month, day |-> d.day]
  BY ServedYears DEF HasNext
<1>2. CASE d.day < MonthDays(d.month, d.year)
  BY <1>1, <1>2 DEF Tomorrow
<1>3. CASE ~(d.day < MonthDays(d.month, d.year)) /\ d.month < 12
  <2>1. d.day = MonthDays(d.month, d.year)
    BY <1>1, <1>3
  <2> QED BY <1>3, <2>1 DEF Tomorrow
<1>4. CASE ~(d.day < MonthDays(d.month, d.year)) /\ ~(d.month < 12)
  <2>1. d.day = MonthDays(d.month, d.year) /\ d.month = 12 /\ d.year < 2099
    BY <1>1, <1>4 DEF HasNext
  <2> QED BY <1>4, <2>1 DEF Tomorrow
<1> QED BY <1>2, <1>3, <1>4

LEMMA TomorrowServed ==
  ASSUME NEW d, HasNext(d)
  PROVE  Served(Tomorrow(d))
<1> DEFINE t == Tomorrow(d)
<1>1. /\ d.year \in 2019 .. 2099 /\ d.month \in 1 .. 12 /\ d.day \in 1 .. 31
      /\ d.year = 2019 => d.month >= 3 /\ (d.month = 3 => d.day >= 3)
  BY ServedYears DEF HasNext
<1>2. t \in Date
  BY TomorrowType DEF HasNext, Served, RealDay
<1>3. /\ t.day <= MonthDays(t.month, t.year)
      /\ t.year \in 2019 .. 2099
      /\ t.year = 2019 => t.month >= 3 /\ (t.month = 3 => t.day >= 3)
  <2>1. CASE d.day < MonthDays(d.month, d.year) /\ t = [year |-> d.year, month |-> d.month, day |-> d.day + 1]
    <3>1. t.year = d.year /\ t.month = d.month /\ t.day = d.day + 1
      BY <2>1
    <3> HIDE DEF t
    <3> QED BY <1>1, <2>1, <3>1, MonthDaysType
  <2>2. CASE d.month < 12 /\ t = [year |-> d.year, month |-> d.month + 1, day |-> 1]
    <3>1. t.year = d.year /\ t.month = d.month + 1 /\ t.day = 1
      BY <2>2
    <3> HIDE DEF t
    <3> QED BY <1>1, <3>1, MonthDaysType
  <2>3. CASE d.year < 2099 /\ t = [year |-> d.year + 1, month |-> 1, day |-> 1]
    <3>1. t.year = d.year + 1 /\ t.month = 1 /\ t.day = 1
      BY <2>3
    <3> HIDE DEF t
    <3> QED BY <1>1, <2>3, <3>1, MonthDaysType
  <2> QED BY <2>1, <2>2, <2>3, TomorrowIs
<1>4. t.month \in Int /\ t.day \in Int
  BY <1>2 DEF Date
<1> HIDE DEF t
<1>5. Served(t)
  BY <1>2, <1>3, <1>4 DEF Served, RealDay, DateBefore
<1> QED BY <1>5 DEF t

LEMMA LeapFrom ==
  ASSUME NEW y \in 2001 .. 2099
  PROVE  Leap(y) <=> y % 4 = 0
<1>1. y % 400 # 0 /\ y % 100 # 0
  OBVIOUS
<1> QED BY <1>1 DEF Leap

LEMMA DayNumberIs ==
  ASSUME NEW d, Served(d)
  PROVE  DayNumber(d) = YearStart(d.year) + BeforeMonth[d.month] + d.day - 1
                          + (IF d.month > 2 /\ Leap(d.year) THEN 1 ELSE 0)
<1>1. d.year \in 2000 .. 2099 /\ d.day \in Int /\ d.month \in 1 .. 12
  BY ServedYears
<1>2. BeforeMonth[d.month] \in Int /\ YearStart(d.year) \in Int
  BY <1>1 DEF BeforeMonth, YearStart
<1> QED BY <1>1, <1>2, FirstOfYearIs DEF DayNumber, DayOfYear

LEMMA NextNumber ==
  ASSUME NEW d, HasNext(d)
  PROVE  DayNumber(Tomorrow(d)) = DayNumber(d) + 1
<1> DEFINE y == d.year  m == d.month  t == Tomorrow(d)
           l(mm, yy) == IF mm > 2 /\ Leap(yy) THEN 1 ELSE 0
           First(mm, yy) == YearStart(yy) + BeforeMonth[mm] + l(mm, yy)
<1> SUFFICES DayNumber(t) = DayNumber(d) + 1
  OBVIOUS
<1>1. /\ y \in 2001 .. 2099 /\ m \in 1 .. 12 /\ d.day \in 1 .. 31 /\ Served(t) /\ Served(d)
  BY ServedYears, TomorrowServed DEF HasNext
<1>2. ASSUME NEW x, Served(x)
      PROVE  /\ DayNumber(x) = First(x.month, x.year) + x.day - 1
             /\ First(x.month, x.year) \in Int /\ x.day \in Int
  <2>1. x.year \in 2000 .. 2099 /\ x.day \in Int /\ x.month \in 1 .. 12
    BY <1>2, ServedYears
  <2>2. BeforeMonth[x.month] \in Int /\ YearStart(x.year) \in Int /\ l(x.month, x.year) \in Int
    BY <2>1 DEF BeforeMonth, YearStart
  <2>3. DayNumber(x) = YearStart(x.year) + BeforeMonth[x.month] + x.day - 1 + l(x.month, x.year)
    BY <1>2, DayNumberIs
  <2> HIDE DEF l
  <2> QED BY <2>1, <2>2, <2>3
<1>3. CASE t = [year |-> y, month |-> m, day |-> d.day + 1]
  <2>1. t.year = y /\ t.month = m /\ t.day = d.day + 1
    BY <1>3
  <2>2. /\ DayNumber(t) = First(m, y) + (d.day + 1) - 1
        /\ DayNumber(d) = First(m, y) + d.day - 1 /\ First(m, y) \in Int
    <3> HIDE DEF t, First
    <3> QED BY <1>1, <1>2, <2>1
  <2> HIDE DEF t, First
  <2> QED BY <1>1, <2>2
<1>4. CASE d.day = MonthDays(m, y) /\ m < 12 /\ t = [year |-> y, month |-> m + 1, day |-> 1]
  <2>1. t.year = y /\ t.month = m + 1 /\ t.day = 1
    BY <1>4
  <2>2. /\ DayNumber(t) = First(m + 1, y) + 1 - 1
        /\ DayNumber(d) = First(m, y) + MonthDays(m, y) - 1
        /\ First(m, y) \in Int /\ First(m + 1, y) \in Int
    <3> HIDE DEF t, First
    <3> QED BY <1>1, <1>2, <1>4, <2>1
  <2>3. BeforeMonth[m + 1] + l(m + 1, y) = BeforeMonth[m] + l(m, y) + MonthDays(m, y)
    <3>1. m \in {1, 2, 3, 4, 5, 6, 7, 8, 9, 10, 11}
      BY <1>1, <1>4
    <3> HIDE DEF m, y
    <3> QED BY <3>1 DEF BeforeMonth, MonthDays
  <2>4. /\ BeforeMonth[m + 1] \in Int /\ BeforeMonth[m] \in Int /\ YearStart(y) \in Int
        /\ l(m, y) \in Int /\ l(m + 1, y) \in Int /\ MonthDays(m, y) \in Int
    BY <1>1, <1>4, MonthDaysType DEF BeforeMonth, YearStart
  <2> HIDE DEF l
  <2>5. First(m + 1, y) = First(m, y) + MonthDays(m, y)
    BY <2>3, <2>4
  <2> HIDE DEF t, First
  <2> QED BY <2>2, <2>4, <2>5
<1>5. CASE d.day = MonthDays(m, y) /\ m = 12 /\ y < 2099 /\ t = [year |-> y + 1, month |-> 1, day |-> 1]
  <2>1. t.year = y + 1 /\ t.month = 1 /\ t.day = 1
    BY <1>5
  <2>2. MonthDays(m, y) = 31
    BY <1>5 DEF MonthDays
  <2>3. /\ DayNumber(t) = First(1, y + 1) + 1 - 1
        /\ DayNumber(d) = First(12, y) + 31 - 1
    <3> HIDE DEF t, First
    <3> QED BY <1>1, <1>2, <1>5, <2>1, <2>2
  <2>4. YearStart(y + 1) = YearStart(y) + 365 + l(12, y) /\ YearStart(y) \in Int
    <3>1. y + 1 \in 2001 .. 2099 /\ (y + 1) - 1 = y
      BY <1>1, <1>5
    <3>2. YearStart(y) \in Int
      BY <1>1 DEF YearStart
    <3>3. YearStart(y + 1) = YearStart(y) + (IF Leap(y) THEN 366 ELSE 365)
      BY <3>1, YearSteps
    <3> HIDE DEF y
    <3> QED BY <3>2, <3>3
  <2>5. BeforeMonth[12] = 334 /\ BeforeMonth[1] = 0 /\ l(1, y + 1) = 0 /\ l(12, y) \in Int
    BY DEF BeforeMonth
  <2> HIDE DEF l, y, t
  <2>6. First(1, y + 1) = First(12, y) + 31 /\ First(12, y) \in Int
    BY <2>4, <2>5
  <2> HIDE DEF First
  <2> QED BY <2>3, <2>6
<1> QED BY <1>3, <1>4, <1>5, TomorrowIs

\* rtc_calculate_week_val against counted days, by the length of the year
\* before the month.
THEOREM WeekdayIsRight ==
  ASSUME NEW d, Served(d)
  PROVE  Weekday(d) = TrueWeekday(d)
<1> DEFINE y == d.year  m == d.month  n == d.day
           early == m < 3
           zm == IF early THEN m + 12 ELSE m
           zy == IF early THEN y - 1 ELSE y
           a == zy - 2000
           C == (26 * (zm + 1)) \div 10
           val == a + a \div 4 + 5 + C + n - 41
           B == BeforeMonth[m]
<1>1. /\ y \in 2019 .. 2099 /\ m \in 1 .. 12 /\ n \in 1 .. 31
      /\ y = 2019 => m >= 3 /\ (m = 3 => n >= 3)
  BY ServedYears
<1>2. /\ zy % 100 = a /\ zy \div 100 = 20
      /\ a \in 19 .. 99 /\ (a = 19 /\ m = 3 => n >= 3)
      /\ zy = a + 2000 /\ (~early => y = a + 2000) /\ (early => y = a + 2001)
  <2> HIDE DEF y, m, n
  <2>1. zy \in 2019 .. 2099 /\ (zy = 2019 /\ m = 3 => n >= 3)
    BY <1>1
  <2> HIDE DEF zy
  <2> QED BY <2>1 DEF zy
<1>3. m \in {1, 2, 3, 4, 5, 6, 7, 8, 9, 10, 11, 12}
  BY <1>1
<1>4. C \in 10 .. 39 /\ (m # 3 => C >= 13)
  <2> HIDE DEF m, y, n
  <2> QED BY <1>3
<1>5. /\ ~early => B - C + 42 \in {7 * k : k \in 0 .. 60}
      /\ early => B - C + 407 \in {7 * k : k \in 0 .. 60}
  <2> HIDE DEF y, n
  <2>1. CASE m = 1
    BY <2>1 DEF BeforeMonth
  <2>2. CASE m = 2
    BY <2>2 DEF BeforeMonth
  <2>3. CASE m = 3
    BY <2>3 DEF BeforeMonth
  <2>4. CASE m = 4
    BY <2>4 DEF BeforeMonth
  <2>5. CASE m = 5
    BY <2>5 DEF BeforeMonth
  <2>6. CASE m = 6
    BY <2>6 DEF BeforeMonth
  <2>7. CASE m = 7
    BY <2>7 DEF BeforeMonth
  <2>8. CASE m = 8
    BY <2>8 DEF BeforeMonth
  <2>9. CASE m = 9
    BY <2>9 DEF BeforeMonth
  <2>10. CASE m = 10
    BY <2>10 DEF BeforeMonth
  <2>11. CASE m = 11
    BY <2>11 DEF BeforeMonth
  <2>12. CASE m = 12
    BY <2>12 DEF BeforeMonth
  <2> QED BY <1>3, <2>1, <2>2, <2>3, <2>4, <2>5, <2>6, <2>7, <2>8, <2>9, <2>10, <2>11, <2>12
<1>6. a \in Int /\ a \div 4 \in Int /\ C \in Int /\ n \in Int /\ B \in Int
  <2>1. B \in Int
    BY <1>1 DEF BeforeMonth
  <2> HIDE DEF B, C, n, a
  <2> QED BY <1>1, <1>2, <1>4, <2>1
<1>7. Weekday(d) = IF val % 7 = 0 THEN 7 ELSE val % 7
  <2>1. val = (zy % 100) + (zy % 100) \div 4 + (zy \div 100) \div 4
                + (26 * (zm + 1)) \div 10 + n - 2 * (zy \div 100) - 1
    <3>1. 20 \div 4 = 5
      OBVIOUS
    <3> DEFINE Z == (26 * (zm + 1)) \div 10
    <3>2. C = Z
      OBVIOUS
    <3> HIDE DEF Z, C, zy, a, n
    <3>3. val = a + a \div 4 + 20 \div 4 + Z + n - 2 * 20 - 1
      BY <1>6, <3>1, <3>2
    <3>4. val = (zy % 100) + (zy % 100) \div 4 + (zy \div 100) \div 4
                  + Z + n - 2 * (zy \div 100) - 1
      <4> HIDE DEF val
      <4> QED BY <1>2, <3>3
    <3> QED BY <3>4 DEF Z
  <2>2. val >= 0
    <3>2. a >= 20 => a \div 4 >= 5
      BY <1>2
    <3>3. a = 19 => a \div 4 = 4
      BY <1>2
    <3>4. a >= 19 /\ n >= 1 /\ m \in Int
      BY <1>1, <1>2
    <3> HIDE DEF a, C, n, m
    <3> QED BY <1>2, <1>4, <1>6, <3>2, <3>3, <3>4
  <2> DEFINE v == (zy % 100) + (zy % 100) \div 4 + (zy \div 100) \div 4
                    + (26 * (zm + 1)) \div 10 + n - 2 * (zy \div 100) - 1
  <2>3. WeekVal(d) = IF v >= 0 THEN v % 7 ELSE (v + 4) % 7
    BY DEF WeekVal
  <2> HIDE DEF v
  <2>4. v = val
    BY <2>1 DEF v
  <2> HIDE DEF val
  <2>5. WeekVal(d) = val % 7
    BY <2>2, <2>3, <2>4
  <2> QED BY <2>5 DEF Weekday
<1>8. \E k \in Int : DayNumber(d) + 6 = val + 7 * k
  <2>1. DayNumber(d) = YearStart(y) + B + n - 1 + (IF m > 2 /\ Leap(y) THEN 1 ELSE 0)
    BY DayNumberIs
  <2>2. CASE ~early
    <3>1. YearStart(y) + (IF m > 2 /\ Leap(y) THEN 1 ELSE 0) = 365 * a + a \div 4 + 1
      <4>1. y \in 2001 .. 2099 /\ m > 2 /\ y = a + 2000 /\ a \in 19 .. 99
        BY <1>1, <1>2, <2>2
      <4>2. Leap(y) <=> a % 4 = 0
        <5>1. y % 4 = a % 4
          <6> HIDE DEF y, a
          <6> QED BY <4>1
        <5> QED BY <4>1, <5>1, LeapFrom
      <4>3. YearStart(y) = 365 * a + (a + 3) \div 4
        <5> HIDE DEF y, a
        <5> QED BY <4>1 DEF YearStart
      <4> HIDE DEF a, y, m
      <4>4. (a + 3) \div 4 = IF a % 4 = 0 THEN a \div 4 ELSE a \div 4 + 1
        BY <4>1
      <4> QED BY <4>1, <4>2, <4>3, <4>4
    <3>2. PICK k \in 0 .. 60 : B - C + 42 = 7 * k
      BY <1>5, <2>2
    <3>3. DayNumber(d) = 365 * a + a \div 4 + 1 + B + n - 1
      <4> DEFINE l == IF m > 2 /\ Leap(y) THEN 1 ELSE 0
      <4>1. l \in Int /\ YearStart(y) \in Int
        BY <1>1 DEF YearStart
      <4>2. YearStart(y) + l = 365 * a + a \div 4 + 1
        BY <3>1
      <4>3. DayNumber(d) = YearStart(y) + B + n - 1 + l
        BY <2>1
      <4> HIDE DEF l, a, B, n, y
      <4> QED BY <1>6, <4>1, <4>2, <4>3
    <3>4. 52 * a + k \in Int
      <4> HIDE DEF a
      <4> QED BY <1>6
    <3> HIDE DEF a, B, C, n
    <3>5. DayNumber(d) + 6 = val + 7 * (52 * a + k)
      BY <1>6, <3>2, <3>3
    <3> HIDE DEF val
    <3> QED BY <3>4, <3>5
  <2>3. CASE early
    <3>1. YearStart(y) + (IF m > 2 /\ Leap(y) THEN 1 ELSE 0) = 365 * a + a \div 4 + 366
      <4>1. y \in 2001 .. 2099 /\ ~(m > 2) /\ y = a + 2001 /\ a \in 19 .. 99
        BY <1>1, <1>2, <2>3
      <4> HIDE DEF y, a, m
      <4>2. YearStart(y) = 365 * (a + 1) + (a + 4) \div 4 /\ (a + 4) \div 4 = a \div 4 + 1
        BY <4>1 DEF YearStart
      <4> QED BY <4>1, <4>2
    <3>2. PICK k \in 0 .. 60 : B - C + 407 = 7 * k
      BY <1>5, <2>3
    <3>3. DayNumber(d) = 365 * a + a \div 4 + 366 + B + n - 1
      <4> DEFINE l == IF m > 2 /\ Leap(y) THEN 1 ELSE 0
      <4>1. l \in Int /\ YearStart(y) \in Int
        BY <1>1 DEF YearStart
      <4>2. YearStart(y) + l = 365 * a + a \div 4 + 366
        BY <3>1
      <4>3. DayNumber(d) = YearStart(y) + B + n - 1 + l
        BY <2>1
      <4> HIDE DEF l, a, B, n, y
      <4> QED BY <1>6, <4>1, <4>2, <4>3
    <3>4. 52 * a + k \in Int
      <4> HIDE DEF a
      <4> QED BY <1>6
    <3> HIDE DEF a, B, C, n
    <3>5. DayNumber(d) + 6 = val + 7 * (52 * a + k)
      BY <1>6, <3>2, <3>3
    <3> HIDE DEF val
    <3> QED BY <3>4, <3>5
  <2> QED BY <2>2, <2>3
<1>9. val \in Int /\ DayNumber(d) \in Int
  <2>1. val \in Int
    <3> HIDE DEF a, C, n
    <3> QED BY <1>6
  <2>2. YearStart(y) \in Int
    BY <1>1 DEF YearStart
  <2>3. DayNumber(d) = YearStart(y) + B + n - 1 + (IF m > 2 /\ Leap(y) THEN 1 ELSE 0)
    BY DayNumberIs
  <2> HIDE DEF val, B, n, y
  <2> QED BY <1>6, <2>1, <2>2, <2>3
<1> HIDE DEF val
<1> DEFINE w == DayNumber(d)
<1>10. w + 5 \in Int /\ (w + 5) + 1 = w + 6 /\ w \in Int
  BY <1>9
<1>11. TrueWeekday(d) = ((w + 5) % 7) + 1
  BY DEF TrueWeekday
<1> HIDE DEF w
<1>12. PICK k \in Int : w + 6 = val + 7 * k
  BY <1>8 DEF w
<1>13. (w + 6) % 7 = val % 7
  BY <1>9, <1>12
<1>14. ((w + 5) % 7) + 1 = IF (w + 6) % 7 = 0 THEN 7 ELSE (w + 6) % 7
  BY <1>10
<1> QED BY <1>7, <1>11, <1>13, <1>14

-----------------------------------------------------------------------------
(***************************************************************************)
(* The days to come                                                        *)
(***************************************************************************)

LEMMA FewDaysIs ==
  ASSUME NEW d, RealDay(d), NEW n \in 0 .. 7
  PROVE  NextFewDay(d, n) =
           IF d.day + n > MonthDays(d.month, d.year)
           THEN [NextMonth(d) EXCEPT !.day = d.day + n - MonthDays(d.month, d.year)]
           ELSE [d EXCEPT !.day = d.day + n]
<1>1. d \in Date /\ d.day \in Int /\ d.day <= MonthDays(d.month, d.year) /\ MonthDays(d.month, d.year) \in Int
  BY MonthDaysType DEF RealDay, Date
<1>2. CASE n = 0
  <2>1. ~(d.day + n > MonthDays(d.month, d.year)) /\ d.day + n = d.day
    BY <1>1, <1>2
  <2>2. [d EXCEPT !.day = d.day] = d
    BY <1>1 DEF Date
  <2> QED BY <1>2, <2>1, <2>2 DEF NextFewDay
<1>3. CASE n # 0
  BY <1>3 DEF NextFewDay
<1> QED BY <1>2, <1>3

\* Day after day through a week.
LEMMA OneDayOn ==
  ASSUME NEW d, HasWeek(d), NEW n \in 0 .. 6, HasNext(NextFewDay(d, n))
  PROVE  NextFewDay(d, n + 1) = Tomorrow(NextFewDay(d, n))
<1> DEFINE D == MonthDays(d.month, d.year)
           t == NextFewDay(d, n)
<1>1. /\ d.year \in 2019 .. 2099 /\ d.month \in 1 .. 12 /\ d.day \in 1 .. 31
      /\ d.day <= D /\ D \in 28 .. 31 /\ RealDay(d)
      /\ d = [year |-> d.year, month |-> d.month, day |-> d.day]
  BY ServedYears DEF HasWeek, Served
<1>2. n \in 0 .. 7 /\ n + 1 \in 0 .. 7
  OBVIOUS
<1>3. CASE d.day + n < D
  <2>1. ~(d.day + n > D) /\ ~(d.day + (n + 1) > D) /\ d.day + (n + 1) = d.day + n + 1
    BY <1>1, <1>3
  <2>2. t = [year |-> d.year, month |-> d.month, day |-> d.day + n]
    BY <1>1, <1>2, <2>1, FewDaysIs
  <2>3. NextFewDay(d, n + 1) = [year |-> d.year, month |-> d.month, day |-> d.day + n + 1]
    BY <1>1, <1>2, <2>1, FewDaysIs
  <2>4. t.year = d.year /\ t.month = d.month /\ t.day = d.day + n
    BY <2>2
  <2> HIDE DEF t
  <2>5. Tomorrow(t) = [t EXCEPT !.day = @ + 1]
    BY <1>3, <2>4 DEF Tomorrow
  <2>6. Tomorrow(t) = [year |-> d.year, month |-> d.month, day |-> d.day + n + 1]
    BY <2>2, <2>5
  <2> QED BY <2>3, <2>6 DEF t
<1>4. CASE d.day + n = D
  <2>1. ~(d.day + n > D) /\ d.day + (n + 1) > D /\ d.day + (n + 1) - D = 1 /\ ~(d.day + n < D)
    BY <1>1, <1>4
  <2>2. t = [year |-> d.year, month |-> d.month, day |-> d.day + n]
    BY <1>1, <1>2, <2>1, FewDaysIs
  <2>3. NextFewDay(d, n + 1) = [NextMonth(d) EXCEPT !.day = 1]
    BY <1>1, <1>2, <2>1, FewDaysIs
  <2>4. t.year = d.year /\ t.month = d.month /\ t.day = d.day + n
    BY <2>2
  <2> HIDE DEF t
  <2>5. CASE d.month = 12
    <3>1. d.year < 2099 /\ ~(d.month < 12)
      BY <2>5 DEF HasWeek
    <3>2. Tomorrow(t) = [year |-> d.year + 1, month |-> 1, day |-> 1]
      BY <2>1, <2>4, <3>1 DEF Tomorrow
    <3>3. NextMonth(d) = [year |-> d.year + 1, month |-> 1, day |-> d.day]
      BY <2>5 DEF NextMonth
    <3> QED BY <2>3, <3>2, <3>3 DEF t
  <2>6. CASE d.month < 12
    <3>1. Tomorrow(t) = [year |-> d.year, month |-> d.month + 1, day |-> 1]
      BY <2>1, <2>4, <2>6 DEF Tomorrow
    <3>2. d.month # 12
      BY <1>1, <2>6
    <3>3. NextMonth(d) = [year |-> d.year, month |-> d.month + 1, day |-> d.day]
      BY <3>2 DEF NextMonth
    <3> QED BY <2>3, <3>1, <3>3 DEF t
  <2> QED BY <1>1, <2>5, <2>6
<1>5. CASE d.day + n > D
  <2> DEFINE k == d.day + n - D  e == NextMonth(d)
  <2>1. d.day + (n + 1) > D /\ d.day + (n + 1) - D = k + 1 /\ k \in 1 .. 6
    BY <1>1, <1>5
  <2>2. e = [year |-> e.year, month |-> e.month, day |-> e.day]
    BY DEF NextMonth
  <2>3. NextFewDay(d, n + 1) = [e EXCEPT !.day = k + 1] /\ t = [e EXCEPT !.day = k]
    BY <1>1, <1>2, <1>5, <2>1, FewDaysIs
  <2> HIDE DEF t, e, k
  <2>4. /\ NextFewDay(d, n + 1) = [year |-> e.year, month |-> e.month, day |-> k + 1]
        /\ t = [year |-> e.year, month |-> e.month, day |-> k]
    BY <2>2, <2>3
  <2>5. t.day = k /\ t.day < MonthDays(t.month, t.year)
    BY <2>1, <2>4, MonthDaysType
  <2>6. Tomorrow(t) = [t EXCEPT !.day = @ + 1]
    BY <2>5 DEF Tomorrow
  <2>7. Tomorrow(t) = [year |-> e.year, month |-> e.month, day |-> k + 1]
    BY <2>4, <2>6
  <2> QED BY <2>4, <2>7 DEF t
<1> QED BY <1>1, <1>3, <1>4, <1>5

LEMMA WeekServed ==
  ASSUME NEW d, HasWeek(d), NEW n \in 0 .. 7
  PROVE  HasNext(NextFewDay(d, n))
<1> DEFINE D == MonthDays(d.month, d.year)
           t == NextFewDay(d, n)
<1>1. /\ d.year \in 2019 .. 2099 /\ d.month \in 1 .. 12 /\ d.day \in 1 .. 31
      /\ d.day <= D /\ D \in 28 .. 31 /\ RealDay(d)
      /\ d = [year |-> d.year, month |-> d.month, day |-> d.day]
      /\ d.year = 2019 => d.month >= 3 /\ (d.month = 3 => d.day >= 3)
      /\ d.year < 2099 \/ d.month < 11
  BY ServedYears DEF HasWeek, Served
<1>2. t \in Date
  BY NextFewDayType DEF HasWeek, Served, RealDay
<1>3. /\ t.day <= MonthDays(t.month, t.year) /\ t.year \in 2019 .. 2099
      /\ t.year = 2019 => t.month >= 3 /\ (t.month = 3 => t.day >= 3)
      /\ t.year < 2099 \/ t.month < 12
  <2>1. CASE ~(d.day + n > D)
    <3>1. t = [year |-> d.year, month |-> d.month, day |-> d.day + n]
      BY <1>1, <2>1, FewDaysIs
    <3>2. t.year = d.year /\ t.month = d.month /\ t.day = d.day + n
      BY <3>1
    <3> HIDE DEF t
    <3> QED BY <1>1, <2>1, <3>2
  <2>2. CASE d.day + n > D
    <3> DEFINE k == d.day + n - D
    <3>0. k \in 1 .. 7 /\ t = [NextMonth(d) EXCEPT !.day = k]
      BY <1>1, <2>2, FewDaysIs
    <3> HIDE DEF k
    <3>1. CASE d.month = 12
      <4>1. t.year = d.year + 1 /\ t.month = 1 /\ t.day = k
        BY <3>0, <3>1 DEF NextMonth
      <4> HIDE DEF t
      <4> QED BY <1>1, <3>0, <3>1, <4>1, MonthDaysType
    <3>2. CASE d.month # 12
      <4>1. t.year = d.year /\ t.month = d.month + 1 /\ t.day = k
        BY <3>0, <3>2 DEF NextMonth
      <4> HIDE DEF t
      <4> QED BY <1>1, <3>0, <3>2, <4>1, MonthDaysType
    <3> QED BY <3>1, <3>2
  <2> QED BY <2>1, <2>2
<1>4. t.month \in Int /\ t.day \in Int
  BY <1>2 DEF Date
<1> HIDE DEF t
<1>5. HasNext(t)
  BY <1>2, <1>3, <1>4 DEF HasNext, Served, RealDay, DateBefore
<1> QED BY <1>5 DEF t

\* What rtc_calculate_next_few_day returns is as many days on.
LEMMA WeekAhead ==
  ASSUME NEW d, HasWeek(d), NEW n \in 0 .. 6
  PROVE  NextFewDay(d, n + 1) = Tomorrow(NextFewDay(d, n)) /\ HasNext(NextFewDay(d, n))
<1>1. n \in 0 .. 7
  OBVIOUS
<1> QED BY <1>1, WeekServed, OneDayOn

THEOREM FewDaysAreCounted ==
  ASSUME NEW d, HasWeek(d), NEW n \in 0 .. 7
  PROVE  DayNumber(NextFewDay(d, n)) = DayNumber(d) + n
<1> DEFINE P(k) == DayNumber(NextFewDay(d, k)) = DayNumber(d) + k
<1>0. DayNumber(d) \in Int
  <2>1. Served(d) /\ d.year \in 2019 .. 2099 /\ d.month \in 1 .. 12 /\ d.day \in 1 .. 31
    BY ServedYears DEF HasWeek
  <2>2. YearStart(d.year) \in Int /\ BeforeMonth[d.month] \in Int
    BY <2>1 DEF YearStart, BeforeMonth
  <2> QED BY <2>1, <2>2, DayNumberIs
<1>1. P(0)
  BY <1>0 DEF NextFewDay
<1>2. ASSUME NEW k \in 0 .. 6, P(k) PROVE P(k + 1)
  BY <1>0, <1>2, WeekAhead, NextNumber
<1> HIDE DEF P
<1>3. P(0 + 1)
  BY <1>1, <1>2
<1>4. P(1 + 1)
  BY <1>2, <1>3
<1>5. P(2 + 1)
  BY <1>2, <1>4
<1>6. P(3 + 1)
  BY <1>2, <1>5
<1>7. P(4 + 1)
  BY <1>2, <1>6
<1>8. P(5 + 1)
  BY <1>2, <1>7
<1>9. P(6 + 1)
  BY <1>2, <1>8
<1>10. P(n)
  BY <1>1, <1>3, <1>4, <1>5, <1>6, <1>7, <1>8, <1>9
<1> QED BY <1>10 DEF P

LEMMA WeekdayAhead ==
  ASSUME NEW d, HasWeek(d), NEW n \in 0 .. 6
  PROVE  /\ TrueWeekday(NextFewDay(d, n)) =
              IF TrueWeekday(d) + n <= 7 THEN TrueWeekday(d) + n ELSE TrueWeekday(d) + n - 7
         /\ TrueWeekday(d) \in 1 .. 7
<1> DEFINE x == DayNumber(d) + 5
<1>1. x \in Int /\ DayNumber(d) \in Int
  <2>1. Served(d) /\ d.year \in 2019 .. 2099 /\ d.month \in 1 .. 12 /\ d.day \in 1 .. 31
    BY ServedYears DEF HasWeek
  <2>2. YearStart(d.year) \in Int /\ BeforeMonth[d.month] \in Int
    BY <2>1 DEF YearStart, BeforeMonth
  <2> QED BY <2>1, <2>2, DayNumberIs
<1>2. TrueWeekday(d) = (x % 7) + 1
  BY DEF TrueWeekday
<1>3. TrueWeekday(NextFewDay(d, n)) = ((x + n) % 7) + 1
  <2>1. DayNumber(NextFewDay(d, n)) + 5 = x + n
    BY <1>1, FewDaysAreCounted
  <2> QED BY <2>1 DEF TrueWeekday
<1> HIDE DEF x
<1>4. (x + n) % 7 = IF (x % 7) + n < 7 THEN (x % 7) + n ELSE (x % 7) + n - 7
  BY <1>1
<1>5. x % 7 \in 0 .. 6
  BY <1>1
<1> DEFINE r == x % 7
<1> HIDE DEF r
<1>6. (x + n) % 7 = (IF r + n < 7 THEN r + n ELSE r + n - 7) /\ r \in 0 .. 6 /\ TrueWeekday(d) = r + 1
  BY <1>2, <1>4, <1>5 DEF r
<1> QED BY <1>3, <1>6

\* Dates are in a line, and nothing lies between a day and the next.
LEMMA DateOrder ==
  ASSUME NEW a \in Date, NEW b \in Date, NEW c \in Date
  PROVE  /\ ~DateBefore(a, a)
         /\ a = b \/ DateBefore(a, b) \/ DateBefore(b, a)
         /\ ~(DateBefore(a, b) /\ DateBefore(b, a))
         /\ DateBefore(a, b) /\ DateBefore(b, c) => DateBefore(a, c)
<1>1. ASSUME NEW x \in Date
      PROVE  /\ x.year \in Int /\ x.month \in Int /\ x.day \in Int
             /\ x = [year |-> x.year, month |-> x.month, day |-> x.day]
  BY DEF Date
<1>2. (a.year = b.year /\ a.month = b.month /\ a.day = b.day) => (a = b)
  BY <1>1
<1> QED BY <1>1, <1>2 DEF DateBefore

LEMMA NothingBetween ==
  ASSUME NEW d, HasNext(d), NEW e, RealDay(e)
  PROVE  /\ DateBefore(d, Tomorrow(d))
         /\ DateBefore(e, Tomorrow(d)) => ~DateBefore(d, e)
<1> DEFINE t == Tomorrow(d)
<1>1. /\ d.year \in Int /\ d.month \in 1 .. 12 /\ d.day \in Int
      /\ e.year \in Int /\ e.month \in 1 .. 12 /\ e.day \in 1 .. 31 /\ e.day <= MonthDays(e.month, e.year)
      /\ MonthDays(d.month, d.year) \in Int
  BY ServedYears, MonthDaysType DEF HasNext, RealDay, Date
<1>2. CASE d.day < MonthDays(d.month, d.year) /\ t = [year |-> d.year, month |-> d.month, day |-> d.day + 1]
  <2>1. t.year = d.year /\ t.month = d.month /\ t.day = d.day + 1
    BY <1>2
  <2> HIDE DEF t
  <2>2. DateBefore(d, t) /\ (DateBefore(e, t) => ~DateBefore(d, e))
    BY <1>1, <2>1 DEF DateBefore
  <2> QED BY <2>2 DEF t
<1>3. CASE /\ d.day = MonthDays(d.month, d.year) /\ d.month < 12
           /\ t = [year |-> d.year, month |-> d.month + 1, day |-> 1]
  <2>1. t.year = d.year /\ t.month = d.month + 1 /\ t.day = 1
    BY <1>3
  <2> HIDE DEF t
  <2>2. (e.year = d.year /\ e.month = d.month) => ~(d.day < e.day)
    BY <1>1, <1>3
  <2>3. DateBefore(d, t) /\ (DateBefore(e, t) => ~DateBefore(d, e))
    BY <1>1, <2>1, <2>2 DEF DateBefore
  <2> QED BY <2>3 DEF t
<1>4. CASE /\ d.day = MonthDays(d.month, d.year) /\ d.month = 12
           /\ t = [year |-> d.year + 1, month |-> 1, day |-> 1]
  <2>1. t.year = d.year + 1 /\ t.month = 1 /\ t.day = 1
    BY <1>4
  <2> HIDE DEF t
  <2>2. (e.year = d.year /\ e.month = d.month) => ~(d.day < e.day)
    BY <1>1, <1>4
  <2>3. DateBefore(d, t) /\ (DateBefore(e, t) => ~DateBefore(d, e))
    BY <1>1, <1>4, <2>1, <2>2 DEF DateBefore
  <2> QED BY <2>3 DEF t
<1> QED BY <1>2, <1>3, <1>4, TomorrowIs

\* Of the days before the n-th to come each is today or one of those to come.
LEMMA DaysUntil ==
  ASSUME NEW d, HasWeek(d), NEW n \in 0 .. 7
  PROVE  \A e : RealDay(e) /\ ~DateBefore(e, d) /\ DateBefore(e, NextFewDay(d, n)) =>
           \E j \in 0 .. n - 1 : e = NextFewDay(d, j)
<1> DEFINE Between(e, k) == RealDay(e) /\ ~DateBefore(e, d) /\ DateBefore(e, NextFewDay(d, k))
           P(k) == \A e : Between(e, k) => \E j \in 0 .. k - 1 : e = NextFewDay(d, j)
<1>1. P(0)
  BY DEF NextFewDay
<1>2. ASSUME NEW k \in 0 .. 6, P(k) PROVE P(k + 1)
  <2> TAKE e
  <2> HAVE Between(e, k + 1)
  <2> DEFINE t == NextFewDay(d, k)
  <2>1. NextFewDay(d, k + 1) = Tomorrow(t) /\ HasNext(t)
    BY WeekAhead
  <2>2. ~DateBefore(t, e)
    BY <2>1, NothingBetween
  <2>3. e \in Date /\ t \in Date
    BY <2>1 DEF RealDay, HasNext, Served
  <2>4. e = t \/ DateBefore(e, t)
    BY <2>2, <2>3, DateOrder
  <2>5. k \in 0 .. (k + 1) - 1
    OBVIOUS
  <2>6. CASE e = t
    BY <2>5, <2>6
  <2>7. CASE DateBefore(e, t)
    <3>1. PICK j \in 0 .. k - 1 : e = NextFewDay(d, j)
      BY <1>2, <2>7
    <3>2. j \in 0 .. (k + 1) - 1
      OBVIOUS
    <3> QED BY <3>1, <3>2
  <2> QED BY <2>4, <2>6, <2>7
<1> HIDE DEF P
<1>3. P(0 + 1)
  BY <1>1, <1>2
<1>4. P(1 + 1)
  BY <1>2, <1>3
<1>5. P(2 + 1)
  BY <1>2, <1>4
<1>6. P(3 + 1)
  BY <1>2, <1>5
<1>7. P(4 + 1)
  BY <1>2, <1>6
<1>8. P(5 + 1)
  BY <1>2, <1>7
<1>9. P(6 + 1)
  BY <1>2, <1>8
<1>10. P(n)
  BY <1>1, <1>3, <1>4, <1>5, <1>6, <1>7, <1>8, <1>9
<1> QED BY <1>10 DEF P

LEMMA NotBack ==
  ASSUME NEW d, HasWeek(d), NEW n \in 0 .. 7
  PROVE  ~DateBefore(NextFewDay(d, n), d)
<1> DEFINE P(k) == ~DateBefore(NextFewDay(d, k), d)
<1>0. d \in Date
  BY DEF HasWeek, Served, RealDay
<1>1. P(0)
  BY <1>0, DateOrder DEF NextFewDay
<1>2. ASSUME NEW k \in 0 .. 6, P(k) PROVE P(k + 1)
  <2> DEFINE t == NextFewDay(d, k)  u == NextFewDay(d, k + 1)
  <2>1. u = Tomorrow(t) /\ HasNext(t)
    BY WeekAhead
  <2>2. t \in Date /\ u \in Date
    BY <2>1, TomorrowType DEF RealDay, HasNext, Served
  <2>3. DateBefore(t, u)
    <3>1. RealDay(d)
      BY DEF HasWeek, Served
    <3> HIDE DEF t, u
    <3> QED BY <2>1, <3>1, NothingBetween
  <2> HIDE DEF t, u
  <2>4. ~DateBefore(t, d)
    BY <1>2 DEF t
  <2>5. ~DateBefore(u, d)
    BY <1>0, <2>2, <2>3, <2>4, DateOrder
  <2> QED BY <2>5 DEF u
<1> HIDE DEF P
<1>3. P(0 + 1)
  BY <1>1, <1>2
<1>4. P(1 + 1)
  BY <1>2, <1>3
<1>5. P(2 + 1)
  BY <1>2, <1>4
<1>6. P(3 + 1)
  BY <1>2, <1>5
<1>7. P(4 + 1)
  BY <1>2, <1>6
<1>8. P(5 + 1)
  BY <1>2, <1>7
<1>9. P(6 + 1)
  BY <1>2, <1>8
<1>10. P(n)
  BY <1>1, <1>3, <1>4, <1>5, <1>6, <1>7, <1>8, <1>9
<1> QED BY <1>10 DEF P

-----------------------------------------------------------------------------
(***************************************************************************)
(* Types                                                                   *)
(***************************************************************************)

LEMMA NoDateFacts ==
  /\ NoAlarm \in Alarm /\ NotArmed \in Registers
  /\ \A a \in Alarm : Undated(a) \in Alarm
<1>1. 0 \in Minutes
  BY ConstantsOK DEF Minutes
<1> QED BY <1>1 DEF NoAlarm, NotArmed, Undated, Alarm, Registers

LEMMA DatedType ==
  ASSUME NEW t \in [Alarms -> Alarm], NEW S, NEW now \in Time
  PROVE  Dated(t, S, now) \in [Alarms -> Alarm]
<1>1. ASSUME NEW i \in Alarms PROVE [t[i] EXCEPT !.date = RealDate(t[i], now)] \in Alarm
  <2>1. RealDate(t[i], now) \in Date
    BY RealDateType
  <2> QED BY <2>1 DEF Alarm
<1> QED BY <1>1 DEF Dated

LEMMA JobTypes ==
  /\ \A j \in Jobs : [j EXCEPT !.step = StepAfter(j)] \in Jobs
  /\ Idle \in Jobs /\ [Idle EXCEPT !.step = "off"] \in Jobs
  /\ \A i \in Alarms : Job("alarm", i) \in Jobs
  /\ Job("boot", 0) \in Jobs /\ Job("time", 0) \in Jobs /\ Job("event", 0) \in Jobs
<1>1. 0 \in Alarms
  BY ConstantsOK DEF Alarms
<1>2. ASSUME NEW j \in Jobs PROVE StepAfter(j) \in {"idle", "record", "mask", "ring"}
  BY DEF StepAfter
<1>3. ASSUME NEW j \in Jobs PROVE [j EXCEPT !.step = StepAfter(j)] \in Jobs
  BY <1>2 DEF Jobs
<1> QED BY <1>1, <1>3 DEF Jobs, Idle, Job

LEMMA NextSecondType ==
  ASSUME clock \in Time PROVE NextSecond \in Time
<1>1. clock.date \in Date /\ clock.min \in Minutes /\ clock.sec \in Seconds
  BY DEF Time
<1>2. 0 \in Minutes /\ 0 \in Seconds
  BY ConstantsOK DEF Minutes, Seconds
<1>3. CASE clock.sec + 1 < SecondsPerMinute
  <2>1. clock.sec + 1 \in Seconds
    BY <1>1, <1>3, ConstantsOK DEF Seconds
  <2> QED BY <2>1, <1>3 DEF NextSecond, Time
<1>4. CASE ~(clock.sec + 1 < SecondsPerMinute) /\ clock.min + 1 < MinutesPerDay
  <2>1. clock.min + 1 \in Minutes
    BY <1>1, <1>4, ConstantsOK DEF Minutes
  <2> QED BY <2>1, <1>2, <1>4 DEF NextSecond, Time
<1>5. CASE ~(clock.sec + 1 < SecondsPerMinute) /\ ~(clock.min + 1 < MinutesPerDay)
  <2>1. Tomorrow(clock.date) \in Date
    BY <1>1, TomorrowType
  <2> QED BY <2>1, <1>2, <1>5 DEF NextSecond, Time
<1> QED BY <1>3, <1>4, <1>5

LEMMA TypeInit ==
  ASSUME Init PROVE TypeOK
<1>1. 0 \in Alarms /\ 0 \in Minutes
  BY ConstantsOK DEF Alarms, Minutes
<1>2. NoStore \in Stores /\ NoStore.sw \subseteq NoStore.map
  BY NoDateFacts DEF NoStore, Stores
<1>3. ASSUME NEW mode \in Modes, NEW min \in Minutes
      PROVE  Stored(mode, min) \in Stores /\ Stored(mode, min).sw \subseteq Stored(mode, min).map
  <2> DEFINE a == [NoAlarm EXCEPT !.sw = TRUE, !.mode = mode, !.min = min]
  <2>1. a \in Alarm
    BY ConstantsOK DEF NoAlarm, Alarm
  <2> HIDE DEF a
  <2>2. NoStore.rec = [i \in Alarms |-> NoAlarm]
    BY DEF NoStore
  <2>3. [NoStore.rec EXCEPT ![0] = a] \in [Alarms -> Alarm]
    BY <2>1, <2>2, NoDateFacts
  <2>4. Stored(mode, min) = [valid |-> TRUE, map |-> {0}, sw |-> {0}, rec |-> [NoStore.rec EXCEPT ![0] = a]]
    BY DEF Stored, a
  <2> QED BY <1>1, <2>3, <2>4 DEF Stores
<1>4. store \in Stores /\ store.sw \subseteq store.map
  BY <1>2, <1>3 DEF Init
<1>5. clock \in Time /\ sealed \in BOOLEAN
  BY ConstantsOK DEF Init
<1>6. tab \in [Alarms -> Alarm] /\ map \subseteq Alarms /\ mapSw \subseteq map /\ active \subseteq Alarms
  BY NoDateFacts DEF Init
<1>7. events \in Nat /\ ring \in 0..RingMax /\ timers \in Nat /\ ops \in 0..MaxOps
  BY ConstantsOK DEF Init
<1> QED BY <1>4, <1>5, <1>6, <1>7, JobTypes, NoDateFacts DEF TypeOK, Init

LEMMA TypeNext ==
  ASSUME TypeOK, [Next]_vars PROVE TypeOK'
<1> USE DEF TypeOK, table, modes, ringer
<1>0. ASSUME Counted PROVE ops' \in 0..MaxOps
  BY <1>0, ConstantsOK DEF Counted
<1>r. /\ 0 \in 0..RingMax /\ RingMax \in 0..RingMax
      /\ \A k \in 0..RingMax : k > 0 => k - 1 \in 0..RingMax
  BY ConstantsOK
<1>1. CASE Restart
  <2>1. clock' \in Time /\ sealed' \in BOOLEAN
    BY <1>1, ConstantsOK DEF Restart
  <2>2. tab' \in [Alarms -> Alarm] /\ map' = {} /\ mapSw' = {} /\ active' = {}
    BY <1>1, NoDateFacts DEF Restart
  <2>3. reg' \in Registers /\ job' \in Jobs /\ ops' \in 0..MaxOps /\ store' = store
    BY <1>0, <1>1, NoDateFacts, JobTypes DEF Restart
  <2>4. /\ events' = 0 /\ flag' = FALSE /\ ring' = 0 /\ timers' = 0
        /\ task' = "other" /\ running' = FALSE
    BY <1>1 DEF Restart
  <2> QED BY <1>r, <2>1, <2>2, <2>3, <2>4
<1>2. CASE Boot
  <2> DEFINE on == {i \in store.map : store.rec[i].sw}
             sw == (store.sw \ store.map) \cup on
             read == [i \in Alarms |-> IF i \in store.map THEN store.rec[i] ELSE NoAlarm]
  <2>1. store.rec \in [Alarms -> Alarm] /\ store.map \subseteq Alarms /\ store.sw \subseteq store.map
    BY DEF Stores
  <2>2. read \in [Alarms -> Alarm] /\ sw \subseteq store.map
    BY <2>1, NoDateFacts
  <2> HIDE DEF read, sw
  <2>3. CASE store.valid
    <3>1. Dated(read, sw, clock) \in [Alarms -> Alarm]
      BY <2>2, DatedType
    <3>2. tab' \in [Alarms -> Alarm] /\ map' \subseteq Alarms /\ mapSw' \subseteq map' /\ UNCHANGED store
      BY <1>2, <2>1, <2>2, <2>3, <3>1 DEF Boot, read, sw
    <3> QED BY <1>2, <3>2, JobTypes DEF Boot
  <2>4. CASE ~store.valid
    <3>1. store' \in Stores /\ store'.sw \subseteq store'.map
      <4>1. store' = [valid |-> TRUE, map |-> {}, sw |-> {}, rec |-> [i \in Alarms |-> NoAlarm]]
        BY <1>2, <2>4 DEF Boot, NoStore
      <4> QED BY <4>1, NoDateFacts DEF Stores
    <3>2. tab' = tab /\ map' = {} /\ mapSw' = {}
      BY <1>2, <2>4 DEF Boot
    <3> QED BY <1>2, <3>1, <3>2, JobTypes DEF Boot
  <2> QED BY <2>3, <2>4
<1>3. ASSUME NEW t \in Settable, SetTime(t) PROVE TypeOK'
  <2>1. t \in Time
    BY ConstantsOK
  <2>2. Dated(tab, mapSw, t) \in [Alarms -> Alarm]
    BY <2>1, DatedType
  <2> QED BY <1>0, <1>3, <2>1, <2>2, JobTypes DEF SetTime
<1>4. ASSUME NEW i \in Alarms, NEW sw \in BOOLEAN, NEW mode \in Modes, NEW min \in Minutes, AlarmAdd(i, sw, mode, min)
      PROVE  TypeOK'
  <2> DEFINE new == [sw |-> sw, mode |-> mode, min |-> min, date |-> NoDate]
             put == IF sw THEN [new EXCEPT !.date = RealDate(new, clock)] ELSE new
  <2>1. new \in Alarm
    BY ConstantsOK DEF Alarm
  <2>2. RealDate(new, clock) \in Date
    BY <2>1, RealDateType
  <2> HIDE DEF new
  <2>3. put \in Alarm
    BY <2>1, <2>2 DEF Alarm
  <2>4. tab' = [tab EXCEPT ![i] = put] /\ map' = map \cup {i}
        /\ mapSw' = (IF sw THEN mapSw \cup {i} ELSE mapSw \ {i}) /\ job' = Job("alarm", i)
    BY <1>4 DEF AlarmAdd, new
  <2> HIDE DEF put
  <2>5. tab' \in [Alarms -> Alarm]
    BY <2>3, <2>4
  <2> QED BY <1>0, <1>4, <2>4, <2>5, JobTypes DEF AlarmAdd
<1>5. ASSUME NEW i \in Alarms, AlarmDelete(i) PROVE TypeOK'
  <2>1. [Undated(tab[i]) EXCEPT !.sw = FALSE] \in Alarm
    BY NoDateFacts DEF Alarm
  <2>2. tab' \in [Alarms -> Alarm]
    BY <1>5, <2>1 DEF AlarmDelete
  <2> QED BY <1>0, <1>5, <2>2, JobTypes DEF AlarmDelete
<1>6. CASE AlarmEvent
  <2>1. Dated(tab, active, clock) \in [Alarms -> Alarm]
    BY DatedType
  <2> QED BY <1>6, <2>1, JobTypes DEF AlarmEvent
<1>7. CASE Arm
  <2>1. reg' \in Registers
    <3>1. CASE mapSw = {}
      BY <1>7, <3>1, NoDateFacts DEF Arm
    <3>2. CASE mapSw # {}
      <4>1. PICK i \in Earliest : reg' = [date |-> tab[i].date, min |-> tab[i].min, on |-> tab[i].sw]
        BY <1>7, <3>2 DEF Arm
      <4>2. i \in Alarms
        BY DEF Earliest
      <4> QED BY <4>1, <4>2 DEF Alarm, Registers
    <3> QED BY <3>1, <3>2
  <2>2. active' \subseteq Alarms
    BY <1>7 DEF Arm, Earliest
  <2> QED BY <1>7, <2>1, <2>2, JobTypes DEF Arm
<1>8. CASE WriteRecord
  <2>1. job.index \in Alarms
    BY DEF Jobs
  <2>2. store' = [store EXCEPT !.rec = [store.rec EXCEPT ![job.index] = Undated(tab[job.index])]]
    BY <1>8 DEF WriteRecord
  <2>3. [store.rec EXCEPT ![job.index] = Undated(tab[job.index])] \in [Alarms -> Alarm]
    BY <2>1, NoDateFacts DEF Stores
  <2>4. store' \in Stores /\ store'.sw \subseteq store'.map
    BY <2>2, <2>3 DEF Stores
  <2> QED BY <1>8, <2>4, JobTypes DEF WriteRecord
<1>9. CASE WriteMask
  <2>1. store' \in Stores /\ store'.sw \subseteq store'.map
    BY <1>9 DEF WriteMask, Stores
  <2> QED BY <1>9, <2>1, JobTypes DEF WriteMask
<1>10. CASE Ring
  <2>1. job' \in Jobs
    BY <1>10, JobTypes DEF Ring
  <2>2. /\ ring' \in 0..RingMax /\ timers' \in Nat /\ flag' \in BOOLEAN
        /\ task' \in {"rtc", "other"} /\ running' \in BOOLEAN
    <3>1. \/ task = "rtc" /\ RingStart /\ UNCHANGED <<flag, modes>>
          \/ task # "rtc" /\ task' = "rtc" /\ running' = FALSE /\ UNCHANGED ringer
          \/ task # "rtc" /\ UNCHANGED <<modes, ringer>>
      BY <1>10 DEF Ring
    <3>2. CASE RingStart /\ UNCHANGED <<flag, modes>>
      BY <1>r, <3>2 DEF RingStart
    <3>3. CASE task' = "rtc" /\ running' = FALSE /\ UNCHANGED ringer
      BY <3>3
    <3>4. CASE UNCHANGED <<modes, ringer>>
      BY <3>4
    <3> QED BY <3>1, <3>2, <3>3, <3>4
  <2> QED BY <1>10, <2>1, <2>2 DEF Ring
<1>11. CASE Tick
  <2>1. clock' \in Time /\ sealed' \in BOOLEAN
    BY <1>11, NextSecondType DEF Tick
  <2>2. events' \in Nat /\ flag' \in BOOLEAN
    <3>1. CASE Matches(NextSecond)
      BY <1>11, <3>1 DEF Tick
    <3>2. CASE ~Matches(NextSecond)
      BY <1>11, <3>2 DEF Tick
    <3> QED BY <3>1, <3>2
  <2> QED BY <1>11, <2>1, <2>2 DEF Tick
<1>12. CASE SwitchTask
  BY <1>0, <1>12 DEF SwitchTask
<1>13. CASE TaskStart
  BY <1>13, ConstantsOK DEF TaskStart, RingStart
<1>14. CASE RingTimer
  <2>1. ring' \in 0..RingMax /\ timers' \in Nat
    BY <1>r, <1>14 DEF RingTimer, AlarmStop
  <2>2. flag' \in BOOLEAN
    BY <1>14 DEF RingTimer, AlarmStop
  <2> QED BY <1>14, <2>1, <2>2 DEF RingTimer
<1>15. CASE KeyStop
  <2>1. ring' \in 0..RingMax /\ flag' \in BOOLEAN
    BY <1>r, <1>15 DEF KeyStop, AlarmStop
  <2> QED BY <1>15, <2>1 DEF KeyStop
<1>16. CASE UNCHANGED vars
  BY <1>16 DEF vars, table, modes, ringer
<1> QED BY <1>1, <1>2, <1>3, <1>4, <1>5, <1>6, <1>7, <1>8, <1>9, <1>10, <1>11, <1>12, <1>13, <1>14,
           <1>15, <1>16 DEF Next

\* The table, the store and the armed time keep their types.
THEOREM TypeCorrect == Spec => []TypeOK
<1>1. Init => TypeOK
  BY TypeInit
<1>2. TypeOK /\ [Next]_vars => TypeOK'
  BY TypeNext
<1> QED BY <1>1, <1>2, PTL DEF Spec

-----------------------------------------------------------------------------
(***************************************************************************)
(* The settings in RAM and in the store                                    *)
(***************************************************************************)

LEMMA UndatedFacts ==
  ASSUME NEW a \in Alarm
  PROVE  /\ \A d : Undated([a EXCEPT !.date = d]) = Undated(a) /\ [a EXCEPT !.date = d].sw = a.sw
         /\ Undated(Undated(a)) = Undated(a) /\ Undated(a).sw = a.sw
         /\ \A on \in BOOLEAN : Undated([Undated(a) EXCEPT !.sw = on]) = [Undated(a) EXCEPT !.sw = on]
  BY DEF Undated, Alarm

LEMMA DatedFacts ==
  ASSUME NEW t \in [Alarms -> Alarm], NEW S, NEW now, NEW i \in Alarms
  PROVE  Undated(Dated(t, S, now)[i]) = Undated(t[i]) /\ Dated(t, S, now)[i].sw = t[i].sw
<1>1. Dated(t, S, now)[i] = IF i \in S THEN [t[i] EXCEPT !.date = RealDate(t[i], now)] ELSE t[i]
  BY DEF Dated
<1> DEFINE a == t[i]
<1>2. a \in Alarm
  OBVIOUS
<1>3. Dated(t, S, now)[i] \in {[a EXCEPT !.date = RealDate(a, now)], a}
  BY <1>1
<1> HIDE DEF a
<1>4. /\ Undated([a EXCEPT !.date = RealDate(a, now)]) = Undated(a)
      /\ [a EXCEPT !.date = RealDate(a, now)].sw = a.sw
  BY <1>2, UndatedFacts
<1>5. Undated(Dated(t, S, now)[i]) = Undated(a) /\ Dated(t, S, now)[i].sw = a.sw
  BY <1>3, <1>4
<1> QED BY <1>5 DEF a

LEMMA UndatedIs ==
  ASSUME NEW a \in Alarm, a.date = NoDate PROVE Undated(a) = a
  BY DEF Undated, Alarm

StoreInv ==
  /\ StoreAgrees
  /\ \A i \in Alarms : Undated(store.rec[i]) = store.rec[i]
  /\ job.step = "record" => job.kind = "alarm"
  /\ job.step = "mask" /\ job.kind = "alarm" => store.rec[job.index] = Undated(tab[job.index])

LEMMA StoreInit ==
  ASSUME Init PROVE StoreInv
<1>1. Undated(NoAlarm) = NoAlarm
  <2>1. NoAlarm.date = NoDate
    BY DEF NoAlarm
  <2> QED BY <2>1, UndatedIs, NoDateFacts
<1>2. \A i \in Alarms : NoStore.rec[i] = NoAlarm
  BY DEF NoStore
<1>3. ASSUME NEW mode \in Modes, NEW min \in Minutes, NEW i \in Alarms
      PROVE  Undated(Stored(mode, min).rec[i]) = Stored(mode, min).rec[i]
  <2> DEFINE a == [NoAlarm EXCEPT !.sw = TRUE, !.mode = mode, !.min = min]
  <2>1. Undated(a) = a
    <3>1. a \in Alarm
      BY ConstantsOK DEF NoAlarm, Alarm
    <3>2. a.date = NoDate
      BY DEF NoAlarm
    <3> QED BY <3>1, <3>2, UndatedIs
  <2> HIDE DEF a
  <2>2. Stored(mode, min).rec = [NoStore.rec EXCEPT ![0] = a]
    BY DEF Stored, a
  <2>3. Stored(mode, min).rec[i] = IF i = 0 THEN a ELSE NoAlarm
    BY <1>2, <2>2 DEF NoStore
  <2> QED BY <1>1, <2>1, <2>3
<1>4. \A i \in Alarms : Undated(store.rec[i]) = store.rec[i]
  BY <1>1, <1>2, <1>3 DEF Init
<1>5. job.step = "off"
  BY DEF Init, Idle
<1> QED BY <1>4, <1>5 DEF StoreInv, StoreAgrees

\* The job of one alarm begins: the other alarms stood and stand.
LEMMA OneAlarm ==
  ASSUME TypeOK, StoreInv, job.step = "idle", NEW i \in Alarms, job' = Job("alarm", i),
         store' = store,
         mapSw' = {j \in map' : tab'[j].sw},
         \A j \in Alarms \ {i} : (j \in map' <=> j \in map) /\ Undated(tab'[j]) = Undated(tab[j])
  PROVE  StoreInv'
<1>1. ASSUME NEW j \in Alarms PROVE BeingWritten(j)' \/ Stands(j)'
  <2>1. CASE j = i
    BY <2>1 DEF BeingWritten, Job
  <2>2. CASE j # i
    <3>1. Stands(j)
      BY DEF StoreInv, StoreAgrees, BeingWritten
    <3> QED BY <2>2, <3>1 DEF Stands
  <2> QED BY <2>1, <2>2
<1>2. job'.step = "arm"
  BY DEF Job
<1> QED BY <1>1, <1>2 DEF StoreInv, StoreAgrees

\* No setting changes.
LEMMA NoAlarmChanges ==
  ASSUME TypeOK, StoreInv, job.step # "off", store' = store, map' = map, mapSw' = mapSw,
         job' = job \/ (job.step = "idle" /\ job'.step = "arm"),
         \A j \in Alarms : Undated(tab'[j]) = Undated(tab[j]) /\ tab'[j].sw = tab[j].sw
  PROVE  StoreInv'
<1>1. mapSw' = {j \in map' : tab'[j].sw}
  BY DEF StoreInv, StoreAgrees, TypeOK
<1>2. ASSUME NEW j \in Alarms PROVE BeingWritten(j)' \/ Stands(j)'
  <2>1. BeingWritten(j) \/ Stands(j)
    BY DEF StoreInv, StoreAgrees
  <2>2. Stands(j) => Stands(j)'
    BY DEF Stands
  <2>3. BeingWritten(j) => BeingWritten(j)'
    BY DEF BeingWritten
  <2> QED BY <2>1, <2>2, <2>3
<1>3. job.index \in Alarms
  BY DEF TypeOK, Jobs
<1>4. job'.step = "mask" /\ job'.kind = "alarm" => store'.rec[job'.index] = Undated(tab'[job'.index])
  BY <1>3 DEF StoreInv
<1>5. job'.step = "record" => job'.kind = "alarm"
  BY DEF StoreInv
<1> QED BY <1>1, <1>2, <1>4, <1>5 DEF StoreInv, StoreAgrees


LEMMA StoreNext ==
  ASSUME TypeOK, StoreInv, [Next]_vars PROVE StoreInv'
<1> USE DEF table, modes, ringer
<1>0. /\ tab \in [Alarms -> Alarm] /\ store \in Stores /\ job \in Jobs /\ map \subseteq Alarms
      /\ store.sw \subseteq store.map
  BY DEF TypeOK
<1>1. CASE Restart
  <2>1. job'.step = "off" /\ store' = store
    BY <1>1 DEF Restart, Idle
  <2> QED BY <2>1 DEF StoreInv, StoreAgrees
<1>2. CASE Boot
  <2> DEFINE on == {i \in store.map : store.rec[i].sw}
             sw == (store.sw \ store.map) \cup on
             read == [i \in Alarms |-> IF i \in store.map THEN store.rec[i] ELSE NoAlarm]
  <2>0. job'.step = "arm" /\ job'.kind = "boot"
    BY <1>2 DEF Boot, Job
  <2>1. CASE store.valid
    <3>1. sw = on /\ read \in [Alarms -> Alarm]
      BY <1>0, NoDateFacts DEF Stores
    <3>2. map' = store.map /\ mapSw' = sw /\ store' = store /\ tab' = Dated(read, sw, clock)
      BY <1>2, <2>1 DEF Boot
    <3> HIDE DEF sw, read
    <3>3. ASSUME NEW i \in store.map
          PROVE  Undated(tab'[i]) = store.rec[i] /\ tab'[i].sw = store.rec[i].sw
      <4>1. i \in Alarms
        BY <1>0 DEF Stores
      <4>2. read[i] = store.rec[i]
        BY <4>1 DEF read
      <4>3. Undated(tab'[i]) = Undated(read[i]) /\ tab'[i].sw = read[i].sw
        BY <3>1, <3>2, <4>1, DatedFacts
      <4> QED BY <4>1, <4>2, <4>3 DEF StoreInv
    <3>4. mapSw' = {i \in map' : tab'[i].sw}
      BY <3>1, <3>2, <3>3
    <3>5. \A i \in Alarms : Stands(i)'
      BY <3>2, <3>3 DEF Stands
    <3> QED BY <2>0, <3>2, <3>4, <3>5 DEF StoreInv, StoreAgrees
  <2>2. CASE ~store.valid
    <3>1. map' = {} /\ mapSw' = {} /\ store' = [NoStore EXCEPT !.valid = TRUE]
      BY <1>2, <2>2 DEF Boot
    <3>2. store'.map = {} /\ \A i \in Alarms : store'.rec[i] = NoAlarm
      BY <3>1 DEF NoStore
    <3>3. Undated(NoAlarm) = NoAlarm
      <4>1. NoAlarm.date = NoDate
        BY DEF NoAlarm
      <4> QED BY <4>1, UndatedIs, NoDateFacts
    <3>4. \A i \in Alarms : Stands(i)'
      BY <3>1, <3>2 DEF Stands
    <3> QED BY <2>0, <3>1, <3>2, <3>3, <3>4 DEF StoreInv, StoreAgrees
  <2> QED BY <2>1, <2>2
<1>3. ASSUME NEW t \in Settable, SetTime(t) PROVE StoreInv'
  <2>1. tab' = Dated(tab, mapSw, t) /\ store' = store /\ map' = map /\ mapSw' = mapSw
        /\ job' = Job("time", 0) /\ job.step = "idle"
    BY <1>3 DEF SetTime, Free
  <2>2. \A j \in Alarms : Undated(tab'[j]) = Undated(tab[j]) /\ tab'[j].sw = tab[j].sw
    BY <1>0, <2>1, DatedFacts
  <2>3. job'.step = "arm"
    BY <2>1 DEF Job
  <2> QED BY <2>1, <2>2, <2>3, NoAlarmChanges
<1>4. ASSUME NEW i \in Alarms, NEW sw \in BOOLEAN, NEW mode \in Modes, NEW min \in Minutes, AlarmAdd(i, sw, mode, min)
      PROVE  StoreInv'
  <2> DEFINE new == [sw |-> sw, mode |-> mode, min |-> min, date |-> NoDate]
             put == IF sw THEN [new EXCEPT !.date = RealDate(new, clock)] ELSE new
  <2>1. put.sw = sw
    OBVIOUS
  <2>2. /\ tab' = [tab EXCEPT ![i] = put] /\ map' = map \cup {i}
        /\ mapSw' = (IF sw THEN mapSw \cup {i} ELSE mapSw \ {i}) /\ job' = Job("alarm", i)
        /\ store' = store /\ job.step = "idle"
    BY <1>4 DEF AlarmAdd, Free
  <2> HIDE DEF put
  <2>3. \A j \in Alarms : tab'[j] = IF j = i THEN put ELSE tab[j]
    BY <1>0, <2>2
  <2>4. mapSw = {j \in map : tab[j].sw}
    BY <2>2 DEF StoreInv, StoreAgrees
  <2>5. mapSw' = {j \in map' : tab'[j].sw}
    BY <1>0, <2>1, <2>2, <2>3, <2>4
  <2> QED BY <2>2, <2>3, <2>5, OneAlarm
<1>5. ASSUME NEW i \in Alarms, AlarmDelete(i) PROVE StoreInv'
  <2> DEFINE put == [Undated(tab[i]) EXCEPT !.sw = FALSE]
  <2>1. /\ tab' = [tab EXCEPT ![i] = put] /\ map' = map \ {i}
        /\ mapSw' = mapSw \ {i} /\ job' = Job("alarm", i)
        /\ store' = store /\ job.step = "idle"
    BY <1>5 DEF AlarmDelete, Free
  <2> HIDE DEF put
  <2>2. \A j \in Alarms : tab'[j] = IF j = i THEN put ELSE tab[j]
    BY <1>0, <2>1
  <2>3. mapSw = {j \in map : tab[j].sw}
    BY <2>1 DEF StoreInv, StoreAgrees
  <2>4. mapSw' = {j \in map' : tab'[j].sw}
    BY <1>0, <2>1, <2>2, <2>3
  <2> QED BY <2>1, <2>2, <2>4, OneAlarm
<1>6. CASE AlarmEvent
  <2>1. tab' = Dated(tab, active, clock) /\ store' = store /\ map' = map /\ mapSw' = mapSw
        /\ job' = Job("event", 0) /\ job.step = "idle"
    BY <1>6 DEF AlarmEvent, Free
  <2>2. \A j \in Alarms : Undated(tab'[j]) = Undated(tab[j]) /\ tab'[j].sw = tab[j].sw
    BY <1>0, <2>1, DatedFacts
  <2>3. job'.step = "arm"
    BY <2>1 DEF Job
  <2> QED BY <2>1, <2>2, <2>3, NoAlarmChanges
<1>7. CASE Arm
  <2>1. /\ job.step = "arm" /\ store' = store /\ tab' = tab /\ map' = map /\ mapSw' = mapSw
        /\ job' = [job EXCEPT !.step = StepAfter(job)]
    BY <1>7 DEF Arm
  <2>2. /\ job'.kind = job.kind /\ job'.index = job.index /\ job'.step # "off"
        /\ job.kind = "alarm" => job'.step = "record"
        /\ job.kind # "alarm" => job'.step \in {"mask", "idle"}
    BY <1>0, <2>1 DEF StepAfter, Jobs
  <2>3. \A j \in Alarms : BeingWritten(j)' \/ Stands(j)'
    <3>1. \A j \in Alarms : BeingWritten(j) \/ Stands(j)
      BY <2>1 DEF StoreInv, StoreAgrees
    <3>2. \A j \in Alarms : BeingWritten(j) => BeingWritten(j)'
      BY <2>2 DEF BeingWritten
    <3>3. \A j \in Alarms : Stands(j) => Stands(j)'
      BY <2>1 DEF Stands
    <3> QED BY <3>1, <3>2, <3>3
  <2> QED BY <2>1, <2>2, <2>3 DEF StoreInv, StoreAgrees
<1>8. CASE WriteRecord
  <2>1. /\ job.step = "record" /\ tab' = tab /\ map' = map /\ mapSw' = mapSw
        /\ job' = [job EXCEPT !.step = StepAfter(job)] /\ job.kind = "alarm" /\ job.index \in Alarms
    BY <1>0, <1>8 DEF WriteRecord, StoreInv, Jobs
  <2>2. job'.kind = "alarm" /\ job'.index = job.index /\ job'.step = "mask"
    BY <1>0, <2>1 DEF StepAfter, Jobs
  <2>3. /\ store'.map = store.map
        /\ \A j \in Alarms : store'.rec[j] = IF j = job.index THEN Undated(tab[j]) ELSE store.rec[j]
    BY <1>0, <1>8, <2>1 DEF WriteRecord, Stores
  <2>4. \A j \in Alarms : BeingWritten(j)' \/ Stands(j)'
    <3>1. \A j \in Alarms : BeingWritten(j) \/ Stands(j)
      BY <2>1 DEF StoreInv, StoreAgrees
    <3>2. \A j \in Alarms : j = job.index => BeingWritten(j)'
      BY <2>2 DEF BeingWritten
    <3>3. \A j \in Alarms : j # job.index => Stands(j) /\ ~BeingWritten(j)
      BY <3>1 DEF BeingWritten
    <3>4. \A j \in Alarms : j # job.index => Stands(j)'
      BY <2>1, <2>3, <3>3 DEF Stands
    <3> QED BY <3>2, <3>4
  <2>5. \A j \in Alarms : Undated(store'.rec[j]) = store'.rec[j]
    <3>1. \A j \in Alarms : tab[j] \in Alarm
      BY <1>0
    <3> QED BY <2>3, <3>1, UndatedFacts DEF StoreInv
  <2>6. store'.rec[job'.index] = Undated(tab'[job'.index])
    BY <2>1, <2>2, <2>3
  <2>7. mapSw' = {j \in map' : tab'[j].sw}
    BY <2>1 DEF StoreInv, StoreAgrees
  <2> QED BY <2>2, <2>4, <2>5, <2>6, <2>7 DEF StoreInv, StoreAgrees
<1>9. CASE WriteMask
  <2>1. /\ job.step = "mask" /\ tab' = tab /\ map' = map /\ mapSw' = mapSw
        /\ job' = [job EXCEPT !.step = StepAfter(job)]
    BY <1>9 DEF WriteMask
  <2>2. job'.step \in {"ring", "idle"}
    BY <1>0, <2>1 DEF StepAfter, Jobs
  <2>3. store'.map = map /\ store'.rec = store.rec
    BY <1>0, <1>9 DEF WriteMask, Stores
  <2>4. ASSUME NEW j \in Alarms PROVE Stands(j)'
    <3>1. CASE BeingWritten(j)
      BY <2>1, <2>3, <3>1 DEF Stands, BeingWritten, StoreInv
    <3>2. CASE Stands(j)
      BY <2>1, <2>3, <3>2 DEF Stands
    <3> QED BY <2>1, <3>1, <3>2 DEF StoreInv, StoreAgrees
  <2>5. mapSw' = {j \in map' : tab'[j].sw}
    BY <2>1 DEF StoreInv, StoreAgrees
  <2> QED BY <2>2, <2>3, <2>4, <2>5 DEF StoreInv, StoreAgrees
<1>10. CASE Ring
  <2>1. /\ job.step = "ring" /\ store' = store /\ tab' = tab /\ map' = map /\ mapSw' = mapSw
        /\ job' = [job EXCEPT !.step = StepAfter(job)]
    BY <1>10 DEF Ring
  <2>2. job'.step = "idle"
    BY <1>0, <2>1 DEF StepAfter, Jobs
  <2>3. \A j \in Alarms : Stands(j)
    BY <2>1 DEF StoreInv, StoreAgrees, BeingWritten
  <2>4. \A j \in Alarms : Stands(j)'
    BY <2>1, <2>3 DEF Stands
  <2>5. mapSw' = {j \in map' : tab'[j].sw}
    BY <2>1 DEF StoreInv, StoreAgrees
  <2> QED BY <2>1, <2>2, <2>4, <2>5 DEF StoreInv, StoreAgrees
<1>11. CASE UNCHANGED <<tab, map, mapSw, store, job>>
  <2>1. \A j \in Alarms : (BeingWritten(j) => BeingWritten(j)') /\ (Stands(j) => Stands(j)')
    BY <1>11 DEF BeingWritten, Stands
  <2> QED BY <1>11, <2>1 DEF StoreInv, StoreAgrees
<1>12. Tick \/ SwitchTask \/ TaskStart \/ RingTimer \/ KeyStop \/ UNCHANGED vars
       => UNCHANGED <<tab, map, mapSw, store, job>>
  BY DEF Tick, SwitchTask, TaskStart, RingTimer, KeyStop, vars
<1> QED BY <1>1, <1>2, <1>3, <1>4, <1>5, <1>6, <1>7, <1>8, <1>9, <1>10, <1>11, <1>12 DEF Next

\* A restart at any moment reads the settings the user made, but for those
\* of the one alarm whose writing it cut off.
THEOREM StoreAgreesAlways == Spec => []StoreAgrees
<1>1. Init => TypeOK /\ StoreInv
  BY TypeInit, StoreInit
<1>2. TypeOK /\ StoreInv /\ [Next]_vars => TypeOK' /\ StoreInv'
  BY TypeNext, StoreNext
<1>3. StoreInv => StoreAgrees
  BY DEF StoreInv
<1> QED BY <1>1, <1>2, <1>3, PTL DEF Spec

-----------------------------------------------------------------------------
(***************************************************************************)
(* The register                                                            *)
(***************************************************************************)

\* The register holds the earliest of the alarms that are on, and
\* active_map all that are due then.
ArmedIsEarliest ==
  job.step \notin {"off", "arm"} =>
    /\ reg.on <=> mapSw # {}
    /\ mapSw # {} => active # {}
    /\ active = Earliest
    /\ \A i \in active : reg.date = tab[i].date /\ reg.min = tab[i].min

LEMMA SameTime ==
  ASSUME NEW a \in Alarm, NEW b \in Alarm, ~Earlier(a, b), ~Earlier(b, a)
  PROVE  a.date = b.date /\ a.min = b.min
<1> DEFINE x == a.date  y == b.date
<1>1. x \in Date \cup {NoDate} /\ y \in Date \cup {NoDate} /\ a.min \in Int /\ b.min \in Int
  BY ConstantsOK DEF Alarm, Minutes
<1>2. /\ ~DateBefore(x, y) /\ ~DateBefore(y, x)
      /\ x = y => ~(a.min < b.min) /\ ~(b.min < a.min)
  BY DEF Earlier
<1> HIDE DEF x, y
<1>3. ASSUME NEW d \in Date \cup {NoDate}
      PROVE  /\ d.year \in Int /\ d.month \in Int /\ d.day \in Int
             /\ d = [year |-> d.year, month |-> d.month, day |-> d.day]
  BY DEF Date, NoDate
<1>4. x.year = y.year /\ x.month = y.month /\ x.day = y.day
  BY <1>1, <1>2, <1>3 DEF DateBefore
<1>5. x = y
  BY <1>1, <1>3, <1>4
<1> QED BY <1>1, <1>2, <1>5 DEF x, y

LEMMA ArmedNext ==
  ASSUME TypeOK, StoreAgrees, ArmedIsEarliest, [Next]_vars PROVE ArmedIsEarliest'
<1> USE DEF table, modes, ringer
<1>1. CASE Arm
  <2>1. /\ job.step = "arm" /\ active' = Earliest /\ tab' = tab /\ mapSw' = mapSw
        /\ mapSw = {} => reg' = NotArmed
        /\ mapSw # {} => \E i \in Earliest :
             reg' = [date |-> tab[i].date, min |-> tab[i].min, on |-> tab[i].sw]
    BY <1>1 DEF Arm
  <2>2. Earliest' = Earliest
    BY <2>1 DEF Earliest
  <2>3. CASE mapSw = {}
    <3>1. Earliest = {}
      BY <2>3 DEF Earliest
    <3>2. ~reg'.on
      BY <2>1, <2>3 DEF NotArmed
    <3> QED BY <2>1, <2>2, <2>3, <3>1, <3>2 DEF ArmedIsEarliest
  <2>4. CASE mapSw # {}
    <3>1. PICK i \in Earliest : reg' = [date |-> tab[i].date, min |-> tab[i].min, on |-> tab[i].sw]
      BY <2>1, <2>4
    <3>2. tab[i].sw
      BY <2>1 DEF Earliest, StoreAgrees
    <3>3. ASSUME NEW j \in Earliest PROVE tab[j].date = tab[i].date /\ tab[j].min = tab[i].min
      <4>1. tab[i] \in Alarm /\ tab[j] \in Alarm
        BY DEF Earliest, TypeOK
      <4>2. ~Earlier(tab[i], tab[j]) /\ ~Earlier(tab[j], tab[i])
        BY DEF Earliest
      <4> QED BY <4>1, <4>2, SameTime
    <3>4. reg'.date = tab[i].date /\ reg'.min = tab[i].min /\ reg'.on
      BY <3>1, <3>2
    <3> QED BY <2>1, <2>2, <2>4, <3>3, <3>4 DEF ArmedIsEarliest
  <2> QED BY <2>3, <2>4
<1>2. CASE job'.step \in {"off", "arm"}
  BY <1>2 DEF ArmedIsEarliest
<1>3. CASE job.step \notin {"off", "arm"} /\ UNCHANGED <<reg, tab, mapSw, active>>
  <2>1. Earliest' = Earliest
    BY <1>3 DEF Earliest
  <2> QED BY <1>3, <2>1 DEF ArmedIsEarliest
<1>4. ASSUME WriteRecord \/ WriteMask \/ Ring \/ TaskStart \/ SwitchTask
      PROVE  job.step \notin {"off", "arm"} /\ UNCHANGED <<reg, tab, mapSw, active>>
  BY <1>4 DEF WriteRecord, WriteMask, Ring, TaskStart, SwitchTask, Free
<1>5. ASSUME Tick \/ RingTimer \/ KeyStop \/ UNCHANGED vars
      PROVE  job' = job /\ UNCHANGED <<reg, tab, mapSw, active>>
  BY <1>5 DEF Tick, RingTimer, KeyStop, vars
<1>6. CASE Restart
  <2>1. job'.step = "off"
    BY <1>6 DEF Restart, Idle
  <2> QED BY <2>1, <1>2
<1>7. ASSUME \E kind, i : job' = Job(kind, i) PROVE job'.step = "arm"
  BY <1>7 DEF Job
<1>8. ASSUME Boot \/ AlarmEvent PROVE \E kind, i : job' = Job(kind, i)
  BY <1>8 DEF Boot, AlarmEvent
<1>9. ASSUME \E t \in Settable : SetTime(t) PROVE \E kind, i : job' = Job(kind, i)
  BY <1>9 DEF SetTime
<1>10. ASSUME NEW i \in Alarms, AlarmDelete(i) PROVE \E kind, j : job' = Job(kind, j)
  BY <1>10 DEF AlarmDelete
<1>11. ASSUME NEW i \in Alarms, NEW sw \in BOOLEAN, NEW mode \in Modes, NEW m \in Minutes, AlarmAdd(i, sw, mode, m)
       PROVE  \E kind, j : job' = Job(kind, j)
  BY <1>11 DEF AlarmAdd
<1> QED BY <1>1, <1>2, <1>3, <1>4, <1>5, <1>6, <1>7, <1>8, <1>9, <1>10, <1>11 DEF Next

\* Between operations the register holds the earliest alarm, whatever the
\* order in which alarms are set, deleted, rung and read back
\* (__alarm_get_the_earliest).
THEOREM EarliestArmed == Spec => []ArmedIsEarliest
<1>1. Init => TypeOK /\ StoreInv /\ ArmedIsEarliest
  <2>1. Init => job.step = "off"
    BY DEF Init, Idle
  <2> QED BY <2>1, TypeInit, StoreInit DEF ArmedIsEarliest
<1>2. TypeOK /\ StoreInv /\ ArmedIsEarliest /\ [Next]_vars => TypeOK' /\ StoreInv' /\ ArmedIsEarliest'
  BY TypeNext, StoreNext, ArmedNext DEF StoreInv
<1> QED BY <1>1, <1>2, PTL DEF Spec

-----------------------------------------------------------------------------
(***************************************************************************)
(* Ringing                                                                 *)
(***************************************************************************)

RingTimed == ring > 0 => timers > 0

\* While an alarm rings a timeout of __alarm_ring_play is pending, which
\* will end it, however keys, modes, alarms and restarts come in between.
THEOREM RingIsTimed == Spec => []RingTimed
<1>1. Init => TypeOK /\ RingTimed
  BY TypeInit DEF Init, RingTimed
<1>2. TypeOK /\ RingTimed /\ [Next]_vars => RingTimed'
  <2> SUFFICES ASSUME TypeOK, RingTimed, [Next]_vars PROVE RingTimed'
    OBVIOUS
  <2>1. ring \in Nat /\ timers \in Nat
    BY DEF TypeOK
  <2>2. CASE UNCHANGED <<ring, timers>>
    BY <2>2 DEF RingTimed
  <2>3. CASE ring' = 0
    BY <2>3 DEF RingTimed
  <2>4. CASE RingStart
    BY <2>1, <2>4 DEF RingStart, RingTimed
  <2>5. CASE RingTimer
    BY <2>1, <2>5 DEF RingTimer, AlarmStop, RingTimed
  <2>6. ASSUME Ring \/ TaskStart \/ Restart \/ KeyStop
        PROVE  RingStart \/ UNCHANGED <<ring, timers>> \/ ring' = 0
    BY <2>6 DEF Ring, TaskStart, Restart, KeyStop, AlarmStop, ringer
  <2>7. ASSUME \/ Boot \/ AlarmEvent \/ Arm \/ WriteRecord \/ WriteMask \/ Tick \/ SwitchTask
               \/ \E t \in Settable : SetTime(t)
               \/ \E i \in Alarms, sw \in BOOLEAN, mode \in Modes, m \in Minutes : AlarmAdd(i, sw, mode, m)
               \/ \E i \in Alarms : AlarmDelete(i)
               \/ UNCHANGED vars
        PROVE  UNCHANGED <<ring, timers>>
    BY <2>7 DEF Boot, AlarmEvent, Arm, WriteRecord, WriteMask, Tick, SwitchTask, SetTime, AlarmAdd,
                AlarmDelete, vars, ringer
  <2> QED BY <2>2, <2>3, <2>4, <2>5, <2>6, <2>7 DEF Next
<1> QED BY <1>1, <1>2, TypeNext, PTL DEF Spec

-----------------------------------------------------------------------------
(***************************************************************************)
(* The dates of the table                                                  *)
(***************************************************************************)

\* A day the clock may show, so that the days counted on from it are there.
Soon(d) == Served(d) /\ (d.year < 2099 \/ d.month = 1)

\* Whether an alarm is for a day; the first day it may ring on from now; its
\* date is the first such day; its time is now.
Calls(a, d) == a.mode \in AnyDay \/ TrueWeekday(d) \in a.mode
FirstDay(a, now) == IF a.min > now.min THEN now.date ELSE Tomorrow(now.date)
Comes(a, now) ==
  /\ RealDay(a.date) /\ Calls(a, a.date) /\ ~DateBefore(a.date, FirstDay(a, now))
  /\ \A e : RealDay(e) /\ ~DateBefore(e, FirstDay(a, now)) /\ DateBefore(e, a.date) => ~Calls(a, e)
IsNow(a, now) == a.date = now.date /\ a.min = now.min

LEMMA SoonDays ==
  ASSUME NEW d, Soon(d)
  PROVE  /\ HasWeek(d) /\ HasNext(d) /\ HasWeek(Tomorrow(d)) /\ Tomorrow(d) = NextFewDay(d, 1)
         /\ d.year < 2099 => Soon(Tomorrow(d))
<1> DEFINE t == Tomorrow(d)
<1>1. /\ HasWeek(d) /\ HasNext(d) /\ d.year \in 2019 .. 2099 /\ d.month \in 1 .. 12
      /\ d.year < 2099 \/ d.month = 1
  <2>1. d.year \in 2019 .. 2099 /\ d.month \in 1 .. 12 /\ Served(d) /\ (d.year < 2099 \/ d.month = 1)
    BY ServedYears DEF Soon
  <2> QED BY <2>1 DEF HasWeek, HasNext
<1>2. Served(t)
  BY <1>1, TomorrowServed
<1>3. (t.year < 2099 \/ t.month < 11) /\ (d.year < 2099 => t.year < 2099 \/ t.month = 1)
  <2>1. CASE t = [year |-> d.year, month |-> d.month, day |-> d.day + 1]
    <3>1. t.year = d.year /\ t.month = d.month
      BY <2>1
    <3> HIDE DEF t
    <3> QED BY <1>1, <3>1
  <2>2. CASE t = [year |-> d.year, month |-> d.month + 1, day |-> 1]
    <3>1. t.year = d.year /\ t.month = d.month + 1
      BY <2>2
    <3> HIDE DEF t
    <3> QED BY <1>1, <3>1
  <2>3. CASE t = [year |-> d.year + 1, month |-> 1, day |-> 1]
    <3>1. t.month = 1
      BY <2>3
    <3> HIDE DEF t
    <3> QED BY <3>1
  <2> QED BY <1>1, <2>1, <2>2, <2>3, TomorrowIs
<1>4. t = NextFewDay(d, 1)
  <2>1. NextFewDay(d, 0 + 1) = Tomorrow(NextFewDay(d, 0))
    BY <1>1, WeekAhead
  <2>2. NextFewDay(d, 0) = d
    BY DEF NextFewDay
  <2> QED BY <2>1, <2>2
<1> QED BY <1>1, <1>2, <1>3, <1>4 DEF HasWeek, Soon

\* alarm_calc_real_time_by_index gives the first day the alarm is for.
THEOREM FirstDayIsFound ==
  ASSUME NEW a \in Alarm, NEW now \in Time, Soon(now.date)
  PROVE  Comes([a EXCEPT !.date = RealDate(a, now)], now)
<1> DEFINE b == [a EXCEPT !.date = RealDate(a, now)]
           day == FirstDay(a, now)
<1>1. b.mode = a.mode /\ b.min = a.min /\ b.date = RealDate(a, now)
  BY DEF Alarm
<1>2. HasWeek(day)
  BY SoonDays DEF FirstDay
<1>3. RealDate(a, now) = IF a.mode \in AnyDay THEN day
                         ELSE NextFewDay(day, DaysAhead(a.mode, Weekday(day)))
  <2>1. day = IF a.min > now.min THEN now.date ELSE NextFewDay(now.date, 1)
    BY SoonDays DEF FirstDay
  <2> HIDE DEF day
  <2> QED BY <2>1 DEF RealDate
<1>4. FirstDay(b, now) = day
  BY <1>1 DEF FirstDay
<1>5. RealDay(day) /\ day \in Date
  BY <1>2 DEF HasWeek, Served, RealDay
<1> HIDE DEF b, day
<1>6. CASE a.mode \in AnyDay
  <2>1. ~DateBefore(day, day) /\ b.date = day
    BY <1>1, <1>3, <1>5, <1>6, DateOrder
  <2>2. Calls(b, b.date)
    BY <1>1, <1>6 DEF Calls
  <2> QED BY <1>4, <1>5, <2>1, <2>2 DEF Comes, b
<1>7. CASE a.mode \notin AnyDay
  <2> DEFINE w == TrueWeekday(day)
             n == DaysAhead(a.mode, w)
             on(k) == IF w + k <= 7 THEN w + k ELSE w + k - 7
  <2>1. Weekday(day) = w
    BY <1>2, WeekdayIsRight DEF HasWeek
  <2>2. w \in 1 .. 7 /\ \A k \in 0 .. 6 : TrueWeekday(NextFewDay(day, k)) = on(k)
    BY <1>2, WeekdayAhead
  <2>3. a.mode \in SUBSET (0 .. 7)
    BY DEF Alarm
  <2> HIDE DEF w
  <2>4. n \in 0 .. 6 /\ on(n) \in a.mode /\ \A k \in 0 .. n - 1 : on(k) \notin a.mode
    BY <1>7, <2>2, <2>3, DaysAheadIs
  <2>5. b.date = NextFewDay(day, n)
    BY <1>1, <1>3, <1>7, <2>1
  <2> HIDE DEF n, on
  <2>6. n \in 0 .. 7 /\ \A k \in 0 .. n - 1 : k \in 0 .. 6
    BY <2>4
  <2>7. RealDay(b.date) /\ ~DateBefore(b.date, day)
    BY <1>2, <2>5, <2>6, WeekServed, NotBack DEF HasNext, Served
  <2>8. Calls(b, b.date)
    BY <1>1, <2>2, <2>4, <2>5 DEF Calls
  <2>9. ASSUME NEW e, RealDay(e), ~DateBefore(e, day), DateBefore(e, b.date) PROVE ~Calls(b, e)
    <3>1. PICK j \in 0 .. n - 1 : e = NextFewDay(day, j)
      BY <1>2, <2>5, <2>6, <2>9, DaysUntil
    <3>2. TrueWeekday(e) = on(j) /\ on(j) \notin a.mode
      BY <2>2, <2>4, <2>6, <3>1
    <3> QED BY <1>1, <1>7, <3>2 DEF Calls
  <2> QED BY <1>4, <2>7, <2>8, <2>9 DEF Comes, b
<1> QED BY <1>6, <1>7

LEMMA DatedComes ==
  ASSUME NEW t \in [Alarms -> Alarm], NEW S, NEW now \in Time, Soon(now.date), NEW i \in Alarms, i \in S
  PROVE  Comes(Dated(t, S, now)[i], now)
<1>1. Dated(t, S, now)[i] = [t[i] EXCEPT !.date = RealDate(t[i], now)]
  BY DEF Dated
<1>2. t[i] \in Alarm
  OBVIOUS
<1> DEFINE a == t[i]
<1> HIDE DEF a
<1>3. Comes([a EXCEPT !.date = RealDate(a, now)], now)
  BY <1>2, FirstDayIsFound DEF a
<1> QED BY <1>1, <1>3 DEF a

\* No alarm to come is before one whose time is now.
LEMMA NowIsEarliest ==
  ASSUME NEW a \in Alarm, NEW b \in Alarm, NEW now \in Time, Soon(now.date),
         Comes(a, now) \/ IsNow(a, now), IsNow(b, now)
  PROVE  ~Earlier(a, b)
<1>1. a.min \in Int /\ now.min \in Int /\ now.date \in Date
  BY ConstantsOK DEF Alarm, Time, Minutes
<1>2. b.date = now.date /\ b.min = now.min
  BY DEF IsNow
<1>3. CASE IsNow(a, now)
  BY <1>1, <1>2, <1>3, DateOrder DEF IsNow, Earlier
<1>4. CASE Comes(a, now) /\ a.min > now.min
  <2>1. ~DateBefore(a.date, now.date) /\ ~(a.min < now.min)
    BY <1>1, <1>4 DEF Comes, FirstDay
  <2> QED BY <1>2, <2>1 DEF Earlier
<1>5. CASE Comes(a, now) /\ ~(a.min > now.min)
  <2>1. ~DateBefore(a.date, Tomorrow(now.date)) /\ RealDay(a.date)
    BY <1>5 DEF Comes, FirstDay
  <2>2. DateBefore(now.date, Tomorrow(now.date)) /\ Tomorrow(now.date) \in Date /\ a.date \in Date
    BY <1>1, <2>1, SoonDays, NothingBetween, TomorrowType DEF RealDay
  <2>3. ~DateBefore(a.date, now.date) /\ a.date # now.date
    BY <1>1, <2>1, <2>2, DateOrder
  <2> QED BY <1>2, <2>3 DEF Earlier
<1> QED BY <1>3, <1>4, <1>5

\* When a minute ends the alarms whose time is now are those for the day.
LEMMA MinuteEnds ==
  ASSUME NEW a \in Alarm, NEW now \in Time, NEW next \in Time, Soon(now.date), Soon(next.date),
         Comes(a, now),
         \/ next.date = now.date /\ next.min = now.min + 1
         \/ next.date = Tomorrow(now.date) /\ next.min = 0 /\ a.min <= now.min
  PROVE  /\ Comes(a, next) \/ IsNow(a, next)
         /\ IsNow(a, next) <=> (a.min = next.min /\ Calls(a, next.date))
<1> DEFINE F == FirstDay(a, now)  G == FirstDay(a, next)
<1>1. a.min \in Nat /\ now.min \in Nat /\ next.min \in Nat /\ next.date \in Date
  BY ConstantsOK DEF Alarm, Time, Minutes
<1>2. /\ RealDay(a.date) /\ a.date \in Date /\ Calls(a, a.date) /\ ~DateBefore(a.date, F)
      /\ \A e : RealDay(e) /\ ~DateBefore(e, F) /\ DateBefore(e, a.date) => ~Calls(a, e)
  BY DEF Comes, RealDay
<1>3. CASE a.min # next.min
  <2>2. G = F
    <3>1. CASE next.date = now.date /\ next.min = now.min + 1
      <4>1. (a.min > next.min) <=> (a.min > now.min)
        BY <1>1, <1>3, <3>1
      <4> QED BY <3>1, <4>1 DEF FirstDay
    <3>2. CASE next.date = Tomorrow(now.date) /\ next.min = 0 /\ a.min <= now.min
      <4>1. a.min > next.min /\ ~(a.min > now.min)
        BY <1>1, <1>3, <3>2
      <4> QED BY <3>2, <4>1 DEF FirstDay
    <3> QED BY <3>1, <3>2
  <2> HIDE DEF F, G
  <2>3. Comes(a, next)
    BY <1>2, <2>2 DEF Comes, G
  <2> QED BY <1>3, <2>3 DEF IsNow
<1>4. CASE a.min = next.min
  <2>1. F = next.date /\ G = Tomorrow(next.date)
    <3>1. ~(a.min > next.min)
      BY <1>1, <1>4
    <3>2. CASE next.date = now.date /\ next.min = now.min + 1
      <4>1. a.min > now.min
        BY <1>1, <1>4, <3>2
      <4> QED BY <3>1, <3>2, <4>1 DEF FirstDay
    <3>3. CASE next.date = Tomorrow(now.date) /\ next.min = 0 /\ a.min <= now.min
      <4>1. ~(a.min > now.min)
        BY <1>1, <3>3
      <4> QED BY <3>1, <3>3, <4>1 DEF FirstDay
    <3> QED BY <3>2, <3>3
  <2> HIDE DEF F, G
  <2>2. RealDay(F) /\ F \in Date /\ HasNext(F) /\ G = Tomorrow(F) /\ G \in Date
    BY <1>1, <2>1, SoonDays, TomorrowType DEF HasNext, Served
  <2>3. DateBefore(F, G) /\ \A e : RealDay(e) /\ DateBefore(e, G) => ~DateBefore(F, e)
    BY <2>2, NothingBetween
  <2>4. CASE a.date = F
    <3>1. IsNow(a, next)
      BY <1>4, <2>1, <2>4 DEF IsNow
    <3> QED BY <1>2, <1>4, <2>1, <2>4, <3>1
  <2>5. CASE a.date # F
    <3>1. DateBefore(F, a.date)
      BY <1>2, <2>2, <2>5, DateOrder
    <3>2. ~Calls(a, F) /\ ~IsNow(a, next)
      <4>1. ~DateBefore(F, F)
        BY <2>2, DateOrder
      <4> QED BY <1>2, <2>1, <2>2, <2>5, <3>1, <4>1 DEF IsNow
    <3>3. ~DateBefore(a.date, G)
      BY <1>2, <2>3, <3>1
    <3>4. ASSUME NEW e, RealDay(e), ~DateBefore(e, G), DateBefore(e, a.date) PROVE ~Calls(a, e)
      <4>1. e \in Date
        BY <3>4 DEF RealDay
      <4>2. ~DateBefore(e, F)
        BY <2>2, <2>3, <3>4, <4>1, DateOrder
      <4> QED BY <1>2, <3>4, <4>2
    <3>5. Comes(a, next)
      BY <1>2, <3>3, <3>4 DEF Comes, G
    <3> QED BY <2>1, <3>2, <3>5
  <2> QED BY <2>4, <2>5
<1> QED BY <1>3, <1>4

\* Each alarm that is on has its date, but for those whose minute the clock
\* has reached and whose event is waiting.
DueInv ==
  job.step # "off" => \A i \in mapSw : Comes(tab[i], clock) \/ (IsNow(tab[i], clock) /\ events > 0)

AlarmInv == TypeOK /\ StoreInv /\ ArmedIsEarliest /\ Soon(clock.date) /\ DueInv

\* The clock asks no more than the calendar serves: it runs through days
\* before 2100 on which the day of the week is right.
ServedTimes ==
  /\ \A d \in Days : Served(d) /\ d.year < 2099
  /\ \A t \in Settable : Soon(t.date)
  /\ Soon(Default.date)

\* The next second: of the same minute, or the first of the next one.
LEMMA NextSecondIs ==
  ASSUME TypeOK
  PROVE  /\ NextSecond \in Time /\ clock \in Time
         /\ NextSecond.sec # 0 => NextSecond.date = clock.date /\ NextSecond.min = clock.min
         /\ NextSecond.sec = 0 =>
              \/ NextSecond.date = clock.date /\ NextSecond.min = clock.min + 1
              \/ /\ NextSecond.date = Tomorrow(clock.date) /\ NextSecond.min = 0
                 /\ \A m \in Minutes : m <= clock.min
         /\ NextSecond.date \in {clock.date, Tomorrow(clock.date)}
<1>1. clock \in Time /\ clock.date \in Date /\ clock.min \in Minutes /\ clock.sec \in Seconds
  BY DEF TypeOK, Time
<1>2. NextSecond \in Time
  BY <1>1, NextSecondType
<1>3. clock = [date |-> clock.date, min |-> clock.min, sec |-> clock.sec]
  BY <1>1 DEF Time
<1>4. CASE clock.sec + 1 < SecondsPerMinute
  <2>1. NextSecond = [date |-> clock.date, min |-> clock.min, sec |-> clock.sec + 1]
    BY <1>3, <1>4 DEF NextSecond
  <2>2. clock.sec + 1 # 0
    BY <1>1, ConstantsOK DEF Seconds
  <2> QED BY <1>1, <1>2, <2>1, <2>2
<1>5. CASE ~(clock.sec + 1 < SecondsPerMinute) /\ clock.min + 1 < MinutesPerDay
  <2>1. NextSecond = [date |-> clock.date, min |-> clock.min + 1, sec |-> 0]
    BY <1>3, <1>5 DEF NextSecond
  <2> QED BY <1>1, <1>2, <2>1
<1>6. CASE ~(clock.sec + 1 < SecondsPerMinute) /\ ~(clock.min + 1 < MinutesPerDay)
  <2>1. NextSecond = [date |-> Tomorrow(clock.date), min |-> 0, sec |-> 0]
    BY <1>6 DEF NextSecond
  <2>2. \A m \in Minutes : m <= clock.min
    BY <1>1, <1>6, ConstantsOK DEF Minutes
  <2> QED BY <1>1, <1>2, <2>1, <2>2
<1> QED BY <1>4, <1>5, <1>6

LEMMA SoonNext ==
  ASSUME ServedTimes, TypeOK, Soon(clock.date), [Next]_vars
  PROVE  Soon(clock'.date)
<1>1. CASE Tick
  <2>1. clock.date \in Days /\ clock' = NextSecond
    BY <1>1 DEF Tick
  <2>2. Soon(Tomorrow(clock.date))
    BY <2>1, SoonDays DEF ServedTimes
  <2> QED BY <2>1, <2>2, NextSecondIs
<1>2. CASE clock' = clock
  BY <1>2
<1>3. CASE Restart
  BY <1>3 DEF Restart, ServedTimes
<1>4. ASSUME NEW t \in Settable, SetTime(t) PROVE Soon(clock'.date)
  BY <1>4 DEF SetTime, ServedTimes
<1>5. ASSUME \/ Boot \/ AlarmEvent \/ Arm \/ WriteRecord \/ WriteMask \/ Ring \/ SwitchTask \/ TaskStart
             \/ RingTimer \/ KeyStop
             \/ \E i \in Alarms, sw \in BOOLEAN, mode \in Modes, m \in Minutes : AlarmAdd(i, sw, mode, m)
             \/ \E i \in Alarms : AlarmDelete(i)
             \/ UNCHANGED vars
      PROVE  clock' = clock
  BY <1>5 DEF Boot, AlarmEvent, Arm, WriteRecord, WriteMask, Ring, SwitchTask, TaskStart, RingTimer, KeyStop,
              AlarmAdd, AlarmDelete, vars
<1> QED BY <1>1, <1>2, <1>3, <1>4, <1>5 DEF Next

\* A tick: the alarm that rings is that of the next minute.
LEMMA TickRings ==
  ASSUME Prompt, AlarmInv, Tick, Soon(clock'.date)
  PROVE  /\ DueInv'
         /\ (events' # events) <=> (Due(clock') # {})
         /\ Due(clock') # {} => active = Due(clock')
<1> DEFINE t == NextSecond
           D == {i \in mapSw : IsNow(tab[i], t)}
<1>1. /\ job.step # "off" /\ clock' = t /\ ~ClockWaits /\ job' = job
      /\ tab' = tab /\ map' = map /\ mapSw' = mapSw /\ active' = active
      /\ IF Matches(t) THEN events' = events + 1 ELSE events' = events
  BY DEF Tick, table
<1>2. /\ TypeOK /\ events \in Nat /\ tab \in [Alarms -> Alarm] /\ mapSw \subseteq Alarms
  BY DEF AlarmInv, TypeOK
<1>3. /\ t \in Time /\ clock \in Time /\ Soon(t.date) /\ Soon(clock.date)
      /\ t.sec # 0 => t.date = clock.date /\ t.min = clock.min
      /\ t.sec = 0 => \/ t.date = clock.date /\ t.min = clock.min + 1
                      \/ t.date = Tomorrow(clock.date) /\ t.min = 0 /\ \A m \in Minutes : m <= clock.min
  BY <1>1, <1>2, NextSecondIs DEF AlarmInv
<1>4. \A i \in mapSw : Comes(tab[i], clock) \/ (IsNow(tab[i], clock) /\ events > 0)
  BY <1>1 DEF AlarmInv, DueInv
<1>5. \A i \in mapSw : tab[i] \in Alarm /\ tab[i].min \in Minutes
  BY <1>2 DEF Alarm
<1>6. Due(clock') = {i \in mapSw : t.sec = 0 /\ tab[i].min = t.min /\ Calls(tab[i], t.date)}
  BY <1>1 DEF Due, Calls
<1> HIDE DEF t
<1>7. CASE t.sec # 0
  <2>1. ~Matches(t) /\ Due(clock') = {}
    BY <1>6, <1>7 DEF Matches
  <2>2. events' = events
    BY <1>1, <2>1
  <2>3. ASSUME NEW i \in mapSw PROVE Comes(tab[i], t) \/ (IsNow(tab[i], t) /\ events > 0)
    BY <1>3, <1>4, <1>7 DEF Comes, FirstDay, IsNow
  <2> QED BY <1>1, <2>1, <2>2, <2>3 DEF DueInv
<1>8. CASE t.sec = 0
  <2>1. job.step # "arm" /\ ~(events > 0)
    BY <1>1, <1>8 DEF ClockWaits, t
  <2>2. ASSUME NEW i \in mapSw
        PROVE  /\ Comes(tab[i], t) \/ IsNow(tab[i], t)
               /\ IsNow(tab[i], t) <=> (tab[i].min = t.min /\ Calls(tab[i], t.date))
    <3>1. Comes(tab[i], clock)
      BY <1>4, <2>1
    <3>2. \/ t.date = clock.date /\ t.min = clock.min + 1
          \/ t.date = Tomorrow(clock.date) /\ t.min = 0 /\ tab[i].min <= clock.min
      BY <1>3, <1>5, <1>8
    <3> QED BY <1>3, <1>5, <3>1, <3>2, MinuteEnds
  <2>3. Due(clock') = D
    BY <1>6, <1>8, <2>2
  <2>4. /\ reg.on <=> mapSw # {}
        /\ mapSw # {} => active # {}
        /\ active = Earliest
        /\ \A i \in active : reg.date = tab[i].date /\ reg.min = tab[i].min
    BY <1>1, <2>1 DEF AlarmInv, ArmedIsEarliest
  <2>5. ASSUME D # {} PROVE Earliest = D
    <3>1. ASSUME NEW j \in D, NEW i \in mapSw PROVE ~Earlier(tab[i], tab[j])
      BY <1>3, <1>5, <2>2, NowIsEarliest
    <3>2. D \subseteq Earliest
      BY <3>1 DEF Earliest
    <3>3. ASSUME NEW i \in Earliest PROVE i \in D
      <4>1. PICK j \in D : TRUE
        BY <2>5
      <4>2. i \in mapSw /\ j \in mapSw /\ ~Earlier(tab[i], tab[j]) /\ ~Earlier(tab[j], tab[i])
        BY <3>1 DEF Earliest
      <4>3. tab[i].date = tab[j].date /\ tab[i].min = tab[j].min
        BY <1>5, <4>2, SameTime
      <4> QED BY <4>2, <4>3 DEF IsNow
    <3> QED BY <3>2, <3>3
  <2>6. Matches(t) <=> D # {}
    <3>1. ASSUME Matches(t) PROVE D # {}
      <4>1. reg.on /\ reg.date = t.date /\ reg.min = t.min
        BY <3>1 DEF Matches
      <4>2. PICK i \in active : TRUE
        BY <2>4, <4>1
      <4>3. i \in mapSw /\ tab[i].date = t.date /\ tab[i].min = t.min
        BY <2>4, <4>1 DEF Earliest
      <4> QED BY <4>3 DEF IsNow
    <3>2. ASSUME D # {} PROVE Matches(t)
      <4>1. PICK i \in D : TRUE
        BY <3>2
      <4>2. i \in active /\ i \in mapSw
        BY <2>4, <2>5, <3>2
      <4>3. reg.on /\ reg.date = t.date /\ reg.min = t.min
        BY <2>4, <4>2 DEF IsNow
      <4> QED BY <1>8, <4>3 DEF Matches
    <3> QED BY <3>1, <3>2
  <2> HIDE DEF D
  <2>7. (events' # events) <=> Matches(t)
    <3>1. events + 1 # events
      BY <1>2
    <3> QED BY <1>1, <3>1
  <2>8. ASSUME NEW i \in mapSw PROVE Comes(tab[i], t) \/ (IsNow(tab[i], t) /\ events' > 0)
    <3>1. CASE IsNow(tab[i], t)
      <4>1. Matches(t)
        BY <2>6, <3>1 DEF D
      <4>2. events' = events + 1
        BY <1>1, <4>1
      <4> QED BY <1>2, <3>1, <4>2
    <3> QED BY <2>2, <3>1
  <2> QED BY <1>1, <2>3, <2>4, <2>5, <2>6, <2>7, <2>8 DEF DueInv
<1> QED BY <1>7, <1>8

LEMMA DueNext ==
  ASSUME Prompt, ServedTimes, AlarmInv, [Next]_vars
  PROVE  DueInv'
<1> USE DEF table, modes, ringer
<1>1. /\ TypeOK /\ tab \in [Alarms -> Alarm] /\ mapSw \subseteq Alarms /\ clock \in Time
      /\ Soon(clock.date) /\ events \in Nat
  BY DEF AlarmInv, TypeOK
<1>2. job.step # "off" => \A i \in mapSw : Comes(tab[i], clock) \/ (IsNow(tab[i], clock) /\ events > 0)
  BY DEF AlarmInv, DueInv
<1>3. CASE Tick
  BY <1>1, <1>3, SoonNext, TickRings
<1>4. CASE job'.step = "off"
  BY <1>4 DEF DueInv
<1>5. CASE job.step # "off" /\ UNCHANGED <<tab, mapSw, clock, events>>
  BY <1>2, <1>5 DEF DueInv
<1>6. ASSUME Arm \/ WriteRecord \/ WriteMask \/ Ring \/ TaskStart \/ SwitchTask
      PROVE  job.step # "off" /\ UNCHANGED <<tab, mapSw, clock, events>>
  BY <1>6 DEF Arm, WriteRecord, WriteMask, Ring, TaskStart, SwitchTask, Free
<1>7. ASSUME RingTimer \/ KeyStop \/ UNCHANGED vars
      PROVE  job'.step = "off" \/ (job.step # "off" /\ UNCHANGED <<tab, mapSw, clock, events>>)
  BY <1>7 DEF RingTimer, KeyStop, vars
<1>8. CASE Restart
  BY <1>4, <1>8 DEF Restart, Idle
<1>9. CASE Boot
  <2>1. mapSw' = {} \/ \E read \in [Alarms -> Alarm] : tab' = Dated(read, mapSw', clock) /\ mapSw' \subseteq Alarms
    <3>1. store.rec \in [Alarms -> Alarm] /\ store.map \subseteq Alarms /\ store.sw \subseteq Alarms
      BY <1>1 DEF TypeOK, Stores
    <3>2. [i \in Alarms |-> IF i \in store.map THEN store.rec[i] ELSE NoAlarm] \in [Alarms -> Alarm]
      BY <3>1, NoDateFacts
    <3> QED BY <1>9, <3>1, <3>2 DEF Boot
  <2>2. CASE mapSw' = {}
    BY <2>2 DEF DueInv
  <2>3. CASE \E read \in [Alarms -> Alarm] : tab' = Dated(read, mapSw', clock) /\ mapSw' \subseteq Alarms
    <3>1. PICK read \in [Alarms -> Alarm] : tab' = Dated(read, mapSw', clock) /\ mapSw' \subseteq Alarms
      BY <2>3
    <3>2. ASSUME NEW i \in mapSw' PROVE Comes(tab'[i], clock)
      BY <1>1, <3>1, DatedComes
    <3>3. clock' = clock
      BY <1>9 DEF Boot
    <3> QED BY <3>2, <3>3 DEF DueInv
  <2> QED BY <2>1, <2>2, <2>3
<1>10. ASSUME NEW t \in Settable, SetTime(t) PROVE DueInv'
  <2>1. clock' = t /\ tab' = Dated(tab, mapSw, t) /\ mapSw' = mapSw
    BY <1>10 DEF SetTime
  <2>2. t \in Time /\ Soon(t.date)
    BY ConstantsOK DEF ServedTimes
  <2>3. ASSUME NEW i \in mapSw PROVE Comes(tab'[i], t)
    BY <1>1, <2>1, <2>2, DatedComes
  <2> QED BY <2>1, <2>3 DEF DueInv
<1>11. ASSUME NEW i \in Alarms, NEW sw \in BOOLEAN, NEW mode \in Modes, NEW m \in Minutes, AlarmAdd(i, sw, mode, m)
       PROVE  DueInv'
  <2> DEFINE new == [sw |-> sw, mode |-> mode, min |-> m, date |-> NoDate]
  <2>1. /\ job.step # "off" /\ clock' = clock /\ events' = events
        /\ mapSw' = IF sw THEN mapSw \cup {i} ELSE mapSw \ {i}
        /\ tab' = [tab EXCEPT ![i] = IF sw THEN [new EXCEPT !.date = RealDate(new, clock)] ELSE new]
    BY <1>11 DEF AlarmAdd, Free
  <2>2. new \in Alarm
    BY ConstantsOK DEF Alarm
  <2> HIDE DEF new
  <2>3. Comes([new EXCEPT !.date = RealDate(new, clock)], clock)
    BY <1>1, <2>2, FirstDayIsFound
  <2>4. ASSUME NEW j \in mapSw' PROVE Comes(tab'[j], clock) \/ (IsNow(tab'[j], clock) /\ events > 0)
    <3>1. CASE j = i
      <4>1. sw
        BY <2>1, <2>4, <3>1
      <4>2. tab'[i] = [new EXCEPT !.date = RealDate(new, clock)]
        BY <1>1, <2>1, <4>1
      <4> QED BY <2>3, <3>1, <4>2
    <3>2. CASE j # i
      <4>1. j \in mapSw /\ j \in Alarms
        BY <1>1, <2>1, <2>4, <3>2
      <4>2. tab'[j] = tab[j]
        BY <1>1, <2>1, <3>2, <4>1
      <4> QED BY <1>2, <2>1, <4>1, <4>2
    <3> QED BY <3>1, <3>2
  <2> QED BY <2>1, <2>4 DEF DueInv
<1>12. ASSUME NEW i \in Alarms, AlarmDelete(i) PROVE DueInv'
  <2>1. /\ job.step # "off" /\ clock' = clock /\ events' = events /\ mapSw' = mapSw \ {i}
        /\ tab' = [tab EXCEPT ![i] = [Undated(@) EXCEPT !.sw = FALSE]]
    BY <1>12 DEF AlarmDelete, Free
  <2>2. ASSUME NEW j \in mapSw' PROVE tab'[j] = tab[j] /\ j \in mapSw
    BY <1>1, <2>1
  <2> QED BY <1>2, <2>1, <2>2 DEF DueInv
<1>13. CASE AlarmEvent
  <2>1. /\ job.step = "idle" /\ clock' = clock /\ mapSw' = mapSw /\ tab' = Dated(tab, active, clock)
    BY <1>13 DEF AlarmEvent, Free
  <2>2. active = Earliest
    BY <2>1 DEF AlarmInv, ArmedIsEarliest
  <2>3. ASSUME NEW i \in mapSw PROVE Comes(tab'[i], clock)
    <3>1. i \in Alarms /\ tab[i] \in Alarm
      BY <1>1
    <3>2. CASE i \in active
      BY <1>1, <2>1, <3>1, <3>2, DatedComes
    <3>3. CASE i \notin active
      <4>1. PICK j \in mapSw : Earlier(tab[j], tab[i])
        BY <2>2, <3>3 DEF Earliest
      <4>2. tab[j] \in Alarm /\ (Comes(tab[j], clock) \/ IsNow(tab[j], clock))
        BY <1>1, <1>2, <2>1
      <4>3. ~IsNow(tab[i], clock)
        BY <1>1, <3>1, <4>1, <4>2, NowIsEarliest
      <4>4. Comes(tab[i], clock)
        BY <1>2, <2>1, <4>3
      <4>5. tab'[i] = tab[i]
        BY <2>1, <3>1, <3>3 DEF Dated
      <4> QED BY <4>4, <4>5
    <3> QED BY <3>2, <3>3
  <2> QED BY <2>1, <2>3 DEF DueInv
<1> QED BY <1>3, <1>5, <1>4, <1>6, <1>7, <1>8, <1>9, <1>10, <1>11, <1>12, <1>13 DEF Next

LEMMA AlarmInvHolds ==
  ASSUME Prompt, ServedTimes
  PROVE  Spec => []AlarmInv
<1>1. Init => AlarmInv
  <2> SUFFICES ASSUME Init PROVE AlarmInv
    OBVIOUS
  <2>1. job.step = "off" /\ Soon(clock.date)
    BY DEF Init, Idle, ServedTimes
  <2> QED BY <2>1, TypeInit, StoreInit DEF AlarmInv, ArmedIsEarliest, DueInv
<1>2. AlarmInv /\ [Next]_vars => AlarmInv'
  <2> SUFFICES ASSUME AlarmInv, [Next]_vars PROVE AlarmInv'
    OBVIOUS
  <2>1. TypeOK /\ StoreInv /\ StoreAgrees /\ ArmedIsEarliest /\ Soon(clock.date)
    BY DEF AlarmInv, StoreInv
  <2> QED BY <2>1, TypeNext, StoreNext, ArmedNext, SoonNext, DueNext DEF AlarmInv
<1> QED BY <1>1, <1>2, PTL DEF Spec

\* A tick has the alarms ring that are due then, all of them and no others,
\* for any number of alarms of any days, on every day from March 2019 to the
\* end of 2098, if the task keeps up with the clock (set_virtual_rtc_tick,
\* __alarm_get_the_earliest, alarm_calc_real_time_by_index).
THEOREM DueAlarmsDoRing ==
  ASSUME Prompt, ServedTimes
  PROVE  Spec => DueAlarmsRing
<1> DEFINE Rings == LET due == Due(clock') IN
                    /\ (events' # events) <=> (due # {})
                    /\ due # {} => active = due
<1>1. AlarmInv /\ [Next]_vars => [Tick => Rings]_vars
  <2> SUFFICES ASSUME AlarmInv, [Next]_vars, Tick PROVE Rings
    OBVIOUS
  <2>1. Soon(clock'.date)
    BY SoonNext DEF AlarmInv
  <2> QED BY <2>1, TickRings
<1> QED BY <1>1, AlarmInvHolds, PTL DEF Spec, DueAlarmsRing

-----------------------------------------------------------------------------
(***************************************************************************)
(* Mode switching                                                          *)
(*                                                                         *)
(* Queues: what taking a message, posting one and dropping some do to what *)
(* waits in them.                                                          *)
(***************************************************************************)
Absent(q, m) == \A i \in 1 .. Len(q) : q[i] # m
Once(q, m) == \A i, j \in 1 .. Len(q) : (q[i] = m /\ q[j] = m) => (i = j)
NotBefore(q, m, n) ==
    \A i, j \in 1 .. Len(q) : (q[i] = m /\ q[j] = n) => (j < i)

\* r is q without some of its messages, in the order of q.
Part(r, q, ms) ==
    \E f \in [1 .. Len(r) -> 1 .. Len(q)] :
      /\ \A i \in 1 .. Len(r) : r[i] = q[f[i]] /\ r[i] \notin ms
      /\ \A i, j \in 1 .. Len(r) : i < j => f[i] < f[j]

LEMMA KeptIsPart ==
  ASSUME NEW M, NEW q \in Seq(M), NEW ms
  PROVE  Kept(q, ms) \in Seq(M) /\ Part(Kept(q, ms), q, ms)
<1> DEFINE n == Len(q)
           val(f, i) == CASE i = 0 -> <<>>
                          [] i # 0 /\ q[i] \in ms -> f[i - 1]
                          [] OTHER -> Append(f[i - 1], q[i])
           defined(k) == \E f : f = [i \in 0 .. k |-> val(f, i)]
           undefined == {k \in 0 .. n : ~defined(k)}
<1>1. n \in Nat
  OBVIOUS
<1>2. undefined = {}
  <2> SUFFICES ASSUME undefined # {} PROVE FALSE
    OBVIOUS
  <2>1. PICK k \in undefined : \A j \in undefined : k <= j
    <3>1. undefined \in SUBSET Nat
      BY <1>1
    <3> QED BY <3>1, LeastNatural
  <2>2. CASE k = 0
    <3> DEFINE f == [i \in 0 .. k |-> <<>>]
    <3>1. f = [i \in 0 .. k |-> val(f, i)]
      BY <2>2
    <3> QED BY <2>1, <3>1
  <2>3. CASE k # 0
    <3>1. k \in Nat /\ k <= n /\ k - 1 \in 0 .. n /\ ~(k <= k - 1)
      BY <1>1, <2>1, <2>3
    <3>2. k - 1 \notin undefined
      BY <2>1, <3>1
    <3>3. defined(k - 1)
      BY <3>1, <3>2
    <3>4. PICK f : f = [i \in 0 .. (k - 1) |-> val(f, i)]
      BY <3>3
    <3> DEFINE g == [i \in 0 .. k |-> IF i = k THEN val(f, k) ELSE f[i]]
    <3>5. \A i \in 0 .. k : g[i] = val(g, i)
      <4> SUFFICES ASSUME NEW i \in 0 .. k PROVE g[i] = val(g, i)
        OBVIOUS
      <4>1. i = 0 \/ (i # 0 /\ i - 1 \in 0 .. k /\ i - 1 # k)
        BY <3>1
      <4>2. i # 0 => g[i - 1] = f[i - 1]
        BY <4>1
      <4>3. i # k => i \in 0 .. (k - 1)
        BY <3>1
      <4>4. i # k => f[i] = val(f, i)
        BY <3>4, <4>3
      <4>5. g[i] = val(f, i)
        BY <4>4
      <4> QED BY <4>2, <4>5
    <3>6. g = [i \in 0 .. k |-> val(g, i)]
      BY <3>5
    <3>7. defined(k)
      BY <3>6
    <3> QED BY <2>1, <3>7
  <2> QED BY <2>2, <2>3
<1>3. defined(n)
  <2> HIDE DEF defined
  <2>1. n \in 0 .. n /\ n \notin undefined
    BY <1>1, <1>2
  <2> QED BY <2>1
<1> DEFINE h == CHOOSE f : f = [i \in 0 .. n |-> val(f, i)]
<1>4. h = [i \in 0 .. n |-> val(h, i)]
  BY <1>3
<1>5. Kept(q, ms) = h[n]
  BY DEF Kept
<1> HIDE DEF h
<1>6. \A i \in 0 .. n : h[i] = val(h, i)
  BY <1>4
<1> DEFINE good(k) ==
      /\ h[k] \in Seq(M)
      /\ \E f \in [1 .. Len(h[k]) -> 1 .. k] :
           /\ \A i \in 1 .. Len(h[k]) : h[k][i] = q[f[i]] /\ h[k][i] \notin ms
           /\ \A i, j \in 1 .. Len(h[k]) : i < j => f[i] < f[j]
           bad == {k \in 0 .. n : ~good(k)}
<1>7. bad = {}
  <2> SUFFICES ASSUME bad # {} PROVE FALSE
    OBVIOUS
  <2>1. PICK k \in bad : \A j \in bad : k <= j
    <3>1. bad \in SUBSET Nat
      BY <1>1
    <3> HIDE DEF bad
    <3> QED BY <3>1, LeastNatural
  <2>2. CASE k = 0
    <3>1. h[k] = <<>>
      BY <1>1, <1>6, <2>2
    <3>2. <<>> \in Seq(M) /\ Len(<<>>) = 0
      OBVIOUS
    <3>3. [i \in {} |-> 1] \in [1 .. 0 -> 1 .. 0]
      OBVIOUS
    <3>4. good(k)
      BY <2>2, <3>1, <3>2, <3>3
    <3> HIDE DEF good
    <3> QED BY <2>1, <3>4
  <2>3. CASE k # 0
    <3>1. k \in 1 .. n /\ k - 1 \in 0 .. n /\ ~(k <= k - 1) /\ k \in 0 .. n
      BY <1>1, <2>1, <2>3
    <3>2. good(k - 1)
      <4> HIDE DEF good
      <4> QED BY <2>1, <3>1
    <3>3. PICK f \in [1 .. Len(h[k - 1]) -> 1 .. (k - 1)] :
            /\ \A i \in 1 .. Len(h[k - 1]) :
                 h[k - 1][i] = q[f[i]] /\ h[k - 1][i] \notin ms
            /\ \A i, j \in 1 .. Len(h[k - 1]) : i < j => f[i] < f[j]
      BY <3>2
    <3>4. h[k - 1] \in Seq(M) /\ Len(h[k - 1]) \in Nat
      BY <3>2
    <3>5. CASE q[k] \in ms
      <4>1. h[k] = h[k - 1]
        BY <1>6, <3>1, <3>5, <2>3
      <4>2. f \in [1 .. Len(h[k]) -> 1 .. k]
        <5>1. 1 .. (k - 1) \subseteq 1 .. k
          BY <3>1
        <5> QED BY <4>1, <5>1
      <4>3. good(k)
        BY <4>1, <4>2, <3>3, <3>4
      <4> HIDE DEF good
      <4> QED BY <2>1, <4>3
    <3>6. CASE q[k] \notin ms
      <4> DEFINE r == h[k - 1]
                 l == Len(r)
                 g == [i \in 1 .. (l + 1) |-> IF i = l + 1 THEN k ELSE f[i]]
      <4>1. h[k] = Append(r, q[k])
        BY <1>6, <3>1, <3>6, <2>3
      <4>2. q[k] \in M
        BY <3>1
      <4>3. /\ h[k] \in Seq(M) /\ Len(h[k]) = l + 1
            /\ h[k][l + 1] = q[k] /\ \A i \in 1 .. l : h[k][i] = r[i]
        BY <4>1, <4>2, <3>4
      <4>4. g \in [1 .. (l + 1) -> 1 .. k]
        <5>1. \A i \in 1 .. l : f[i] \in 1 .. (k - 1)
          BY <3>3
        <5>2. \A i \in 1 .. (l + 1) : i # l + 1 => i \in 1 .. l
          BY <3>4
        <5>3. 1 .. (k - 1) \subseteq 1 .. k /\ k \in 1 .. k
          BY <3>1
        <5> QED BY <5>1, <5>2, <5>3
      <4>5. \A i \in 1 .. (l + 1) : h[k][i] = q[g[i]] /\ h[k][i] \notin ms
        <5>1. \A i \in 1 .. (l + 1) : i # l + 1 => i \in 1 .. l
          BY <3>4
        <5> QED BY <5>1, <4>3, <3>3, <3>6
      <4>6. \A i, j \in 1 .. (l + 1) : i < j => g[i] < g[j]
        <5> SUFFICES ASSUME NEW i \in 1 .. (l + 1), NEW j \in 1 .. (l + 1), i < j
                     PROVE  g[i] < g[j]
          OBVIOUS
        <5>0. l \in Nat /\ f \in [1 .. l -> 1 .. (k - 1)]
          BY <3>3, <3>4
        <5>1. i \in 1 .. l /\ g[i] = f[i] /\ f[i] \in 1 .. (k - 1)
          <6>1. i \in 1 .. l /\ i # l + 1
            BY <5>0
          <6>2. f[i] \in 1 .. (k - 1)
            BY <5>0, <6>1
          <6> QED BY <6>1, <6>2
        <5>2. CASE j = l + 1
          BY <5>1, <5>2, <3>1
        <5>3. CASE j # l + 1
          <6>1. j \in 1 .. l
            BY <5>3, <5>0
          <6>2. g[j] = f[j]
            BY <5>3
          <6> QED BY <5>1, <6>1, <6>2, <3>3
        <5> QED BY <5>2, <5>3
      <4>7. good(k)
        <5> HIDE DEF g
        <5> QED BY <4>3, <4>4, <4>5, <4>6
      <4> HIDE DEF good
      <4> QED BY <2>1, <4>7
    <3> QED BY <3>5, <3>6
  <2> QED BY <2>2, <2>3
<1>8. good(n)
  <2> HIDE DEF good
  <2> QED BY <1>1, <1>7
<1> QED BY <1>5, <1>8 DEF Part

LEMMA PartQueue ==
  ASSUME NEW M, NEW q \in Seq(M), NEW r \in Seq(M), NEW ms, Part(r, q, ms)
  PROVE  /\ \A m : Absent(q, m) => Absent(r, m)
         /\ \A m \in ms : Absent(r, m)
         /\ \A m : Once(q, m) => Once(r, m)
         /\ \A m, n : NotBefore(q, m, n) => NotBefore(r, m, n)
<1>1. PICK f \in [1 .. Len(r) -> 1 .. Len(q)] :
        /\ \A i \in 1 .. Len(r) : r[i] = q[f[i]] /\ r[i] \notin ms
        /\ \A i, j \in 1 .. Len(r) : i < j => f[i] < f[j]
  BY DEF Part
<1>2. \A i \in 1 .. Len(r) : f[i] \in 1 .. Len(q)
  BY <1>1
<1>3. \A i, j \in 1 .. Len(r) : f[i] = f[j] => i = j
  <2> SUFFICES ASSUME NEW i \in 1 .. Len(r), NEW j \in 1 .. Len(r), f[i] = f[j], i # j
               PROVE  FALSE
    OBVIOUS
  <2>1. i < j \/ j < i
    OBVIOUS
  <2> QED BY <2>1, <1>1, <1>2
<1>4. \A i, j \in 1 .. Len(r) : f[i] < f[j] => i < j
  <2> SUFFICES ASSUME NEW i \in 1 .. Len(r), NEW j \in 1 .. Len(r), f[i] < f[j], ~(i < j)
               PROVE  FALSE
    OBVIOUS
  <2>1. i = j \/ j < i
    OBVIOUS
  <2> QED BY <2>1, <1>1, <1>2
<1>5. \A m : Absent(q, m) => Absent(r, m)
  BY <1>1, <1>2 DEF Absent
<1>6. \A m \in ms : Absent(r, m)
  BY <1>1 DEF Absent
<1>7. \A m : Once(q, m) => Once(r, m)
  BY <1>1, <1>2, <1>3 DEF Once
<1>8. \A m, n : NotBefore(q, m, n) => NotBefore(r, m, n)
  BY <1>1, <1>2, <1>4 DEF NotBefore
<1> QED BY <1>5, <1>6, <1>7, <1>8

LEMMA TailQueue ==
  ASSUME NEW M, NEW q \in Seq(M), q # <<>>
  PROVE  /\ Tail(q) \in Seq(M) /\ Head(q) \in M
         /\ \A m : Absent(q, m) => (Absent(Tail(q), m) /\ Head(q) # m)
         /\ \A m : Once(q, m) => Once(Tail(q), m)
         /\ \A m : (Once(q, m) /\ Head(q) = m) => Absent(Tail(q), m)
         /\ \A m, n : NotBefore(q, m, n) => NotBefore(Tail(q), m, n)
         /\ \A m, n : (NotBefore(q, m, n) /\ Head(q) = m) => Absent(Tail(q), n)
<1>1. /\ Tail(q) \in Seq(M) /\ Head(q) = q[1] /\ Len(q) \in Nat /\ Len(q) >= 1
      /\ q[1] \in M /\ Len(Tail(q)) = Len(q) - 1
      /\ \A i \in 1 .. (Len(q) - 1) : Tail(q)[i] = q[i + 1]
  OBVIOUS
<1>2. \A i \in 1 .. Len(Tail(q)) :
        i \in Nat /\ i + 1 \in 1 .. Len(q) /\ i + 1 # 1 /\ Tail(q)[i] = q[i + 1]
  BY <1>1
<1>3. 1 \in 1 .. Len(q)
  BY <1>1
<1>4. \A m : Absent(q, m) => (Absent(Tail(q), m) /\ Head(q) # m)
  BY <1>1, <1>2, <1>3 DEF Absent
<1>5. \A m : Once(q, m) => Once(Tail(q), m)
  <2> SUFFICES ASSUME NEW m, Once(q, m), NEW i \in 1 .. Len(Tail(q)), NEW j \in 1 .. Len(Tail(q)),
                      Tail(q)[i] = m, Tail(q)[j] = m
               PROVE  i = j
    BY DEF Once
  <2>1. i + 1 = j + 1
    BY <1>2 DEF Once
  <2> QED BY <2>1, <1>2
<1>6. \A m : (Once(q, m) /\ Head(q) = m) => Absent(Tail(q), m)
  <2> SUFFICES ASSUME NEW m, Once(q, m), Head(q) = m, NEW i \in 1 .. Len(Tail(q)), Tail(q)[i] = m
               PROVE  FALSE
    BY DEF Absent
  <2>1. i + 1 = 1
    BY <1>1, <1>2, <1>3 DEF Once
  <2> QED BY <2>1, <1>2
<1>7. \A m, n : NotBefore(q, m, n) => NotBefore(Tail(q), m, n)
  <2> SUFFICES ASSUME NEW m, NEW n, NotBefore(q, m, n),
                      NEW i \in 1 .. Len(Tail(q)), NEW j \in 1 .. Len(Tail(q)),
                      Tail(q)[i] = m, Tail(q)[j] = n
               PROVE  j < i
    BY DEF NotBefore
  <2>1. j + 1 < i + 1
    BY <1>2 DEF NotBefore
  <2> QED BY <2>1, <1>2
<1>8. \A m, n : (NotBefore(q, m, n) /\ Head(q) = m) => Absent(Tail(q), n)
  <2> SUFFICES ASSUME NEW m, NEW n, NotBefore(q, m, n), Head(q) = m,
                      NEW i \in 1 .. Len(Tail(q)), Tail(q)[i] = n
               PROVE  FALSE
    BY DEF Absent
  <2>1. i + 1 < 1
    BY <1>1, <1>2, <1>3 DEF NotBefore
  <2> QED BY <2>1, <1>2
<1> QED BY <1>1, <1>4, <1>5, <1>6, <1>7, <1>8

LEMMA PostedQueue ==
  ASSUME NEW M, NEW q \in Seq(M), NEW p \in M
  PROVE  /\ Append(q, p) \in Seq(M)
         /\ \A m : (Absent(q, m) /\ p # m) => Absent(Append(q, p), m)
         /\ \A m : (Once(q, m) /\ p # m) => Once(Append(q, p), m)
         /\ Absent(q, p) => Once(Append(q, p), p)
         /\ \A m, n : (NotBefore(q, m, n) /\ p # n) => NotBefore(Append(q, p), m, n)
<1> DEFINE r == Append(q, p)
<1>1. /\ r \in Seq(M) /\ Len(q) \in Nat /\ Len(r) = Len(q) + 1 /\ r[Len(q) + 1] = p
      /\ \A i \in 1 .. Len(q) : r[i] = q[i]
  OBVIOUS
<1>2. \A i \in 1 .. Len(r) : (i \in 1 .. Len(q) /\ r[i] = q[i]) \/ (i = Len(q) + 1 /\ r[i] = p)
  BY <1>1
<1>3. \A i \in 1 .. Len(q) : i < Len(q) + 1
  BY <1>1
<1> HIDE DEF r
<1>4. \A m : (Absent(q, m) /\ p # m) => Absent(r, m)
  BY <1>2 DEF Absent
<1>5. \A m : (Once(q, m) /\ p # m) => Once(r, m)
  BY <1>2 DEF Once
<1>6. Absent(q, p) => Once(r, p)
  BY <1>2 DEF Absent, Once
<1>7. \A m, n : (NotBefore(q, m, n) /\ p # n) => NotBefore(r, m, n)
  BY <1>2, <1>3 DEF NotBefore
<1> QED BY <1>1, <1>4, <1>5, <1>6, <1>7 DEF r

-----------------------------------------------------------------------------
Apps ==
    [curr : AppModes, next : AppModes \cup {None}, prev : AppModes,
     at : AppModes, keys : BOOLEAN, amp : BOOLEAN, fm : BOOLEAN,
     initStart : BOOLEAN, initOk : BOOLEAN, exitFlag : BOOLEAN,
     exiting : BOOLEAN, waitExit : BOOLEAN, force : BOOLEAN,
     offFlag : BOOLEAN, pressed : BOOLEAN, timers : SUBSET Ticks,
     stack : {"off", "starting", "on"}, a2dp : BOOLEAN,
     esco : BOOLEAN, tone : DOMAIN ToneOf \cup {None},
     queue : Seq(Msgs)]

\* The flags of bt.c, the stack and the timer that waits for its end.
StackFlags(a) ==
    /\ a.exitFlag <=> (a.stack = "off")
    /\ a.initStart <=> (a.stack # "off")
    /\ a.initOk => (a.stack = "on")
    /\ a.exiting <=> ("exitTick" \in a.timers)
    /\ a.exiting => a.initOk

\* What the function that runs says of the hardware.
Places(a) ==
    /\ (a.at # "bt") => (a.at = a.curr)
    /\ (a.at # "bt") => (a.stack = "off")
    /\ (a.at # "fm") => (~a.fm)
    /\ (a.at # "fm") => (a.tone # "fm")

\* How a mode is left.
Leaving(a) ==
    /\ (a.at = "bt") => (a.waitExit <=> (a.curr # "bt"))
    /\ (a.at = "bt" /\ a.waitExit /\ a.initStart) => a.exiting
    /\ (a.next # None) => (a.next # a.curr)
    /\ (a.at # a.curr) => (~a.keys)
    /\ (a.at # a.curr) => (a.next # "bt")
    /\ (a.at = "fm") => (a.next # "bt")
    /\ (a.at = a.curr) => a.keys
    /\ (a.at = a.curr /\ a.at \in {"bt", "fm"}) => a.amp

NoKeys(q) == \A k \in KeyMsgs : Absent(q, k)
NoUp(q) == Absent(q, "initOk")
OneUp(q) == Once(q, "initOk")
NoFm(q) == Absent(q, "fmTone")
FmFirst(q) == NotBefore(q, "mode", "fmTone")

\* What can wait in the queue.
Waiting(a) ==
    /\ (~a.keys) => NoKeys(a.queue)
    /\ NoUp(a.queue) \/ (a.stack = "on" /\ (~a.initOk))
    /\ OneUp(a.queue)
    /\ (a.at \in {"bt", "idle"}) => NoFm(a.queue)
    /\ (a.at = "rtc" /\ a.next = "bt") => NoFm(a.queue)
    /\ (a.at = "rtc") => FmFirst(a.queue)

GoodApp(a) == a \in Apps /\ StackFlags(a) /\ Places(a) /\ Leaving(a) /\ Waiting(a)

\* r has what q has, or less, and perhaps a tone that is over.
Follows(q, r) ==
    /\ r \in Seq(Msgs)
    /\ NoKeys(q) => NoKeys(r)
    /\ NoUp(q) => NoUp(r)
    /\ OneUp(q) => OneUp(r)
FmFollows(q, r) == (NoFm(q) => NoFm(r)) /\ (FmFirst(q) => FmFirst(r))

LEMMA KeptFollows ==
  ASSUME NEW q \in Seq(Msgs), NEW ms
  PROVE  /\ Follows(q, Kept(q, ms)) /\ FmFollows(q, Kept(q, ms))
         /\ \A m \in ms : Absent(Kept(q, ms), m)
<1>1. Kept(q, ms) \in Seq(Msgs) /\ Part(Kept(q, ms), q, ms)
  BY KeptIsPart
<1> DEFINE r == Kept(q, ms)
<1> HIDE DEF r
<1>2. /\ \A m : Absent(q, m) => Absent(r, m)
      /\ \A m \in ms : Absent(r, m)
      /\ \A m : Once(q, m) => Once(r, m)
      /\ \A m, n : NotBefore(q, m, n) => NotBefore(r, m, n)
  BY <1>1, PartQueue DEF r
<1> QED BY <1>1, <1>2 DEF r, Follows, FmFollows, NoKeys, NoUp, OneUp, NoFm, FmFirst

LEMMA PostedFollows ==
  ASSUME NEW q \in Seq(Msgs), NEW m \in Msgs
  PROVE  /\ Append(q, m) \in Seq(Msgs)
         /\ (m \notin KeyMsgs /\ m # "initOk") => Follows(q, Append(q, m))
         /\ (m # "fmTone") => FmFollows(q, Append(q, m))
         /\ (m # "initOk" /\ OneUp(q)) => OneUp(Append(q, m))
         /\ (m # "initOk" /\ NoUp(q)) => NoUp(Append(q, m))
         /\ NoUp(q) => OneUp(Append(q, m))
<1> DEFINE r == Append(q, m)
<1>1. /\ r \in Seq(Msgs)
      /\ \A x : (Absent(q, x) /\ m # x) => Absent(r, x)
      /\ \A x : (Once(q, x) /\ m # x) => Once(r, x)
      /\ Absent(q, m) => Once(r, m)
      /\ \A x, n : (NotBefore(q, x, n) /\ m # n) => NotBefore(r, x, n)
  BY PostedQueue
<1> HIDE DEF r
<1>2. (Absent(q, "initOk") /\ m # "initOk") => Once(r, "initOk")
  <2>1. Absent(q, "initOk") => Once(q, "initOk")
    BY DEF Absent, Once
  <2> QED BY <1>1, <2>1
<1>3. Absent(q, "initOk") => Once(r, "initOk")
  BY <1>1, <1>2
<1>4. (m \notin KeyMsgs /\ m # "initOk") => Follows(q, r)
  BY <1>1 DEF Follows, NoKeys, NoUp, OneUp
<1>5. (m # "fmTone") => FmFollows(q, r)
  BY <1>1 DEF FmFollows, NoFm, FmFirst
<1>6. /\ (m # "initOk" /\ OneUp(q)) => OneUp(r)
      /\ (m # "initOk" /\ NoUp(q)) => NoUp(r)
      /\ NoUp(q) => OneUp(r)
  BY <1>1, <1>3 DEF NoUp, OneUp
<1> QED BY <1>1, <1>4, <1>5, <1>6 DEF r

\* What is true of the fields only is true of a record with those fields.
SameApp(a, b) ==
    /\ b.curr = a.curr /\ b.next = a.next /\ b.at = a.at /\ b.keys = a.keys
    /\ b.amp = a.amp /\ b.fm = a.fm /\ b.initStart = a.initStart
    /\ b.initOk = a.initOk /\ b.exitFlag = a.exitFlag /\ b.exiting = a.exiting
    /\ b.waitExit = a.waitExit /\ b.stack = a.stack /\ b.tone = a.tone
    /\ ("exitTick" \in b.timers) <=> ("exitTick" \in a.timers)

LEMMA SameGood ==
  ASSUME NEW a, GoodApp(a), NEW b \in Apps, SameApp(a, b),
         Follows(a.queue, b.queue), FmFollows(a.queue, b.queue)
  PROVE  GoodApp(b)
<1>1. StackFlags(b) /\ Places(b) /\ Leaving(b)
  BY DEF GoodApp, SameApp, StackFlags, Places, Leaving
<1>2. Waiting(b)
  BY DEF GoodApp, SameApp, Waiting, Follows, FmFollows
<1> QED BY <1>1, <1>2 DEF GoodApp

LEMMA FollowsSelf ==
  ASSUME NEW q \in Seq(Msgs) PROVE Follows(q, q) /\ FmFollows(q, q)
  BY DEF Follows, FmFollows

LEMMA SwitchToGood ==
  ASSUME NEW a, GoodApp(a), NEW m \in AppModes,
         m = "bt" => (a.at = a.curr /\ a.at # "fm" /\ NoFm(a.queue))
  PROVE  GoodApp(SwitchTo(a, m))
<1> DEFINE b == SwitchTo(a, m)
<1>0. a \in Apps /\ a.queue \in Seq(Msgs)
  BY DEF GoodApp, Apps
<1>1. CASE a.curr = m
  BY <1>1 DEF SwitchTo
<1>2. CASE a.curr # m /\ Stays(a)
  <2>1. b = Refused(a)
    BY <1>2 DEF SwitchTo
  <2>2. Refused(a) \in Apps /\ Refused(a).queue = a.queue
    <3>1. a.timers \cup {"phoneTick"} \in SUBSET Ticks
      BY <1>0 DEF Apps, Ticks
    <3> DEFINE t == IF a.force THEN a.timers \cup {"phoneTick"} ELSE a.timers
    <3>2. t \in SUBSET Ticks
      BY <1>0, <3>1 DEF Apps
    <3>3. \/ Refused(a) = a
          \/ Refused(a) = [[a EXCEPT !.offFlag = FALSE] EXCEPT !.timers = t]
      BY <1>0 DEF Refused, Apps
    <3> HIDE DEF t
    <3> QED BY <1>0, <3>2, <3>3, ZenonT(60) DEF Apps
  <2>3. SameApp(a, Refused(a))
    BY <1>0 DEF Refused, Apps, SameApp
  <2> QED BY <1>0, <2>1, <2>2, <2>3, SameGood, FollowsSelf
<1>3. CASE a.curr # m /\ ~Stays(a)
  <2>1. b = Posted([a EXCEPT !.prev = a.curr, !.next = m,
                            !.force = @ /\ (a.curr # "bt" \/ a.exitFlag)], "switch")
    BY <1>3 DEF SwitchTo
  <2>2. b.queue = Append(a.queue, "switch")
    BY <1>0, <2>1 DEF Posted, Apps
  <2>3. Follows(a.queue, b.queue) /\ FmFollows(a.queue, b.queue)
    BY <1>0, <2>2, PostedFollows DEF Msgs, KeyMsgs
  <2>4. b \in Apps
    <3>1. b.queue \in Seq(Msgs)
      BY <2>3 DEF Follows
    <3>2. m \in AppModes /\ a.curr \in AppModes
      BY <1>0 DEF Apps
    <3> QED BY <1>0, <2>1, <2>2, <3>1, <3>2, ZenonT(60) DEF Posted, Apps
  <2>5. /\ b.next = m /\ b.curr = a.curr /\ b.at = a.at /\ b.keys = a.keys
        /\ b.amp = a.amp /\ b.fm = a.fm /\ b.initStart = a.initStart
        /\ b.initOk = a.initOk /\ b.exitFlag = a.exitFlag /\ b.exiting = a.exiting
        /\ b.waitExit = a.waitExit /\ b.stack = a.stack /\ b.tone = a.tone
        /\ b.timers = a.timers
    BY <1>0, <2>1 DEF Posted, Apps
  <2> HIDE DEF b
  <2>6. StackFlags(b) /\ Places(b)
    BY <2>5 DEF GoodApp, StackFlags, Places
  <2>7. Leaving(b)
    BY <2>5, <1>3 DEF GoodApp, Leaving
  <2>8. Waiting(b)
    BY <2>3, <2>5 DEF GoodApp, Waiting, Follows, FmFollows
  <2> QED BY <2>4, <2>6, <2>7, <2>8 DEF GoodApp, b
<1> QED BY <1>1, <1>2, <1>3

LEMMA DeletedGood ==
  ASSUME NEW a, GoodApp(a), NEW t \in Ticks, t # "exitTick"
  PROVE  GoodApp(Deleted(a, t))
<1> DEFINE b == Deleted(a, t)
<1>1. a \in Apps /\ a.queue \in Seq(Msgs)
  BY DEF GoodApp, Apps
<1>2. b = [[a EXCEPT !.timers = @ \ {t}] EXCEPT !.queue = Kept(a.queue, {t})]
  BY <1>1 DEF Deleted, Without, Apps
<1>3. Follows(a.queue, Kept(a.queue, {t})) /\ FmFollows(a.queue, Kept(a.queue, {t}))
  BY <1>1, KeptFollows
<1>4. b \in Apps
  BY <1>1, <1>2, <1>3, ZenonT(60) DEF Apps, Follows
<1>5. SameApp(a, b) /\ b.queue = Kept(a.queue, {t})
  BY <1>1, <1>2 DEF Apps, SameApp
<1> QED BY <1>3, <1>4, <1>5, SameGood

LEMMA SoftPowerOffGood ==
  ASSUME NEW a, GoodApp(a) PROVE GoodApp(SoftPowerOff(a))
<1> DEFINE b == SoftPowerOff(a)
<1>1. a \in Apps /\ a.queue \in Seq(Msgs)
  BY DEF GoodApp, Apps
<1>2. a.timers \cup {"offTick"} \in SUBSET Ticks
  BY <1>1 DEF Apps, Ticks
<1>3. b \in Apps /\ b.queue = a.queue
  <2> DEFINE t == a.timers \cup {"offTick"}
  <2>1. \/ b = a
        \/ b = [[a EXCEPT !.offFlag = TRUE] EXCEPT !.timers = t]
    BY <1>1 DEF SoftPowerOff, Armed, Apps
  <2> HIDE DEF b, t
  <2>2. t \in SUBSET Ticks
    BY <1>2 DEF t
  <2> QED BY <1>1, <2>1, <2>2, ZenonT(60) DEF Apps
<1>4. SameApp(a, b)
  BY <1>1 DEF Apps, SoftPowerOff, Armed, SameApp
<1> QED BY <1>1, <1>3, <1>4, SameGood, FollowsSelf

LEMMA PowerKeyGood ==
  ASSUME NEW a, GoodApp(a), NEW last \in BOOLEAN PROVE GoodApp(PowerKey(a, last))
<1>1. a \in Apps /\ a.queue \in Seq(Msgs)
  BY DEF GoodApp, Apps
<1> DEFINE b == [a EXCEPT !.pressed = (call # "active")]
<1>2. b \in Apps /\ SameApp(a, b) /\ b.queue = a.queue
  BY <1>1 DEF Apps, SameApp
<1>3. GoodApp(b)
  BY <1>1, <1>2, SameGood, FollowsSelf
<1> QED BY <1>3, SoftPowerOffGood DEF PowerKey

LEMMA PowerOnGood ==
  ASSUME NEW a, GoodApp(a), a.at = "idle", NEW last \in BOOLEAN
  PROVE  GoodApp(PowerOn(a, last))
<1>1. a \in Apps /\ a.queue \in Seq(Msgs)
  BY DEF GoodApp, Apps
<1> DEFINE b == [a EXCEPT !.offFlag = FALSE]
           m == IF a.prev \in {"bt", "rtc", "fm"} THEN a.prev ELSE "bt"
<1>2. b \in Apps /\ SameApp(a, b) /\ b.queue = a.queue /\ m \in AppModes
  BY <1>1 DEF Apps, SameApp, AppModes
<1>3. GoodApp(b)
  BY <1>1, <1>2, SameGood, FollowsSelf
<1>4. b.at = b.curr /\ b.at # "fm" /\ NoFm(b.queue)
  BY <1>2 DEF GoodApp, Places, Waiting, SameApp
<1>5. PowerOn(a, last) = IF last THEN SwitchTo(b, m) ELSE a
  BY DEF PowerOn
<1> HIDE DEF b, m
<1> QED BY <1>2, <1>3, <1>4, <1>5, SwitchToGood

LEMMA FollowingIs ==
  /\ Following("bt") = "fm" /\ Following("fm") = "rtc"
  /\ Following("rtc") = "bt" /\ Following("idle") = "bt"
<1>1. /\ Len(Listed) = 3 /\ DOMAIN Listed = 1 .. 3
      /\ Listed[1] = "bt" /\ Listed[2] = "fm" /\ Listed[3] = "rtc"
  BY DEF Listed
<1>2. \A i \in 1 .. 3 : i = 1 \/ i = 2 \/ i = 3
  OBVIOUS
<1>3. /\ Contains(Listed, "bt") /\ Contains(Listed, "fm")
      /\ Contains(Listed, "rtc") /\ ~Contains(Listed, "idle")
  BY <1>1, <1>2 DEF Contains
<1>4. /\ (CHOOSE i \in DOMAIN Listed : Listed[i] = "bt") = 1
      /\ (CHOOSE i \in DOMAIN Listed : Listed[i] = "fm") = 2
      /\ (CHOOSE i \in DOMAIN Listed : Listed[i] = "rtc") = 3
  BY <1>1, <1>2
<1>5. 1 % 3 = 1 /\ 2 % 3 = 2 /\ 3 % 3 = 0 /\ 0 % 3 = 0
  OBVIOUS
<1> QED BY <1>1, <1>3, <1>4, <1>5 DEF Following

LEMMA ModeKeyGood ==
  ASSUME NEW a, GoodApp(a), a.keys, a.at = "rtc" => NoFm(a.queue)
  PROVE  GoodApp(ModeKey(a))
<1>1. a \in Apps /\ a.queue \in Seq(Msgs)
  BY DEF GoodApp, Apps
<1> DEFINE b == [a EXCEPT !.pressed = FALSE]
<1>2. b \in Apps /\ SameApp(a, b) /\ b.queue = a.queue
  BY <1>1 DEF Apps, SameApp
<1>3. GoodApp(b)
  BY <1>1, <1>2, SameGood, FollowsSelf
<1>4. b.at = b.curr /\ b.curr = a.curr /\ b.curr \in AppModes
  BY <1>1, <1>2 DEF GoodApp, Leaving, SameApp, Apps
<1>5. Following(b.curr) \in AppModes
  BY <1>4, FollowingIs DEF AppModes
<1>6. Following(b.curr) = "bt" => (b.at = b.curr /\ b.at # "fm" /\ NoFm(b.queue))
  BY <1>2, <1>4, FollowingIs DEF GoodApp, Waiting, SameApp, AppModes
<1>7. ModeKey(a) = SwitchTo(b, Following(b.curr))
  BY <1>4 DEF ModeKey
<1> HIDE DEF b
<1> QED BY <1>3, <1>5, <1>6, <1>7, SwitchToGood

LEMMA LowBatteryGood ==
  ASSUME NEW a, GoodApp(a) PROVE GoodApp(LowBattery(a))
<1>1. a \in Apps /\ a.queue \in Seq(Msgs)
  BY DEF GoodApp, Apps
<1> DEFINE b == [a EXCEPT !.force = TRUE]
<1>2. b \in Apps /\ SameApp(a, b) /\ b.queue = a.queue
  BY <1>1 DEF Apps, SameApp
<1> QED BY <1>1, <1>2, SameGood, FollowsSelf, SoftPowerOffGood DEF LowBattery

LEMMA PhoneCheckedGood ==
  ASSUME NEW a, GoodApp(a) PROVE GoodApp(PhoneChecked(a))
  BY DeletedGood, SoftPowerOffGood DEF PhoneChecked, Ticks

LEMMA ExitCheckedGood ==
  ASSUME NEW a, GoodApp(a) PROVE GoodApp(ExitChecked(a))
<1>1. a \in Apps /\ a.queue \in Seq(Msgs)
  BY DEF GoodApp, Apps
<1>2. CASE ~a.initOk \/ a.a2dp \/ a.esco
  BY <1>2 DEF ExitChecked
<1>3. CASE ~(~a.initOk \/ a.a2dp \/ a.esco)
  <2> DEFINE b == ExitChecked(a)
             q == Kept(a.queue, {"exitTick"})
  <2>1. Follows(a.queue, q) /\ FmFollows(a.queue, q)
    BY <1>1, KeptFollows
  <2> HIDE DEF q
  <2>2. b = [[[a EXCEPT !.exitFlag = TRUE, !.initOk = FALSE,
                        !.initStart = FALSE, !.exiting = FALSE,
                        !.stack = "off"] EXCEPT !.timers = @ \ {"exitTick"}]
              EXCEPT !.queue = q]
    BY <1>1, <1>3 DEF ExitChecked, Deleted, Without, Apps, q
  <2>3. b \in Apps
    <3>1. a.timers \ {"exitTick"} \in SUBSET Ticks /\ q \in Seq(Msgs)
      BY <1>1, <2>1 DEF Apps, Follows
    <3> HIDE DEF b
    <3> QED BY <1>1, <2>2, <3>1, ZenonT(60) DEF Apps
  <2>4. /\ b.curr = a.curr /\ b.next = a.next /\ b.at = a.at /\ b.keys = a.keys
        /\ b.amp = a.amp /\ b.fm = a.fm /\ b.initStart = FALSE
        /\ b.initOk = FALSE /\ b.exitFlag = TRUE /\ b.exiting = FALSE
        /\ b.waitExit = a.waitExit /\ b.stack = "off" /\ b.tone = a.tone
        /\ "exitTick" \notin b.timers /\ b.queue = q
    BY <1>1, <2>2 DEF Apps
  <2> HIDE DEF b
  <2>5. StackFlags(b) /\ Places(b)
    BY <2>4 DEF GoodApp, StackFlags, Places
  <2>6. Leaving(b)
    BY <2>4 DEF GoodApp, Leaving
  <2>7. Waiting(b)
    BY <1>3, <2>1, <2>4 DEF GoodApp, Waiting, Follows, FmFollows
  <2> QED BY <2>3, <2>5, <2>6, <2>7 DEF GoodApp, b
<1> QED BY <1>2, <1>3

LEMMA BtEventGood ==
  ASSUME NEW a, GoodApp(a), NEW m \in BtMsgs, a.at = "bt",
         m = "initOk" => (NoUp(a.queue) /\ a.stack = "on" /\ ~a.initOk)
  PROVE  GoodApp(BtEvent(a, m))
<1> DEFINE b == BtEvent(a, m)
<1>1. a \in Apps /\ a.queue \in Seq(Msgs)
  BY DEF GoodApp, Apps
<1>2. b \in Apps /\ b.queue = a.queue
  BY <1>1, ZenonT(60) DEF BtEvent, Apps
<1>3. CASE m # "initOk"
  <2>1. SameApp(a, b)
    BY <1>1, <1>3 DEF BtEvent, Apps, SameApp
  <2> QED BY <1>1, <1>2, <2>1, SameGood, FollowsSelf
<1>4. CASE m = "initOk"
  <2>1. /\ b.curr = a.curr /\ b.next = a.next /\ b.at = a.at /\ b.keys = a.keys
        /\ b.amp = a.amp /\ b.fm = a.fm /\ b.initStart = a.initStart
        /\ b.initOk = TRUE /\ b.exitFlag = a.exitFlag /\ b.exiting = a.exiting
        /\ b.waitExit = a.waitExit /\ b.stack = a.stack /\ b.tone = a.tone
        /\ b.timers = a.timers
    BY <1>1, <1>4 DEF BtEvent, Apps
  <2> HIDE DEF b
  <2>2. StackFlags(b) /\ Places(b)
    BY <1>4, <2>1 DEF GoodApp, StackFlags, Places
  <2>3. Leaving(b)
    BY <2>1 DEF GoodApp, Leaving
  <2>4. Waiting(b)
    BY <1>2, <1>4, <2>1 DEF GoodApp, Waiting
  <2> QED BY <1>2, <2>2, <2>3, <2>4 DEF GoodApp, b
<1> QED BY <1>3, <1>4

LEMMA ToneDoneGood ==
  ASSUME NEW a, GoodApp(a), NEW m \in {"bt", "fm", "rtc"},
         m = "fm" => (a.at \notin {"bt", "idle"})
  PROVE  GoodApp(ToneDone(a, m))
<1> DEFINE b == ToneDone(a, m)
<1>1. a \in Apps /\ a.queue \in Seq(Msgs)
  BY DEF GoodApp, Apps
<1>2. CASE a.curr # m
  BY <1>2 DEF ToneDone
<1>3. CASE a.curr = m /\ m = "bt"
  <2>1. b = StackStarted(a)
    BY <1>3 DEF ToneDone
  <2>2. CASE ~a.exitFlag
    BY <2>1, <2>2 DEF StackStarted
  <2>3. CASE a.exitFlag
    <3>1. b = [a EXCEPT !.exitFlag = FALSE, !.offFlag = FALSE, !.initStart = TRUE,
                   !.stack = "starting"]
      BY <2>1, <2>3 DEF StackStarted
    <3>2. b \in Apps
      BY <1>1, <3>1, ZenonT(60) DEF Apps
    <3>3. a.at = "bt" /\ ~a.waitExit
      BY <1>3 DEF GoodApp, Places, Leaving
    <3>4. /\ b.curr = a.curr /\ b.next = a.next /\ b.at = a.at /\ b.keys = a.keys
          /\ b.amp = a.amp /\ b.fm = a.fm /\ b.initStart = TRUE
          /\ b.initOk = a.initOk /\ b.exitFlag = FALSE /\ b.exiting = a.exiting
          /\ b.waitExit = a.waitExit /\ b.stack = "starting" /\ b.tone = a.tone
          /\ b.timers = a.timers /\ b.queue = a.queue
      BY <1>1, <3>1 DEF Apps
    <3> HIDE DEF b
    <3>5. ~a.initOk /\ ~a.exiting
      BY <2>3 DEF GoodApp, StackFlags
    <3>6. StackFlags(b) /\ Places(b)
      BY <3>3, <3>4, <3>5 DEF GoodApp, StackFlags, Places
    <3>7. Leaving(b)
      BY <3>3, <3>4 DEF GoodApp, Leaving
    <3>8. Waiting(b)
      BY <3>4, <2>3 DEF GoodApp, Waiting, StackFlags
    <3> QED BY <3>2, <3>6, <3>7, <3>8 DEF GoodApp, b
  <2> QED BY <2>2, <2>3
<1>4. CASE a.curr = m /\ m = "fm"
  <2>1. b = [a EXCEPT !.fm = TRUE]
    BY <1>4 DEF ToneDone
  <2>2. a.at = "fm"
    BY <1>1, <1>4 DEF GoodApp, Places, Apps, AppModes
  <2>3. /\ b \in Apps /\ b.curr = a.curr /\ b.next = a.next /\ b.at = a.at
        /\ b.keys = a.keys
        /\ b.amp = a.amp /\ b.fm = TRUE /\ b.initStart = a.initStart
        /\ b.initOk = a.initOk /\ b.exitFlag = a.exitFlag /\ b.exiting = a.exiting
        /\ b.waitExit = a.waitExit /\ b.stack = a.stack /\ b.tone = a.tone
        /\ b.timers = a.timers /\ b.queue = a.queue
    BY <1>1, <2>1, ZenonT(60) DEF Apps
  <2> HIDE DEF b
  <2>4. StackFlags(b) /\ Places(b)
    BY <2>2, <2>3 DEF GoodApp, StackFlags, Places
  <2>5. Leaving(b)
    BY <2>3 DEF GoodApp, Leaving
  <2>6. Waiting(b)
    BY <2>3 DEF GoodApp, Waiting
  <2> QED BY <2>3, <2>4, <2>5, <2>6 DEF GoodApp, b
<1>5. CASE a.curr = m /\ m = "rtc"
  <2>1. b = [a EXCEPT !.amp = FALSE]
    BY <1>5 DEF ToneDone
  <2>3. /\ b \in Apps /\ b.curr = a.curr /\ b.next = a.next /\ b.at = a.at
        /\ b.keys = a.keys
        /\ b.amp = FALSE /\ b.fm = a.fm /\ b.initStart = a.initStart
        /\ b.initOk = a.initOk /\ b.exitFlag = a.exitFlag /\ b.exiting = a.exiting
        /\ b.waitExit = a.waitExit /\ b.stack = a.stack /\ b.tone = a.tone
        /\ b.timers = a.timers /\ b.queue = a.queue
    BY <1>1, <2>1, ZenonT(60) DEF Apps
  <2> HIDE DEF b
  <2>4. StackFlags(b) /\ Places(b)
    BY <2>3 DEF GoodApp, StackFlags, Places
  <2>5. Leaving(b)
    BY <1>5, <2>3 DEF GoodApp, Leaving
  <2>6. Waiting(b)
    BY <2>3 DEF GoodApp, Waiting
  <2> QED BY <2>3, <2>4, <2>5, <2>6 DEF GoodApp, b
<1> QED BY <1>2, <1>3, <1>4, <1>5

\* What the message that was taken says, when the others are behind it.
HeadFits(a, m) ==
    /\ m \in Msgs
    /\ (m \in KeyMsgs) => a.keys
    /\ (m = "initOk") => (NoUp(a.queue) /\ a.stack = "on" /\ (~a.initOk))
    /\ (m = "fmTone") => (a.at \notin {"bt", "idle"})
    /\ (m = "mode" /\ a.at = "rtc") => NoFm(a.queue)

LEMMA TakenGood ==
  ASSUME NEW a, GoodApp(a), a.queue # <<>>
  PROVE  LET b == [a EXCEPT !.queue = Tail(@)]
         IN  GoodApp(b) /\ HeadFits(b, Head(a.queue))
<1> DEFINE q == a.queue
           b == [a EXCEPT !.queue = Tail(@)]
<1>1. a \in Apps /\ q \in Seq(Msgs)
  BY DEF GoodApp, Apps
<1>2. /\ Tail(q) \in Seq(Msgs) /\ Head(q) \in Msgs
      /\ \A m : Absent(q, m) => (Absent(Tail(q), m) /\ Head(q) # m)
      /\ \A m : Once(q, m) => Once(Tail(q), m)
      /\ \A m : (Once(q, m) /\ Head(q) = m) => Absent(Tail(q), m)
      /\ \A m, n : NotBefore(q, m, n) => NotBefore(Tail(q), m, n)
      /\ \A m, n : (NotBefore(q, m, n) /\ Head(q) = m) => Absent(Tail(q), n)
  BY <1>1, TailQueue
<1>3. Follows(q, Tail(q)) /\ FmFollows(q, Tail(q))
  BY <1>2 DEF Follows, FmFollows, NoKeys, NoUp, OneUp, NoFm, FmFirst
<1>4. b \in Apps /\ SameApp(a, b) /\ b.queue = Tail(q)
  BY <1>1, <1>2 DEF Apps, SameApp
<1>5. GoodApp(b)
  BY <1>3, <1>4, SameGood
<1>6. b.keys = a.keys /\ b.at = a.at /\ b.stack = a.stack /\ b.initOk = a.initOk
  BY <1>4 DEF SameApp
<1> HIDE DEF b
<1>7. (Head(q) \in KeyMsgs) => b.keys
  BY <1>2, <1>6 DEF GoodApp, Waiting, NoKeys
<1>8. (Head(q) = "initOk") => (NoUp(b.queue) /\ b.stack = "on" /\ (~b.initOk))
  BY <1>2, <1>4, <1>6 DEF GoodApp, Waiting, NoUp, OneUp
<1>9. (Head(q) = "fmTone") => (b.at \notin {"bt", "idle"})
  BY <1>2, <1>6 DEF GoodApp, Waiting, NoFm
<1>10. (Head(q) = "mode" /\ b.at = "rtc") => NoFm(b.queue)
  BY <1>2, <1>4, <1>6 DEF GoodApp, Waiting, NoFm, FmFirst
<1>11. HeadFits(b, Head(q))
  BY <1>2, <1>7, <1>8, <1>9, <1>10 DEF HeadFits
<1> QED BY <1>5, <1>11 DEF b

LEMMA ToneIs ==
  /\ DOMAIN ToneOf = {"bt", "fm", "rtc"}
  /\ ToneOf["bt"] = "btTone" /\ ToneOf["fm"] = "fmTone" /\ ToneOf["rtc"] = "rtcTone"
  BY DEF ToneOf

LEMMA DispatchedGood ==
  ASSUME NEW a, GoodApp(a), NEW m, HeadFits(a, m), NEW last \in BOOLEAN
  PROVE  GoodApp(Dispatched(a, m, last))
<1>1. m \in {"mode", "off", "on", "low", "alarm", "offTick", "exitTick",
              "phoneTick", "switch", "btTone", "fmTone", "rtcTone"} \cup BtMsgs
  BY DEF HeadFits, Msgs, KeyMsgs, Callbacks, Ticks
<1>2. CASE m = "mode"
  <2>1. GoodApp(ModeKey(a))
    BY <1>2, ModeKeyGood DEF HeadFits, KeyMsgs
  <2> QED BY <1>2, <2>1 DEF Dispatched, BtMsgs
<1>3. CASE m = "off"
  BY <1>3, PowerKeyGood DEF Dispatched, BtMsgs
<1>4. CASE m = "on"
  BY <1>4, PowerOnGood DEF Dispatched, BtMsgs
<1>5. CASE m = "low"
  BY <1>5, LowBatteryGood DEF Dispatched, BtMsgs
<1>6. CASE m = "alarm"
  <2>1. GoodApp(SwitchTo(a, "rtc"))
    BY SwitchToGood DEF AppModes
  <2> QED BY <1>6, <2>1 DEF Dispatched, AlarmRings, BtMsgs
<1>7. CASE m \in BtMsgs
  <2>1. a.at = "bt" => GoodApp(BtEvent(a, m))
    BY <1>7, BtEventGood DEF HeadFits
  <2>2. m \notin {"mode", "off", "on", "low", "alarm", "offTick", "exitTick",
                   "phoneTick", "switch"}
    BY <1>7 DEF BtMsgs
  <2> QED BY <1>7, <2>1, <2>2 DEF Dispatched
<1>8. CASE m = "offTick"
  <2>1. GoodApp(Deleted(a, "offTick"))
    BY DeletedGood DEF Ticks
  <2>2. GoodApp(SwitchTo(Deleted(a, "offTick"), "idle"))
    BY <2>1, SwitchToGood DEF AppModes
  <2> QED BY <1>8, <2>2 DEF Dispatched, BtMsgs
<1>9. CASE m = "exitTick"
  BY <1>9, ExitCheckedGood DEF Dispatched, BtMsgs
<1>10. CASE m = "phoneTick"
  BY <1>10, PhoneCheckedGood DEF Dispatched, BtMsgs
<1>11. CASE m = "switch"
  BY <1>11 DEF Dispatched, BtMsgs
<1>12. CASE m \in {"btTone", "fmTone", "rtcTone"}
  <2> DEFINE x == CHOOSE t \in DOMAIN ToneOf : ToneOf[t] = m
  <2>1. \E t \in DOMAIN ToneOf : ToneOf[t] = m
    BY <1>12, ToneIs
  <2>2. x \in {"bt", "fm", "rtc"} /\ ToneOf[x] = m
    BY <2>1, ToneIs
  <2> HIDE DEF x
  <2>3. x = "fm" => a.at \notin {"bt", "idle"}
    BY <2>2, ToneIs DEF HeadFits
  <2>4. GoodApp(ToneDone(a, x))
    BY <2>2, <2>3, ToneDoneGood
  <2>5. Dispatched(a, m, last) = ToneDone(a, x)
    BY <1>12 DEF Dispatched, BtMsgs, x
  <2> QED BY <2>4, <2>5
<1> QED BY <1>1, <1>2, <1>3, <1>4, <1>5, <1>6, <1>7, <1>8, <1>9, <1>10, <1>11, <1>12

-----------------------------------------------------------------------------
LEMMA ToneStoppedIs ==
  ASSUME NEW a \in Apps
  PROVE  \E q \in Seq(Msgs) :
           /\ ToneStopped(a) = [[a EXCEPT !.tone = None] EXCEPT !.queue = q]
           /\ Follows(a.queue, q)
           /\ (a.tone # "fm") => FmFollows(a.queue, q)
<1>1. a.queue \in Seq(Msgs) /\ a.tone \in {"bt", "fm", "rtc", None}
  BY ToneIs DEF Apps
<1>2. CASE a.tone = None
  <2>1. a = [[a EXCEPT !.tone = None] EXCEPT !.queue = a.queue]
    BY <1>2 DEF Apps
  <2> QED BY <1>1, <1>2, <2>1, FollowsSelf DEF ToneStopped
<1>3. CASE a.tone # None
  <2> DEFINE m == ToneOf[a.tone]
  <2>1. /\ m \in Msgs /\ m \notin KeyMsgs /\ m # "initOk"
        /\ (a.tone # "fm") => (m # "fmTone")
    BY <1>1, <1>3, ToneIs DEF Msgs, Callbacks, KeyMsgs
  <2> HIDE DEF m
  <2>2. /\ Append(a.queue, m) \in Seq(Msgs)
        /\ Follows(a.queue, Append(a.queue, m))
        /\ (a.tone # "fm") => FmFollows(a.queue, Append(a.queue, m))
    BY <1>1, <2>1, PostedFollows
  <2>3. ToneStopped(a)
          = [[a EXCEPT !.tone = None] EXCEPT !.queue = Append(a.queue, m)]
    BY <1>3 DEF ToneStopped, Posted, m, Apps
  <2> QED BY <2>2, <2>3
<1> QED BY <1>2, <1>3

LEMMA ToneStoppedGood ==
  ASSUME NEW a, GoodApp(a), a.tone # "fm" \/ a.at = "fm"
  PROVE  GoodApp(ToneStopped(a))
<1> DEFINE b == ToneStopped(a)
<1>1. a \in Apps
  BY DEF GoodApp
<1>2. PICK q \in Seq(Msgs) :
           /\ b = [[a EXCEPT !.tone = None] EXCEPT !.queue = q]
           /\ Follows(a.queue, q)
           /\ (a.tone # "fm") => FmFollows(a.queue, q)
  BY <1>1, ToneStoppedIs
<1> HIDE DEF b
<1>3. /\ b \in Apps /\ b.curr = a.curr /\ b.next = a.next /\ b.at = a.at
      /\ b.keys = a.keys
      /\ b.amp = a.amp /\ b.fm = a.fm /\ b.initStart = a.initStart
      /\ b.initOk = a.initOk /\ b.exitFlag = a.exitFlag /\ b.exiting = a.exiting
      /\ b.waitExit = a.waitExit /\ b.stack = a.stack /\ b.tone = None
      /\ b.timers = a.timers /\ b.queue = q
  BY <1>1, <1>2 DEF Apps
<1>4. StackFlags(b) /\ Places(b)
  BY <1>3 DEF GoodApp, StackFlags, Places, None
<1>5. Leaving(b)
  BY <1>3 DEF GoodApp, Leaving
<1>6. Waiting(b)
  BY <1>2, <1>3 DEF GoodApp, Waiting, Follows, FmFollows
<1> QED BY <1>3, <1>4, <1>5, <1>6 DEF GoodApp, b

\* The stack is off and the mode that is entered is known.
Ready(a) ==
    /\ a \in Apps
    /\ a.exitFlag /\ (~a.initStart) /\ (~a.initOk) /\ (~a.exiting)
    /\ "exitTick" \notin a.timers /\ a.stack = "off"
    /\ (~a.fm) /\ a.tone # "fm" /\ a.next = None
    /\ NoUp(a.queue) /\ OneUp(a.queue)
    /\ (a.curr = "bt") => NoFm(a.queue)

LEMMA KeysGone ==
  ASSUME NEW q, NoKeys(q) PROVE FmFirst(q)
  BY DEF NoKeys, FmFirst, NotBefore, Absent, KeyMsgs

LEMMA EnteredGood ==
  ASSUME NEW a, Ready(a)
  PROVE  GoodApp(Entered(a))
<1> DEFINE k == Kept(a.queue, KeyMsgs)
           w == [a EXCEPT !.queue = k]
<1>1. a \in Apps /\ a.queue \in Seq(Msgs) /\ a.curr \in AppModes
  BY DEF Ready, Apps
<1>2. Follows(a.queue, k) /\ FmFollows(a.queue, k) /\ NoKeys(k)
  BY <1>1, KeptFollows DEF NoKeys
<1> HIDE DEF k
<1>3. w \in Apps /\ w = Without(a, KeyMsgs) /\ w.curr = a.curr
  BY <1>1, <1>2 DEF Apps, Without, Follows, k
<1>4. /\ w.exitFlag /\ (~w.initStart) /\ (~w.initOk) /\ (~w.exiting)
      /\ "exitTick" \notin w.timers /\ w.stack = "off"
      /\ (~w.fm) /\ w.tone # "fm" /\ w.next = None /\ w.queue = k
  BY <1>1 DEF Ready, Apps
<1>5. NoUp(k) /\ OneUp(k) /\ FmFirst(k) /\ ((w.curr = "bt") => NoFm(k))
  BY <1>2, <1>3, KeysGone DEF Ready, Follows, FmFollows
<1> HIDE DEF w
<1>6. CASE w.curr = "idle"
  <2> DEFINE c == [w EXCEPT !.at = "idle", !.keys = TRUE, !.amp = FALSE,
                            !.queue = <<>>]
  <2>1. c \in Apps
    <3>1. "idle" \in AppModes /\ <<>> \in Seq(Msgs)
      BY DEF AppModes
    <3> QED BY <1>3, <3>1, ZenonT(60) DEF Apps
  <2>2. /\ c.curr = "idle" /\ c.next = None /\ c.at = "idle" /\ c.keys = TRUE
        /\ c.fm = w.fm /\ c.initStart = w.initStart
        /\ c.initOk = w.initOk /\ c.exitFlag = w.exitFlag /\ c.exiting = w.exiting
        /\ c.stack = w.stack /\ c.tone = w.tone
        /\ c.timers = w.timers /\ c.queue = <<>>
    BY <1>3, <1>4, <1>6 DEF Apps
  <2> HIDE DEF c
  <2>3. StackFlags(c) /\ Places(c)
    BY <1>4, <2>2 DEF StackFlags, Places
  <2>4. Leaving(c)
    BY <2>2 DEF Leaving, None
  <2>5. Waiting(c)
    <3>1. \A x : Absent(<<>>, x) /\ Once(<<>>, x)
      BY DEF Absent, Once
    <3> QED BY <2>2, <3>1 DEF Waiting, NoUp, OneUp, NoFm
  <2>6. GoodApp(c) /\ c.tone # "fm"
    BY <1>4, <2>1, <2>2, <2>3, <2>4, <2>5 DEF GoodApp
  <2>7. Entered(a) = ToneStopped(c)
    BY <1>3, <1>6 DEF Entered, EnterIdle, c
  <2> QED BY <2>6, <2>7, ToneStoppedGood
<1>7. ASSUME NEW m \in {"bt", "fm", "rtc"}, NEW c \in Apps, w.curr = m,
             Entered(a) = TonePlayed(c, m),
             c.curr = m, c.next = None, c.at = m, c.keys = TRUE, c.amp = TRUE,
             c.fm = FALSE, c.initStart = FALSE, c.initOk = FALSE,
             c.exitFlag = TRUE, c.exiting = FALSE, c.waitExit = FALSE \/ m # "bt",
             c.stack = "off", c.tone # "fm", "exitTick" \notin c.timers,
             c.queue = k
      PROVE  GoodApp(Entered(a))
  <2> DEFINE d == ToneStopped(c)
             b == TonePlayed(c, m)
  <2>1. PICK q \in Seq(Msgs) :
           /\ d = [[c EXCEPT !.tone = None] EXCEPT !.queue = q]
           /\ Follows(c.queue, q) /\ FmFollows(c.queue, q)
    BY <1>7, ToneStoppedIs
  <2>2. b = [[[c EXCEPT !.tone = None] EXCEPT !.queue = q] EXCEPT !.tone = m]
    BY <2>1 DEF TonePlayed
  <2> HIDE DEF b, d
  <2>3. /\ b \in Apps /\ b.curr = m /\ b.next = None /\ b.at = m /\ b.keys = TRUE
        /\ b.amp = TRUE /\ b.fm = FALSE /\ b.initStart = FALSE /\ b.initOk = FALSE
        /\ b.exitFlag = TRUE /\ b.exiting = FALSE /\ b.stack = "off" /\ b.tone = m
        /\ b.timers = c.timers /\ b.queue = q /\ b.waitExit = c.waitExit
    BY <1>7, <2>2, ToneIs, ZenonT(60) DEF Apps
  <2>4. StackFlags(b) /\ Places(b)
    BY <1>7, <2>3 DEF StackFlags, Places
  <2>5. Leaving(b)
    BY <1>7, <2>3 DEF Leaving, None
  <2>6. Waiting(b)
    BY <1>5, <1>7, <2>1, <2>3 DEF Waiting, Follows, FmFollows, None
  <2> QED BY <1>7, <2>3, <2>4, <2>5, <2>6 DEF GoodApp, b
<1>8. CASE w.curr = "bt"
  <2> DEFINE v == [w EXCEPT !.at = "bt", !.exiting = FALSE, !.waitExit = FALSE,
                            !.force = FALSE]
             c == [v EXCEPT !.initStart = FALSE, !.keys = TRUE, !.amp = TRUE]
  <2>1. Entered(a) = TonePlayed(c, "bt")
    BY <1>3, <1>8 DEF Entered, EnterBt
  <2>3. c \in Apps
    <3>1. "bt" \in AppModes
      BY DEF AppModes
    <3>2. v \in Apps
      BY <1>3, <3>1, ZenonT(60) DEF Apps
    <3> HIDE DEF v
    <3> QED BY <3>2 DEF Apps
  <2>2. /\ c.curr = "bt" /\ c.next = None /\ c.at = "bt"
        /\ c.keys = TRUE /\ c.amp = TRUE /\ c.fm = FALSE /\ c.initStart = FALSE
        /\ c.initOk = FALSE /\ c.exitFlag = TRUE /\ c.exiting = FALSE
        /\ c.waitExit = FALSE /\ c.stack = "off" /\ c.tone # "fm"
        /\ "exitTick" \notin c.timers /\ c.queue = k
    BY <1>3, <1>4, <1>8 DEF Apps
  <2> HIDE DEF c
  <2> QED BY <1>7, <1>8, <2>1, <2>2, <2>3
<1>9. CASE w.curr = "fm"
  <2> DEFINE c == [w EXCEPT !.at = "fm", !.keys = TRUE, !.amp = TRUE]
  <2>1. Entered(a) = TonePlayed(c, "fm")
    BY <1>3, <1>9 DEF Entered, EnterFm
  <2>2. /\ c \in Apps /\ c.curr = "fm" /\ c.next = None /\ c.at = "fm"
        /\ c.keys = TRUE /\ c.amp = TRUE /\ c.fm = FALSE /\ c.initStart = FALSE
        /\ c.initOk = FALSE /\ c.exitFlag = TRUE /\ c.exiting = FALSE
        /\ c.stack = "off" /\ c.tone # "fm"
        /\ "exitTick" \notin c.timers /\ c.queue = k
    BY <1>3, <1>4, <1>9, ZenonT(60) DEF Apps, AppModes
  <2> HIDE DEF c
  <2> QED BY <1>7, <1>9, <2>1, <2>2
<1>10. CASE w.curr = "rtc"
  <2> DEFINE c == [w EXCEPT !.at = "rtc", !.keys = TRUE, !.amp = TRUE]
  <2>1. Entered(a) = TonePlayed(c, "rtc")
    BY <1>3, <1>10 DEF Entered, EnterRtc
  <2>2. /\ c \in Apps /\ c.curr = "rtc" /\ c.next = None /\ c.at = "rtc"
        /\ c.keys = TRUE /\ c.amp = TRUE /\ c.fm = FALSE /\ c.initStart = FALSE
        /\ c.initOk = FALSE /\ c.exitFlag = TRUE /\ c.exiting = FALSE
        /\ c.stack = "off" /\ c.tone # "fm"
        /\ "exitTick" \notin c.timers /\ c.queue = k
    BY <1>3, <1>4, <1>10, ZenonT(60) DEF Apps, AppModes
  <2> HIDE DEF c
  <2> QED BY <1>7, <1>10, <2>1, <2>2
<1> QED BY <1>1, <1>3, <1>6, <1>8, <1>9, <1>10 DEF AppModes

LEMMA ExittingIs ==
  ASSUME NEW a \in Apps, a.next \in AppModes
  PROVE  \E q \in Seq(Msgs) :
           /\ Exitting(a) = [[a EXCEPT !.curr = a.next, !.next = None, !.amp = FALSE]
                                 EXCEPT !.keys = FALSE, !.queue = q]
           /\ Follows(a.queue, q) /\ FmFollows(a.queue, q) /\ NoKeys(q)
<1> DEFINE q == Kept(a.queue, KeyMsgs)
<1>1. a.queue \in Seq(Msgs)
  BY DEF Apps
<1>2. Follows(a.queue, q) /\ FmFollows(a.queue, q) /\ NoKeys(q)
  BY <1>1, KeptFollows DEF NoKeys
<1>3. Exitting(a) = [[a EXCEPT !.curr = a.next, !.next = None, !.amp = FALSE]
                                 EXCEPT !.keys = FALSE, !.queue = q]
  BY DEF Exitting, KeysDead, Without, Apps
<1> HIDE DEF q
<1> QED BY <1>2, <1>3 DEF Follows

\* What is left of the fields when the function of Bluetooth mode closes.
LEMMA BtClosedIs ==
  ASSUME NEW a \in Apps, (~a.initStart) => (~a.exiting)
  PROVE  LET b == BtClosed(a)
         IN  /\ b \in Apps /\ b.curr = a.curr /\ b.next = a.next /\ b.at = a.at
             /\ b.keys = FALSE /\ b.amp = a.amp /\ b.fm = a.fm
             /\ b.initStart = a.initStart /\ b.initOk = a.initOk
             /\ b.exitFlag = a.exitFlag /\ b.exiting = a.initStart
             /\ b.waitExit = a.waitExit /\ b.stack = a.stack /\ b.tone = None
             /\ ("exitTick" \in b.timers) <=> a.initStart
             /\ Follows(a.queue, b.queue) /\ NoKeys(b.queue)
             /\ (a.tone # "fm") => FmFollows(a.queue, b.queue)
<1> DEFINE t == a.timers \ {"exitTick"}
           p == Kept(a.queue, {"exitTick"})
           d == [[a EXCEPT !.timers = t] EXCEPT !.queue = p]
<1>1. a.queue \in Seq(Msgs)
  BY DEF Apps
<1>2. Follows(a.queue, p) /\ FmFollows(a.queue, p)
  BY <1>1, KeptFollows
<1>3. d = Deleted(a, "exitTick")
  BY DEF Deleted, Without, Apps
<1>4. t \in SUBSET Ticks /\ "exitTick" \notin t
  BY DEF Apps
<1> HIDE DEF t, p
<1>5. d \in Apps /\ d.queue = p /\ d.tone = a.tone
  BY <1>2, <1>4 DEF Apps, Follows
<1>6. PICK q \in Seq(Msgs) :
        /\ ToneStopped(d) = [[d EXCEPT !.tone = None] EXCEPT !.queue = q]
        /\ Follows(p, q)
        /\ (a.tone # "fm") => FmFollows(p, q)
  BY <1>5, ToneStoppedIs
<1> DEFINE r == Kept(q, KeyMsgs)
           k == KeysDead(ToneStopped(d))
<1>7. r \in Seq(Msgs) /\ Follows(q, r) /\ FmFollows(q, r) /\ NoKeys(r)
  BY <1>6, KeptFollows DEF NoKeys, Follows
<1>8. k = [[[d EXCEPT !.tone = None] EXCEPT !.queue = q]
              EXCEPT !.keys = FALSE, !.queue = r]
  BY <1>5, <1>6 DEF KeysDead, Without, Apps
<1> HIDE DEF r, k
<1>9. /\ Follows(a.queue, r) /\ NoKeys(r)
      /\ (a.tone # "fm") => FmFollows(a.queue, r)
  BY <1>2, <1>6, <1>7 DEF Follows, FmFollows
<1>10. /\ k \in Apps /\ k.curr = a.curr /\ k.next = a.next /\ k.at = a.at
       /\ k.keys = FALSE /\ k.amp = a.amp /\ k.fm = a.fm
       /\ k.initStart = a.initStart /\ k.initOk = a.initOk
       /\ k.exitFlag = a.exitFlag /\ k.exiting = a.exiting
       /\ k.waitExit = a.waitExit /\ k.stack = a.stack /\ k.tone = None
       /\ k.timers = t /\ k.queue = r
  <2>1. /\ d.curr = a.curr /\ d.next = a.next /\ d.at = a.at
        /\ d.amp = a.amp /\ d.fm = a.fm
        /\ d.initStart = a.initStart /\ d.initOk = a.initOk
        /\ d.exitFlag = a.exitFlag /\ d.exiting = a.exiting
        /\ d.waitExit = a.waitExit /\ d.stack = a.stack
        /\ d.timers = t
    BY DEF Apps
  <2> HIDE DEF d
  <2>2. k \in Apps
    BY <1>5, <1>7, <1>8, ZenonT(60) DEF Apps
  <2> QED BY <1>5, <1>7, <1>8, <2>1, <2>2 DEF Apps
<1>11. BtClosed(a) = IF k.initStart THEN Armed([k EXCEPT !.exiting = TRUE], "exitTick")
                     ELSE k
  BY <1>3 DEF BtClosed, k
<1> HIDE DEF d
<1>12. CASE ~a.initStart
  BY <1>4, <1>9, <1>10, <1>11, <1>12 DEF Apps
<1>13. CASE a.initStart
  <2> DEFINE u == t \cup {"exitTick"}
             b == BtClosed(a)
  <2>1. u \in SUBSET Ticks /\ "exitTick" \in u
    BY <1>4 DEF Ticks
  <2>2. b = [[k EXCEPT !.exiting = TRUE] EXCEPT !.timers = u]
    BY <1>10, <1>11, <1>13 DEF Armed, Apps
  <2> HIDE DEF u, b
  <2>3. b \in Apps
    BY <1>10, <2>1, <2>2, ZenonT(60) DEF Apps
  <2>4. /\ b.curr = k.curr /\ b.next = k.next /\ b.at = k.at
        /\ b.keys = k.keys /\ b.amp = k.amp /\ b.fm = k.fm
        /\ b.initStart = k.initStart /\ b.initOk = k.initOk
        /\ b.exitFlag = k.exitFlag /\ b.exiting = TRUE
        /\ b.waitExit = k.waitExit /\ b.stack = k.stack /\ b.tone = k.tone
        /\ b.timers = u /\ b.queue = k.queue
    BY <1>10, <2>2 DEF Apps
  <2>5. a.initStart = TRUE
    BY <1>13 DEF Apps
  <2> QED BY <1>9, <1>10, <1>13, <2>1, <2>3, <2>4, <2>5 DEF b
<1> QED BY <1>12, <1>13

\* A mode that was left: what is true before the next one is entered.
LEMMA LeftIs ==
  ASSUME NEW a, GoodApp(a), a.next # None
  PROVE  LET b == Exitting(a)
         IN  /\ b \in Apps /\ b.curr = a.next /\ b.next = None /\ b.at = a.at
             /\ b.keys = FALSE /\ b.amp = FALSE /\ b.fm = a.fm
             /\ b.initStart = a.initStart /\ b.initOk = a.initOk
             /\ b.exitFlag = a.exitFlag /\ b.exiting = a.exiting
             /\ b.waitExit = a.waitExit /\ b.stack = a.stack /\ b.tone = a.tone
             /\ b.timers = a.timers
             /\ Follows(a.queue, b.queue) /\ FmFollows(a.queue, b.queue)
             /\ NoKeys(b.queue)
<1> DEFINE b == Exitting(a)
<1>1. a \in Apps /\ a.next \in AppModes
  BY DEF GoodApp, Apps
<1>2. PICK q \in Seq(Msgs) :
        /\ b = [[a EXCEPT !.curr = a.next, !.next = None, !.amp = FALSE]
                    EXCEPT !.keys = FALSE, !.queue = q]
        /\ Follows(a.queue, q) /\ FmFollows(a.queue, q) /\ NoKeys(q)
  BY <1>1, ExittingIs
<1> HIDE DEF b
<1> DEFINE v == [a EXCEPT !.curr = a.next, !.next = None, !.amp = FALSE]
<1>3. v \in Apps
  BY <1>1 DEF Apps
<1>4. b \in Apps
  <2> HIDE DEF v
  <2>1. b = [v EXCEPT !.keys = FALSE, !.queue = q]
    BY <1>2 DEF v
  <2> QED BY <1>3, <2>1 DEF Apps
<1>5. /\ b.curr = a.next /\ b.next = None /\ b.at = a.at
      /\ b.keys = FALSE /\ b.amp = FALSE /\ b.fm = a.fm
      /\ b.initStart = a.initStart /\ b.initOk = a.initOk
      /\ b.exitFlag = a.exitFlag /\ b.exiting = a.exiting
      /\ b.waitExit = a.waitExit /\ b.stack = a.stack /\ b.tone = a.tone
      /\ b.timers = a.timers /\ b.queue = q
  BY <1>1, <1>2 DEF Apps
<1> QED BY <1>2, <1>4, <1>5 DEF b

LEMMA BtTailGood ==
  ASSUME NEW a, GoodApp(a), a.at = "bt"
  PROVE  GoodApp(BtTail(a))
<1>1. CASE a.initStart /\ ~a.initOk
  BY <1>1 DEF BtTail
<1>2. CASE a.next # None /\ ~(a.initStart /\ ~a.initOk)
  <2> DEFINE e == Exitting(a)
             c == BtClosed(e)
  <2>1. /\ e \in Apps /\ e.curr = a.next /\ e.next = None /\ e.at = a.at
        /\ e.amp = FALSE /\ e.fm = a.fm
        /\ e.initStart = a.initStart /\ e.initOk = a.initOk
        /\ e.exitFlag = a.exitFlag /\ e.exiting = a.exiting
        /\ e.waitExit = a.waitExit /\ e.stack = a.stack /\ e.tone = a.tone
        /\ Follows(a.queue, e.queue) /\ FmFollows(a.queue, e.queue)
    BY <1>2, LeftIs
  <2> HIDE DEF e
  <2>2. (~e.initStart) => (~e.exiting)
    BY <2>1 DEF GoodApp, StackFlags
  <2>3. e.tone # "fm"
    BY <2>1 DEF GoodApp, Places
  <2>4. /\ c \in Apps /\ c.curr = e.curr /\ c.next = e.next /\ c.at = e.at
        /\ c.keys = FALSE /\ c.amp = e.amp /\ c.fm = e.fm
        /\ c.initStart = e.initStart /\ c.initOk = e.initOk
        /\ c.exitFlag = e.exitFlag /\ c.exiting = e.initStart
        /\ c.waitExit = e.waitExit /\ c.stack = e.stack /\ c.tone = None
        /\ ("exitTick" \in c.timers) <=> e.initStart
        /\ Follows(e.queue, c.queue) /\ NoKeys(c.queue)
        /\ FmFollows(e.queue, c.queue)
    BY <2>1, <2>2, <2>3, BtClosedIs
  <2> HIDE DEF c
  <2>5. /\ Follows(a.queue, c.queue) /\ FmFollows(a.queue, c.queue)
        /\ c.queue \in Seq(Msgs)
    BY <2>1, <2>4 DEF Follows, FmFollows
  <2>6. NoFm(c.queue) /\ OneUp(c.queue)
    BY <2>5 DEF GoodApp, Waiting, Follows, FmFollows
  <2>7. CASE ~a.initStart
    <3>1. BtTail(a) = Entered(c)
      BY <1>2, <2>7 DEF BtTail, c, e
    <3>2. a.stack = "off" /\ a.exitFlag /\ (~a.initOk) /\ (~a.fm)
      BY <2>7 DEF GoodApp, StackFlags, Places
    <3>3. NoUp(c.queue)
      BY <2>5, <3>2 DEF GoodApp, Waiting, Follows
    <3>4. Ready(c)
      BY <2>1, <2>4, <2>6, <2>7, <3>2, <3>3 DEF Ready, None
    <3> QED BY <3>1, <3>4, EnteredGood
  <2>8. CASE a.initStart
    <3> DEFINE b == [c EXCEPT !.waitExit = TRUE]
    <3>1. b \in Apps /\ b.waitExit = TRUE
      BY <2>4 DEF Apps
    <3>2. /\ b.curr = c.curr /\ b.next = c.next /\ b.at = c.at
          /\ b.keys = c.keys /\ b.amp = c.amp /\ b.fm = c.fm
          /\ b.initStart = c.initStart /\ b.initOk = c.initOk
          /\ b.exitFlag = c.exitFlag /\ b.exiting = c.exiting
          /\ b.stack = c.stack /\ b.tone = c.tone
          /\ b.timers = c.timers /\ b.queue = c.queue
      BY <2>4 DEF Apps
    <3>3. BtTail(a) = b
      <4> DEFINE x == IF a.next = None THEN a ELSE [BtClosed(Exitting(a)) EXCEPT !.waitExit = TRUE]
      <4>1. x = b
        BY <1>2 DEF c, e
      <4>2. BtTail(a) = IF x.waitExit /\ ~x.exiting
               THEN Entered([x EXCEPT !.waitExit = FALSE, !.amp = FALSE])
               ELSE x
        BY <1>2, <2>8 DEF BtTail
      <4> HIDE DEF x, b
      <4> QED BY <2>1, <2>4, <2>8, <3>2, <4>1, <4>2
    <3> HIDE DEF b
    <3>4. a.next # "bt"
      BY <1>2 DEF GoodApp, Leaving
    <3>5. StackFlags(b) /\ Places(b)
      BY <1>2, <2>1, <2>4, <2>8, <3>2 DEF GoodApp, StackFlags, Places, None
    <3>6. Leaving(b)
      BY <2>1, <2>4, <2>8, <3>1, <3>2, <3>4 DEF GoodApp, Leaving, None
    <3>7. Waiting(b)
      BY <2>1, <2>4, <2>5, <2>6, <3>2 DEF GoodApp, Waiting, Follows
    <3> QED BY <3>1, <3>3, <3>5, <3>6, <3>7 DEF GoodApp
  <2> QED BY <2>7, <2>8
<1>3. CASE a.next = None /\ ~(a.initStart /\ ~a.initOk)
  <2>1. BtTail(a) = IF a.waitExit /\ ~a.exiting
               THEN Entered([a EXCEPT !.waitExit = FALSE, !.amp = FALSE])
               ELSE a
    BY <1>3 DEF BtTail
  <2>2. CASE a.waitExit /\ ~a.exiting
    <3> DEFINE c == [a EXCEPT !.waitExit = FALSE, !.amp = FALSE]
    <3>1. a \in Apps
      BY DEF GoodApp
    <3>2. /\ c \in Apps /\ c.curr = a.curr /\ c.next = a.next
          /\ c.fm = a.fm /\ c.initStart = a.initStart /\ c.initOk = a.initOk
          /\ c.exitFlag = a.exitFlag /\ c.exiting = a.exiting
          /\ c.stack = a.stack /\ c.tone = a.tone
          /\ c.timers = a.timers /\ c.queue = a.queue
      BY <3>1 DEF Apps
    <3> HIDE DEF c
    <3>3. (~a.initStart) /\ a.stack = "off" /\ a.exitFlag /\ (~a.initOk)
      BY <2>2 DEF GoodApp, Leaving, StackFlags
    <3>4. (~a.fm) /\ a.tone # "fm" /\ "exitTick" \notin a.timers
      BY <2>2 DEF GoodApp, Places, StackFlags
    <3>5. NoUp(a.queue) /\ OneUp(a.queue) /\ NoFm(a.queue)
      BY <3>3 DEF GoodApp, Waiting
    <3>6. Ready(c)
      BY <1>3, <2>2, <3>2, <3>3, <3>4, <3>5 DEF Ready
    <3>7. BtTail(a) = Entered(c)
      BY <2>1, <2>2 DEF c
    <3> QED BY <3>6, <3>7, EnteredGood
  <2>3. CASE ~(a.waitExit /\ ~a.exiting)
    BY <2>1, <2>3
  <2> QED BY <2>2, <2>3
<1> QED BY <1>1, <1>2, <1>3

LEMMA LoopTailGood ==
  ASSUME NEW a, GoodApp(a)
  PROVE  GoodApp(LoopTail(a))
<1>1. CASE a.at = "bt"
  BY <1>1, BtTailGood DEF LoopTail
<1>2. CASE a.at # "bt" /\ a.next = None
  BY <1>2 DEF LoopTail
<1>3. CASE a.at # "bt" /\ a.next # None
  <2> DEFINE e == Exitting(a)
  <2>1. /\ e \in Apps /\ e.curr = a.next /\ e.next = None /\ e.at = a.at
        /\ e.fm = a.fm /\ e.initStart = a.initStart /\ e.initOk = a.initOk
        /\ e.exitFlag = a.exitFlag /\ e.exiting = a.exiting
        /\ e.stack = a.stack /\ e.tone = a.tone /\ e.timers = a.timers
        /\ Follows(a.queue, e.queue) /\ FmFollows(a.queue, e.queue)
    BY <1>3, LeftIs
  <2> HIDE DEF e
  <2>2. /\ a.stack = "off" /\ a.exitFlag /\ (~a.initStart) /\ (~a.initOk)
        /\ (~a.exiting) /\ "exitTick" \notin a.timers
    BY <1>3 DEF GoodApp, StackFlags, Places
  <2>3. NoUp(e.queue) /\ OneUp(e.queue)
    BY <2>1, <2>2 DEF GoodApp, Waiting, Follows
  <2>4. CASE a.at = "fm"
    <3> DEFINE f == [e EXCEPT !.fm = FALSE]
               c == FmClosed(e)
    <3>1. /\ f \in Apps /\ f.curr = e.curr /\ f.next = e.next
          /\ f.fm = FALSE /\ f.initStart = e.initStart /\ f.initOk = e.initOk
          /\ f.exitFlag = e.exitFlag /\ f.exiting = e.exiting
          /\ f.stack = e.stack /\ f.tone = e.tone /\ f.timers = e.timers
          /\ f.queue = e.queue
      BY <2>1 DEF Apps
    <3>2. c = IF f.tone = "fm" THEN ToneStopped(f) ELSE f
      BY DEF FmClosed
    <3> HIDE DEF f, c
    <3>3. f.curr # "bt"
      BY <2>1, <2>4, <3>1 DEF GoodApp, Leaving
    <3>4. CASE f.tone # "fm"
      <4>1. Ready(f)
        BY <2>1, <2>2, <2>3, <3>1, <3>3, <3>4 DEF Ready
      <4> QED BY <2>4, <1>3, <3>2, <3>4, <4>1, EnteredGood DEF LoopTail, c, e
    <3>5. CASE f.tone = "fm"
      <4>1. PICK q \in Seq(Msgs) :
              /\ c = [[f EXCEPT !.tone = None] EXCEPT !.queue = q]
              /\ Follows(f.queue, q)
        BY <3>1, <3>2, <3>5, ToneStoppedIs
      <4>2. /\ c \in Apps /\ c.curr = f.curr /\ c.next = f.next
            /\ c.fm = FALSE /\ c.initStart = f.initStart /\ c.initOk = f.initOk
            /\ c.exitFlag = f.exitFlag /\ c.exiting = f.exiting
            /\ c.stack = f.stack /\ c.tone = None /\ c.timers = f.timers
            /\ c.queue = q
        BY <3>1, <4>1 DEF Apps
      <4>3. NoUp(q) /\ OneUp(q)
        BY <2>3, <3>1, <4>1 DEF Follows
      <4>4. Ready(c)
        BY <2>1, <2>2, <3>1, <3>3, <4>2, <4>3 DEF Ready, None
      <4> QED BY <2>4, <1>3, <4>4, EnteredGood DEF LoopTail, c, e
    <3> QED BY <3>4, <3>5
  <2>5. CASE a.at # "fm"
    <3>1. (e.curr = "bt") => NoFm(e.queue)
      <4>1. a.at \in AppModes
        BY DEF GoodApp, Apps
      <4>2. (a.next = "bt") => NoFm(a.queue)
        BY <1>3, <2>5, <4>1 DEF GoodApp, Waiting, AppModes
      <4> QED BY <2>1, <4>2 DEF FmFollows
    <3>2. (~e.fm) /\ e.tone # "fm"
      BY <2>1, <2>5 DEF GoodApp, Places
    <3>3. Ready(e)
      BY <2>1, <2>2, <2>3, <3>1, <3>2 DEF Ready
    <3> QED BY <1>3, <2>5, <3>3, EnteredGood DEF LoopTail, e
  <2> QED BY <2>4, <2>5
<1> QED BY <1>1, <1>2, <1>3

-----------------------------------------------------------------------------
LEMMA PostedGood ==
  ASSUME NEW a, GoodApp(a), NEW m \in Msgs, m # "initOk", m # "fmTone",
         m \in KeyMsgs => a.keys
  PROVE  GoodApp(Posted(a, m))
<1> DEFINE b == Posted(a, m)
           q == Append(a.queue, m)
<1>1. a \in Apps /\ a.queue \in Seq(Msgs)
  BY DEF GoodApp, Apps
<1>2. q \in Seq(Msgs) /\ FmFollows(a.queue, q)
  BY <1>1, PostedFollows
<1>3. (OneUp(a.queue) => OneUp(q)) /\ (NoUp(a.queue) => NoUp(q))
  BY <1>1, PostedFollows
<1>4. (NoKeys(a.queue) /\ m \notin KeyMsgs) => NoKeys(q)
  BY <1>1, PostedFollows DEF Follows
<1> HIDE DEF q
<1>5. b = [a EXCEPT !.queue = q]
  BY DEF Posted, q
<1> HIDE DEF b
<1>6. /\ b \in Apps /\ b.curr = a.curr /\ b.next = a.next /\ b.at = a.at
      /\ b.keys = a.keys
      /\ b.amp = a.amp /\ b.fm = a.fm /\ b.initStart = a.initStart
      /\ b.initOk = a.initOk /\ b.exitFlag = a.exitFlag /\ b.exiting = a.exiting
      /\ b.waitExit = a.waitExit /\ b.stack = a.stack /\ b.tone = a.tone
      /\ b.timers = a.timers /\ b.queue = q
  BY <1>1, <1>2, <1>5 DEF Apps
<1>7. StackFlags(b) /\ Places(b)
  BY <1>6 DEF GoodApp, StackFlags, Places
<1>8. Leaving(b)
  BY <1>6 DEF GoodApp, Leaving
<1>9. Waiting(b)
  BY <1>2, <1>3, <1>4, <1>6 DEF GoodApp, Waiting, FmFollows
<1> QED BY <1>6, <1>7, <1>8, <1>9 DEF GoodApp, b

LEMMA StackUpGood ==
  ASSUME NEW a, GoodApp(a), a.stack = "starting"
  PROVE  GoodApp(Posted([a EXCEPT !.stack = "on"], "initOk"))
<1> DEFINE b == Posted([a EXCEPT !.stack = "on"], "initOk")
           q == Append(a.queue, "initOk")
<1>1. a \in Apps /\ a.queue \in Seq(Msgs) /\ "initOk" \in Msgs
  BY DEF GoodApp, Apps, Msgs, BtMsgs
<1>2. q \in Seq(Msgs) /\ FmFollows(a.queue, q)
  BY <1>1, PostedFollows
<1>3. NoUp(a.queue)
  BY DEF GoodApp, Waiting
<1>4. OneUp(q)
  BY <1>1, <1>3, PostedFollows
<1>5. NoKeys(a.queue) => NoKeys(q)
  <2>1. \A x : (Absent(a.queue, x) /\ "initOk" # x) => Absent(q, x)
    BY <1>1, PostedQueue
  <2> QED BY <2>1 DEF NoKeys, KeyMsgs
<1> HIDE DEF q
<1>6. b = [[a EXCEPT !.stack = "on"] EXCEPT !.queue = q]
  BY <1>1 DEF Posted, q, Apps
<1> HIDE DEF b
<1>7. /\ b \in Apps /\ b.curr = a.curr /\ b.next = a.next /\ b.at = a.at
      /\ b.keys = a.keys
      /\ b.amp = a.amp /\ b.fm = a.fm /\ b.initStart = a.initStart
      /\ b.initOk = a.initOk /\ b.exitFlag = a.exitFlag /\ b.exiting = a.exiting
      /\ b.waitExit = a.waitExit /\ b.stack = "on" /\ b.tone = a.tone
      /\ b.timers = a.timers /\ b.queue = q
  BY <1>1, <1>2, <1>6 DEF Apps
<1>8. StackFlags(b) /\ Places(b)
  BY <1>7 DEF GoodApp, StackFlags, Places
<1>9. Leaving(b)
  BY <1>7 DEF GoodApp, Leaving
<1>10. ~a.initOk
  BY DEF GoodApp, StackFlags
<1>11. Waiting(b)
  BY <1>2, <1>4, <1>5, <1>7, <1>10 DEF GoodApp, Waiting, FmFollows
<1> QED BY <1>7, <1>8, <1>9, <1>11 DEF GoodApp, b

LEMMA AudioEndsGood ==
  ASSUME NEW a, GoodApp(a)
  PROVE  GoodApp([a EXCEPT !.esco = FALSE]) /\ GoodApp([a EXCEPT !.a2dp = FALSE])
<1>1. a \in Apps /\ a.queue \in Seq(Msgs)
  BY DEF GoodApp, Apps
<1> DEFINE b == [a EXCEPT !.esco = FALSE]
           c == [a EXCEPT !.a2dp = FALSE]
<1>2. /\ b \in Apps /\ SameApp(a, b) /\ b.queue = a.queue
      /\ c \in Apps /\ SameApp(a, c) /\ c.queue = a.queue
  BY <1>1 DEF Apps, SameApp
<1> HIDE DEF b, c
<1>3. GoodApp(b) /\ GoodApp(c)
  BY <1>1, <1>2, SameGood, FollowsSelf
<1> QED BY <1>3 DEF b, c

-----------------------------------------------------------------------------
Outdoors ==
    /\ call \in {"hangup", "alert", "active"}
    /\ link \subseteq {"phone", "music"}
    /\ inputs \in 0 .. Inputs /\ low \in BOOLEAN

SwitchInv == GoodApp(app) /\ Outdoors

\* The speaker comes up in idle with the stack off and nothing in the queue.
THEOREM SwitchStarts ==
  ASSUME Inputs \in Nat PROVE SwitchInit => SwitchInv
<1> SUFFICES ASSUME SwitchInit PROVE SwitchInv
  OBVIOUS
<1>1. PICK last \in {"bt", "fm", "rtc"} :
         app = [curr |-> "idle", next |-> None, prev |-> last, at |-> "idle",
                keys |-> TRUE, amp |-> FALSE, fm |-> FALSE,
                initStart |-> FALSE, initOk |-> FALSE, exitFlag |-> TRUE,
                exiting |-> FALSE, waitExit |-> FALSE, force |-> FALSE,
                offFlag |-> FALSE, pressed |-> FALSE, timers |-> {},
                stack |-> "off", a2dp |-> FALSE, esco |-> FALSE,
                tone |-> None, queue |-> <<>>]
  BY DEF SwitchInit
<1>2. app \in Apps
  <2>1. <<>> \in Seq(Msgs) /\ {} \in SUBSET Ticks
    OBVIOUS
  <2> QED BY <1>1, <2>1 DEF Apps, AppModes
<1>3. StackFlags(app) /\ Places(app)
  BY <1>1 DEF StackFlags, Places, None
<1>4. Leaving(app)
  BY <1>1 DEF Leaving, None
<1>5. Waiting(app)
  <2>1. \A x : Absent(<<>>, x) /\ Once(<<>>, x)
    BY DEF Absent, Once
  <2> QED BY <1>1, <2>1 DEF Waiting, NoUp, OneUp, NoFm
<1>6. Outdoors
  <2>1. 0 \in 0 .. Inputs
    OBVIOUS
  <2> QED BY <2>1 DEF SwitchInit, Outdoors
<1> QED BY <1>2, <1>3, <1>4, <1>5, <1>6 DEF SwitchInv, GoodApp

LEMMA SwitchKeeps ==
  ASSUME Inputs \in Nat, SwitchInv, SwitchNext
  PROVE  SwitchInv'
<1> USE DEF SwitchInv
<1>1. CASE TakeMsg
  <2> DEFINE t == [app EXCEPT !.queue = Tail(@)]
             m == Head(app.queue)
  <2>1. PICK last \in BOOLEAN, back \in BOOLEAN :
          LET b == Dispatched(t, m, last)
          IN  /\ app' = IF back THEN LoopTail(b) ELSE b
              /\ call' = IF b.stack = "off" THEN "hangup" ELSE call
              /\ link' = IF b.stack = "off" THEN {} ELSE link
    BY <1>1 DEF TakeMsg
  <2>2. app.queue # <<>> /\ inputs' = inputs /\ low' = low
    BY <1>1 DEF TakeMsg
  <2>3. GoodApp(t) /\ HeadFits(t, m)
    BY <2>2, TakenGood
  <2> HIDE DEF t, m
  <2>4. GoodApp(Dispatched(t, m, last))
    BY <2>3, DispatchedGood
  <2>5. GoodApp(app')
    BY <2>1, <2>4, LoopTailGood
  <2>6. Outdoors'
    BY <2>1, <2>2 DEF Outdoors
  <2> QED BY <2>5, <2>6
<1>2. CASE OtherMsg
  BY <1>2, LoopTailGood DEF OtherMsg, Outdoors
<1>3. CASE ToneEnds
  <2>1. app.tone # "fm" \/ app.at = "fm"
    BY DEF GoodApp, Places
  <2> QED BY <1>3, <2>1, ToneStoppedGood DEF ToneEnds, Outdoors
<1>4. CASE StackUp
  BY <1>4, StackUpGood DEF StackUp, Outdoors
<1>5. CASE CallEnds
  BY <1>5 DEF CallEnds, Outdoors
<1>6. ASSUME NEW k \in {"phone", "music"}, LinkCloses(k) PROVE SwitchInv'
  <2>1. GoodApp(Posted(app, "phone-")) /\ GoodApp(Posted(app, "music-"))
    BY PostedGood DEF Msgs, BtMsgs, KeyMsgs
  <2> QED BY <1>6, <2>1 DEF LinkCloses, Outdoors
<1>7. ASSUME NEW k \in KeyMsgs, Press(k) PROVE SwitchInv'
  <2>1. GoodApp(Posted(app, k))
    BY <1>7, PostedGood DEF Press, Msgs, KeyMsgs
  <2>2. Outdoors'
    BY <1>7 DEF Press, Input, Outdoors
  <2> QED BY <1>7, <2>1, <2>2 DEF Press
<1>8. CASE AlarmDue
  <2>1. GoodApp(Posted(app, "alarm"))
    BY PostedGood DEF Msgs, KeyMsgs
  <2>2. Outdoors'
    BY <1>8 DEF AlarmDue, Input, Outdoors
  <2> QED BY <1>8, <2>1, <2>2 DEF AlarmDue
<1>9. CASE BatteryLow
  <2>1. GoodApp(Posted(app, "low"))
    BY PostedGood DEF Msgs, KeyMsgs
  <2> QED BY <1>9, <2>1 DEF BatteryLow, Outdoors
<1>10. ASSUME NEW status \in {"alert", "active"}, CallBegins(status) PROVE SwitchInv'
  BY <1>10 DEF CallBegins, Input, Outdoors
<1>11. ASSUME NEW k \in {"phone", "music"}, LinkOpens(k) PROVE SwitchInv'
  <2>1. GoodApp(Posted(app, "phone+")) /\ GoodApp(Posted(app, "music+"))
    BY PostedGood DEF Msgs, BtMsgs, KeyMsgs
  <2>2. Outdoors'
    BY <1>11 DEF LinkOpens, Input, Outdoors
  <2> QED BY <1>11, <2>1, <2>2 DEF LinkOpens
<1>12. ASSUME NEW t \in Ticks, Expires(t) PROVE SwitchInv'
  <2>1. GoodApp(Posted(app, t))
    BY <1>12, PostedGood DEF Msgs, Callbacks, Ticks, KeyMsgs
  <2> QED BY <1>12, <2>1 DEF Expires, Outdoors
<1>13. ASSUME NEW k \in {"phone", "music"}, AudioEnds(k) PROVE SwitchInv'
  BY <1>13, AudioEndsGood DEF AudioEnds, Outdoors
<1> QED
  BY <1>1, <1>2, <1>3, <1>4, <1>5, <1>6, <1>7, <1>8, <1>9, <1>10, <1>11, <1>12, <1>13
     DEF SwitchNext, AppCore, Phone, Outside

\* The invariant is kept by every step: keys, alarms, calls, links, timers, tones
\* and the stack, in any order.
THEOREM SwitchInvariant ==
  ASSUME Inputs \in Nat PROVE SwitchSpec => []SwitchInv
<1>1. SwitchInv /\ [SwitchNext]_switchVars => SwitchInv'
  <2>1. SwitchInv /\ UNCHANGED switchVars => SwitchInv'
    BY DEF switchVars, SwitchInv, Outdoors
  <2> QED BY <2>1, SwitchKeeps
<1> QED BY <1>1, SwitchStarts, PTL DEF SwitchSpec

\* What app_core and the modules it calls keep has its type; nobody enters a mode
\* that nobody asked for.
THEOREM SwitchType ==
  ASSUME Inputs \in Nat PROVE SwitchSpec => []SwitchTypeOK
<1>1. SwitchInv => SwitchTypeOK
  BY DEF SwitchInv, GoodApp, Outdoors, SwitchTypeOK, Apps
<1> QED BY <1>1, SwitchInvariant, PTL

\* The flags of bt.c tell the truth about the stack; no mode runs beside the
\* stack or the tuner of another; and a mode nobody asked to leave has its keys
\* and its amplifier: for any number of inputs (app_task_loop, app_bt_task).
THEOREM ModesStaySound ==
  ASSUME Inputs \in Nat PROVE SwitchSpec => []ModesAreSound
<1>1. SwitchInv => ModesAreSound
  <2> SUFFICES ASSUME SwitchInv PROVE ModesAreSound
    OBVIOUS
  <2>1. FlagsAgree
    BY DEF FlagsAgree, SwitchInv, GoodApp, StackFlags
  <2>2. OneModeAtATime
    BY DEF OneModeAtATime, SwitchInv, GoodApp, StackFlags, Places
  <2>3. ModeIsAlive
    BY DEF ModeIsAlive, SwitchInv, GoodApp, Leaving
  <2> QED BY <2>1, <2>2, <2>3 DEF ModesAreSound
<1> QED BY <1>1, SwitchInvariant, PTL
=============================================================================
