--------------------------- MODULE CalendarProofs ---------------------------
(***************************************************************************)
(* The weekday formula of watering.c against counted weekdays, for every   *)
(* date from the epoch on: the runs show single weeks and years.           *)
(***************************************************************************)
EXTENDS WateringWeek, FiniteSetTheorems, TLAPS

(* Century(y) is what the year y adds to the formula beside y itself.      *)
Century(y) == y \div 4 - y \div 100 + y \div 400

LEMMA EarlyMonths ==
    ASSUME NEW y \in Nat, NEW m \in 1 .. 2, NEW d \in Nat
    PROVE  get_day_of_week([year |-> y, month |-> m, day |-> d])
             = ((23 * m) \div 9 + d + y + 4 + Century(y - 1)) % 7
BY DEF get_day_of_week, Century

LEMMA LateMonths ==
    ASSUME NEW y \in Nat, NEW m \in 3 .. 12, NEW d \in Nat
    PROVE  get_day_of_week([year |-> y, month |-> m, day |-> d])
             = ((23 * m) \div 9 + d + y + 2 + Century(y)) % 7
BY DEF get_day_of_week, Century

(* A year adds one leap day more than its predecessor exactly when it is a *)
(* leap year.                                                              *)
LEMMA LeapDay ==
    ASSUME NEW y \in Nat, y >= 1
    PROVE  Century(y) = Century(y - 1) + (IF IsLeap(y) THEN 1 ELSE 0)
<1>1. y \div 4 = (y - 1) \div 4 + (IF y % 4 = 0 THEN 1 ELSE 0)
  OBVIOUS
<1>2. y \div 100 = (y - 1) \div 100 + (IF y % 100 = 0 THEN 1 ELSE 0)
  OBVIOUS
<1>3. y \div 400 = (y - 1) \div 400 + (IF y % 400 = 0 THEN 1 ELSE 0)
  OBVIOUS
<1>4. (y % 400 = 0 => y % 100 = 0) /\ (y % 100 = 0 => y % 4 = 0)
  OBVIOUS
<1>5. /\ (y - 1) \div 4 \in Int /\ (y - 1) \div 100 \in Int
      /\ (y - 1) \div 400 \in Int
  OBVIOUS
<1>6. IsLeap(y) <=> y % 4 = 0 /\ (y % 100 # 0 \/ y % 400 = 0)
  BY DEF IsLeap
<1> QED BY <1>1, <1>2, <1>3, <1>4, <1>5, <1>6 DEF Century

LEMMA CenturyType == ASSUME NEW y \in Int PROVE Century(y) \in Int
BY DEF Century

LEMMA NextWeekday ==
    ASSUME NEW a \in Int, NEW b \in Int, NEW k \in Int, b = a + 1 + 7 * k
    PROVE  b % 7 = ((a % 7) + 1) % 7
OBVIOUS

(* The three kinds of step of the calendar each advance the formula by one. *)
LEMMA DayStep ==
    ASSUME NEW y \in Nat, NEW m \in 1 .. 12, NEW d \in Nat
    PROVE  get_day_of_week([year |-> y, month |-> m, day |-> d + 1])
             = (get_day_of_week([year |-> y, month |-> m, day |-> d]) + 1) % 7
<1>0. Century(y) \in Int /\ Century(y - 1) \in Int
  BY CenturyType
<1>1. CASE m \in 1 .. 2
  <2> DEFINE a == (23 * m) \div 9 + d + y + 4 + Century(y - 1)
  <2>1. a \in Int
    BY <1>0
  <2>2. get_day_of_week([year |-> y, month |-> m, day |-> d]) = a % 7
    BY <1>1, EarlyMonths
  <2>3. get_day_of_week([year |-> y, month |-> m, day |-> d + 1])
           = ((23 * m) \div 9 + (d + 1) + y + 4 + Century(y - 1)) % 7
    BY <1>1, EarlyMonths, d + 1 \in Nat
  <2>4. (23 * m) \div 9 + (d + 1) + y + 4 + Century(y - 1) = a + 1 + 7 * 0
    BY <1>0
  <2> HIDE DEF a
  <2> QED BY <2>1, <2>2, <2>3, <2>4, NextWeekday
<1>2. CASE m \in 3 .. 12
  <2> DEFINE a == (23 * m) \div 9 + d + y + 2 + Century(y)
  <2>1. a \in Int
    BY <1>0
  <2>2. get_day_of_week([year |-> y, month |-> m, day |-> d]) = a % 7
    BY <1>2, LateMonths
  <2>3. get_day_of_week([year |-> y, month |-> m, day |-> d + 1])
           = ((23 * m) \div 9 + (d + 1) + y + 2 + Century(y)) % 7
    BY <1>2, LateMonths, d + 1 \in Nat
  <2>4. (23 * m) \div 9 + (d + 1) + y + 2 + Century(y) = a + 1 + 7 * 0
    BY <1>0
  <2> HIDE DEF a
  <2> QED BY <2>1, <2>2, <2>3, <2>4, NextWeekday
<1> QED BY <1>1, <1>2

LEMMA MonthStep ==
    ASSUME NEW y \in Nat, y >= 1, NEW m \in 1 .. 11
    PROVE  get_day_of_week([year |-> y, month |-> m + 1, day |-> 1])
             = (get_day_of_week([year |-> y, month |-> m,
                                 day |-> DaysIn(m, y)]) + 1) % 7
<1> DEFINE last == DaysIn(m, y)
           a == (23 * m) \div 9 + last + y + 4 + Century(y - 1)
           c == (23 * m) \div 9 + last + y + 2 + Century(y)
<1>0. Century(y) \in Int /\ Century(y - 1) \in Int /\ last \in Nat
  BY CenturyType DEF DaysIn
<1>1. CASE m = 1
  <2>1. get_day_of_week([year |-> y, month |-> m, day |-> last]) = a % 7
    BY <1>1, <1>0, EarlyMonths
  <2>2. get_day_of_week([year |-> y, month |-> m + 1, day |-> 1])
          = ((23 * 2) \div 9 + 1 + y + 4 + Century(y - 1)) % 7
    BY <1>1, EarlyMonths
  <2>3. last = 31
    BY <1>1 DEF DaysIn
  <2>4. (23 * 2) \div 9 + 1 + y + 4 + Century(y - 1) = a + 1 + 7 * (-4)
    BY <1>0, <1>1, <2>3
  <2>5. a \in Int
    BY <1>0
  <2> HIDE DEF a
  <2> QED BY <2>1, <2>2, <2>4, <2>5, <1>0, NextWeekday
<1>2. CASE m = 2
  <2> DEFINE leap == IF IsLeap(y) THEN 1 ELSE 0
  <2>1. get_day_of_week([year |-> y, month |-> m, day |-> last]) = a % 7
    BY <1>2, <1>0, EarlyMonths
  <2>2. get_day_of_week([year |-> y, month |-> m + 1, day |-> 1])
          = ((23 * 3) \div 9 + 1 + y + 2 + Century(y)) % 7
    BY <1>2, LateMonths
  <2>3. last = 28 + leap
    BY <1>2 DEF DaysIn
  <2>4. Century(y) = Century(y - 1) + leap
    BY LeapDay
  <2>5. (23 * 3) \div 9 + 1 + y + 2 + Century(y) = a + 1 + 7 * (-4)
    BY <1>0, <1>2, <2>3, <2>4
  <2>6. a \in Int
    BY <1>0
  <2> HIDE DEF a
  <2> QED BY <2>1, <2>2, <2>5, <2>6, <1>0, NextWeekday
<1>3. CASE m \in 3 .. 11
  <2>1. get_day_of_week([year |-> y, month |-> m, day |-> last]) = c % 7
    BY <1>3, <1>0, LateMonths
  <2>2. get_day_of_week([year |-> y, month |-> m + 1, day |-> 1])
          = ((23 * (m + 1)) \div 9 + 1 + y + 2 + Century(y)) % 7
    BY <1>3, m + 1 \in 3 .. 12, LateMonths
  <2>3. last = IF m \in {4, 6, 9, 11} THEN 30 ELSE 31
    BY <1>3 DEF DaysIn
  <2>4. (23 * (m + 1)) \div 9 + 1 + y + 2 + Century(y) = c + 1 + 7 * (-4)
    BY <1>0, <1>3, <2>3
  <2>5. c \in Int
    BY <1>0
  <2> HIDE DEF c
  <2> QED BY <2>1, <2>2, <2>4, <2>5, <1>0, NextWeekday
<1> QED BY <1>1, <1>2, <1>3

LEMMA YearStep ==
    ASSUME NEW y \in Nat, y >= 1
    PROVE  get_day_of_week([year |-> y + 1, month |-> 1, day |-> 1])
             = (get_day_of_week([year |-> y, month |-> 12, day |-> 31]) + 1) % 7
<1> DEFINE c == (23 * 12) \div 9 + 31 + y + 2 + Century(y)
<1>0. Century(y) \in Int
  BY CenturyType
<1>1. get_day_of_week([year |-> y, month |-> 12, day |-> 31]) = c % 7
  BY LateMonths
<1>2. get_day_of_week([year |-> y + 1, month |-> 1, day |-> 1])
        = ((23 * 1) \div 9 + 1 + (y + 1) + 4 + Century((y + 1) - 1)) % 7
  BY y + 1 \in Nat, EarlyMonths
<1>3. (y + 1) - 1 = y
  OBVIOUS
<1>4. (23 * 1) \div 9 + 1 + (y + 1) + 4 + Century(y) = c + 1 + 7 * (-8)
  BY <1>0
<1>5. c \in Int
  BY <1>0
<1> HIDE DEF c
<1> QED BY <1>1, <1>2, <1>3, <1>4, <1>5, <1>0, NextWeekday

(* The calendar keeps struct tm well formed and the formula equal to the   *)
(* counted weekday.                                                        *)
CalendarInv == TypeOK /\ WeekdayCorrect

LEMMA InitCalendar == Init => CalendarInv
<1> SUFFICES ASSUME Init PROVE CalendarInv
  OBVIOUS
<1>1. TypeOK
  BY DEF Init, TypeOK, Epoch, Thursday, DaysIn, DayOfWeek_t, sunday, saturday
<1>2. get_day_of_week([year |-> 1970, month |-> 1, day |-> 1])
        = ((23 * 1) \div 9 + 1 + 1970 + 4 + Century(1970 - 1)) % 7
  BY EarlyMonths
<1>3. Century(1970 - 1) = 492 - 19 + 4
  BY DEF Century
<1>4. WeekdayCorrect
  BY <1>2, <1>3 DEF Init, WeekdayCorrect, Epoch, Thursday
<1> QED BY <1>1, <1>4 DEF CalendarInv

LEMMA NextCalendar == CalendarInv /\ [Next]_vars => CalendarInv'
<1> SUFFICES ASSUME CalendarInv, [Next]_vars PROVE CalendarInv'
  OBVIOUS
<1> USE DEF CalendarInv
<1> DEFINE y == date.year
           m == date.month
           d == date.day
<1>1. CASE UNCHANGED vars
  BY <1>1 DEF vars, TypeOK, WeekdayCorrect
<1>2. CASE Next
  <2>1. /\ y \in Nat /\ y >= 1 /\ m \in 1 .. 12 /\ d \in Nat /\ d <= DaysIn(m, y)
        /\ date = [year |-> y, month |-> m, day |-> d]
        /\ weekday \in 0 .. 6 /\ weekday' = (weekday + 1) % 7
        /\ get_day_of_week([year |-> y, month |-> m, day |-> d]) = weekday
    BY <1>2 DEF Next, TypeOK, WeekdayCorrect, DayOfWeek_t, sunday, saturday
  <2>2. weekday' \in DayOfWeek_t
    BY <2>1 DEF DayOfWeek_t, sunday, saturday
  <2>3. \A k \in 1 .. 12, z \in Nat : DaysIn(k, z) \in 28 .. 31
    BY DEF DaysIn
  <2>4. CASE NextDay
    <3>1. date' = [year |-> y, month |-> m, day |-> d + 1] /\ d + 1 <= DaysIn(m, y)
      BY <2>1, <2>3, <2>4 DEF NextDay
    <3>2. TypeOK'
      BY <2>1, <2>2, <2>3, <3>1 DEF TypeOK
    <3>3. WeekdayCorrect'
      BY <2>1, <3>1, DayStep DEF WeekdayCorrect
    <3> QED BY <3>2, <3>3
  <2>5. CASE NextMonth
    <3>1. date' = [year |-> y, month |-> m + 1, day |-> 1] /\ d = DaysIn(m, y)
            /\ m \in 1 .. 11
      BY <2>1, <2>5 DEF NextMonth
    <3>2. TypeOK'
      BY <2>1, <2>2, <2>3, <3>1 DEF TypeOK
    <3>3. WeekdayCorrect'
      BY <2>1, <3>1, MonthStep DEF WeekdayCorrect
    <3> QED BY <3>2, <3>3
  <2>6. CASE NextYear
    <3>1. date' = [year |-> y + 1, month |-> 1, day |-> 1] /\ d = 31 /\ m = 12
      BY <2>1, <2>6 DEF NextYear, DaysIn
    <3>2. TypeOK'
      BY <2>1, <2>2, <2>3, <3>1 DEF TypeOK
    <3>3. WeekdayCorrect'
      BY <2>1, <3>1, YearStep DEF WeekdayCorrect
    <3> QED BY <3>2, <3>3
  <2> QED BY <1>2, <2>4, <2>5, <2>6 DEF Next
<1> QED BY <1>1, <1>2

(* In every year the clock can reach, watering.c's get_day_of_week is the  *)
(* weekday of the calendar.                                                *)
THEOREM WeekdayTheorem == Spec => []WeekdayCorrect
<1>1. CalendarInv => WeekdayCorrect
  BY DEF CalendarInv
<1> QED BY <1>1, InitCalendar, NextCalendar, PTL DEF Spec

(* The comparisons of time_matches_schedule, which look at hours first and *)
(* at minutes only in the first and the last hour, are the half-open       *)
(* interval [start, stop) of one day, for every entry configure_schedules  *)
(* can accept and every instant.                                           *)
THEOREM WindowTheorem ==
    ASSUME NEW t \in TimePoint_t, NEW s \in Schedule_t
    PROVE  time_matches_schedule(t, s) <=> InWindow(t, s)
<1> DEFINE h == t.hour
           m == t.minute
           hs == s.hour_start
           ms == s.minute_start
           he == s.hour_stop
           me == s.minute_stop
<1>1. h \in 0 .. 23 /\ m \in 0 .. 59
  BY DEF TimePoint_t
<1>2. hs \in 0 .. 23 /\ ms \in 0 .. 59 /\ he \in 0 .. 23 /\ me \in 0 .. 59
  BY DEF Schedule_t
<1>3. time_matches_schedule(t, s)
        <=> /\ t.day_of_week = s.day_of_week
            /\ hs <= h /\ h <= he
            /\ h = hs => m >= ms
            /\ h = he => m < me
  BY DEF time_matches_schedule
<1>4. InWindow(t, s)
        <=> /\ t.day_of_week = s.day_of_week
            /\ MinuteOfDay(hs, ms) <= MinuteOfDay(h, m)
            /\ MinuteOfDay(h, m) < MinuteOfDay(he, me)
  BY DEF InWindow, Begins, Ends
<1> HIDE DEF h, m, hs, ms, he, me
<1>5. /\ hs <= h
      /\ h <= he
      /\ h = hs => m >= ms
      /\ h = he => m < me
      <=> /\ MinuteOfDay(hs, ms) <= MinuteOfDay(h, m)
          /\ MinuteOfDay(h, m) < MinuteOfDay(he, me)
  BY <1>1, <1>2 DEF MinuteOfDay
<1> QED BY <1>3, <1>4, <1>5

(* No accepted entry can water across midnight or in the last minute of a  *)
(* day: an entry whose stop is not after its start never matches.          *)
THEOREM NoOvernightTheorem ==
    ASSUME NEW t \in TimePoint_t, NEW s \in Schedule_t,
           time_matches_schedule(t, s)
    PROVE  Begins(s) < Ends(s) /\ ~(t.hour = 23 /\ t.minute = 59)
<1> DEFINE h == t.hour
           m == t.minute
           hs == s.hour_start
           ms == s.minute_start
           he == s.hour_stop
           me == s.minute_stop
<1>1. h \in 0 .. 23 /\ m \in 0 .. 59
  BY DEF TimePoint_t
<1>2. hs \in 0 .. 23 /\ ms \in 0 .. 59 /\ he \in 0 .. 23 /\ me \in 0 .. 59
  BY DEF Schedule_t
<1>3. MinuteOfDay(hs, ms) <= MinuteOfDay(h, m)
        /\ MinuteOfDay(h, m) < MinuteOfDay(he, me)
  BY WindowTheorem DEF InWindow, Begins, Ends
<1>4. Begins(s) = MinuteOfDay(hs, ms) /\ Ends(s) = MinuteOfDay(he, me)
  BY DEF Begins, Ends
<1> HIDE DEF h, m, hs, ms, he, me
<1>5. MinuteOfDay(hs, ms) < MinuteOfDay(he, me) /\ ~(h = 23 /\ m = 59)
  BY <1>1, <1>2, <1>3 DEF MinuteOfDay
<1> QED BY <1>4, <1>5 DEF h, m

-----------------------------------------------------------------------------
(* The week of WateringWeek, minute by minute.                             *)

LastMinute == 24 * 60 - 1

(* PromisedBy(list, day) are the minutes of a day some entry covers.       *)
PromisedBy(list, day) ==
    {m \in 0 .. LastMinute :
        \E i \in DOMAIN list : /\ list[i].day_of_week = day
                               /\ Begins(list[i]) <= m /\ m < Ends(list[i])}

(* UpTo(M, m) are the minutes of M that are over, or under way, at m.      *)
UpTo(M, m) == {k \in M : k <= m}

LEMMA EntryBounds ==
    ASSUME NEW s \in Schedule_t
    PROVE  Begins(s) \in 0 .. LastMinute /\ Ends(s) \in 0 .. LastMinute
<1>1. /\ s.hour_start \in 0 .. 23 /\ s.minute_start \in 0 .. 59
      /\ s.hour_stop \in 0 .. 23 /\ s.minute_stop \in 0 .. 59
  BY DEF Schedule_t
<1>2. \A h \in 0 .. 23, m \in 0 .. 59 : MinuteOfDay(h, m) \in 0 .. LastMinute
  BY DEF MinuteOfDay, LastMinute
<1> QED BY <1>1, <1>2 DEF Begins, Ends

LEMMA MinuteBounds ==
    ASSUME NEW h \in 0 .. 23, NEW m \in 0 .. 59
    PROVE  /\ MinuteOfDay(h, m) \in 0 .. LastMinute
           /\ MinuteOfDay(h, m) = LastMinute <=> h = 23 /\ m = 59
BY DEF MinuteOfDay, LastMinute

(* An automatic valve is open in the minutes its entries promise.          *)
LEMMA OpenWhenPromised ==
    ASSUME NEW list \in Seq(Schedule_t), NEW level \in Level,
           NEW h \in 0 .. 23, NEW m \in 0 .. 59, NEW day \in DayOfWeek_t
    PROVE  get_valve_state([minute |-> m, hour |-> h, day_of_week |-> day],
                           level, automatic, list, Len(list)) = level
              <=> MinuteOfDay(h, m) \in PromisedBy(list, day)
<1> DEFINE t == [minute |-> m, hour |-> h, day_of_week |-> day]
           n == Len(list)
<1>1. t \in TimePoint_t
  BY DEF TimePoint_t
<1>2. DOMAIN list = 1 .. n /\ \A i \in 1 .. n : list[i] \in Schedule_t
  OBVIOUS
<1>3. ASSUME NEW i \in 1 .. n
      PROVE  time_matches_schedule(t, list[i])
                <=> /\ list[i].day_of_week = day
                    /\ Begins(list[i]) <= MinuteOfDay(h, m)
                    /\ MinuteOfDay(h, m) < Ends(list[i])
  <2>1. time_matches_schedule(t, list[i]) <=> InWindow(t, list[i])
    BY <1>1, <1>2, WindowTheorem
  <2> QED BY <2>1 DEF InWindow
<1>4. MinuteOfDay(h, m) \in 0 .. LastMinute
  BY MinuteBounds
<1>5. get_valve_state(t, level, automatic, list, n) = level
        <=> \E i \in 1 .. n : time_matches_schedule(t, list[i])
  BY DEF get_valve_state, automatic, on, off, Level
<1> HIDE DEF n
<1>6. MinuteOfDay(h, m) \in PromisedBy(list, day)
        <=> \E i \in 1 .. n : time_matches_schedule(t, list[i])
  BY <1>2, <1>3, <1>4 DEF PromisedBy
<1> QED BY <1>5, <1>6 DEF n

(* Counting minutes one by one.                                            *)
LEMMA UpToFinite ==
    ASSUME NEW M \in SUBSET (0 .. LastMinute), NEW m \in Int
    PROVE  /\ IsFiniteSet(UpTo(M, m))
           /\ Cardinality(UpTo(M, m)) \in 0 .. LastMinute + 1
<1>1. /\ IsFiniteSet(0 .. LastMinute)
      /\ Cardinality(0 .. LastMinute) = LastMinute + 1
  <2>1. 0 \in Int /\ LastMinute \in Int /\ 0 <= LastMinute
        /\ LastMinute - 0 + 1 = LastMinute + 1
    BY DEF LastMinute
  <2> HIDE DEF LastMinute
  <2> QED BY <2>1, FS_Interval
<1>2. UpTo(M, m) \subseteq 0 .. LastMinute
  BY DEF UpTo
<1>3. /\ IsFiniteSet(UpTo(M, m))
      /\ Cardinality(UpTo(M, m)) <= Cardinality(0 .. LastMinute)
  BY <1>1, <1>2, FS_Subset
<1>4. Cardinality(UpTo(M, m)) \in Nat
  BY <1>3, FS_CardinalityType
<1> QED BY <1>1, <1>3, <1>4 DEF LastMinute

LEMMA OneMinuteMore ==
    ASSUME NEW M \in SUBSET (0 .. LastMinute), NEW m \in Int
    PROVE  Cardinality(UpTo(M, m + 1))
              = Cardinality(UpTo(M, m)) + (IF m + 1 \in M THEN 1 ELSE 0)
<1>0. \A k \in M : k \in Int /\ (k <= m + 1 <=> k <= m \/ k = m + 1)
  BY DEF LastMinute
<1>1. IsFiniteSet(UpTo(M, m)) /\ Cardinality(UpTo(M, m)) \in Int
  BY UpToFinite DEF LastMinute
<1>2. CASE m + 1 \in M
  <2>1. m + 1 \notin UpTo(M, m)
    BY ~(m + 1 <= m) DEF UpTo
  <2>2. \A k : k \in UpTo(M, m + 1) <=> k \in UpTo(M, m) \/ k = m + 1
    BY <1>0, <1>2 DEF UpTo
  <2>3. UpTo(M, m + 1) = UpTo(M, m) \cup {m + 1}
    BY <2>2
  <2>4. Cardinality(UpTo(M, m) \cup {m + 1}) = Cardinality(UpTo(M, m)) + 1
    BY <1>1, <2>1, FS_AddElement
  <2> QED BY <1>2, <2>3, <2>4
<1>3. CASE m + 1 \notin M
  <2>1. UpTo(M, m + 1) = UpTo(M, m)
    BY <1>0, <1>3 DEF UpTo
  <2> QED BY <1>1, <1>3, <2>1
<1> QED BY <1>2, <1>3

LEMMA FirstMinuteOnly ==
    ASSUME NEW M \in SUBSET (0 .. LastMinute)
    PROVE  Cardinality(UpTo(M, 0)) = (IF 0 \in M THEN 1 ELSE 0)
<1>1. UpTo(M, -1) = {}
  <2>1. \A k \in M : ~(k <= -1)
    BY DEF LastMinute
  <2> QED BY <2>1 DEF UpTo
<1>2. Cardinality(UpTo(M, -1)) = 0
  BY <1>1, FS_EmptySet
<1>3. Cardinality(UpTo(M, -1 + 1))
         = Cardinality(UpTo(M, -1)) + (IF -1 + 1 \in M THEN 1 ELSE 0)
  BY -1 \in Int, OneMinuteMore
<1> QED BY <1>2, <1>3

(* What a scenario says of its first day is what a calendar says, which by *)
(* WeekdayTheorem the formula gives for every date.                        *)
StartsRight == \A s \in Scenarios : get_day_of_week(s.date) = s.weekday

(* The minutes counted are those promised so far.                          *)
WeekInv ==
    /\ CalendarInv
    /\ hour \in 0 .. 23 /\ minute \in 0 .. 59
    /\ schedules \in Seq(Schedule_t) /\ active \in Level
    /\ days \in 1 .. Days
    /\ watered = Cardinality(UpTo(PromisedBy(schedules, weekday),
                                  MinuteOfDay(hour, minute)))

(* Whether the valve is open, now and after a step, read off the promise.  *)
LEMMA OpenedIs ==
    ASSUME schedules \in Seq(Schedule_t), active \in Level,
           hour \in 0 .. 23, minute \in 0 .. 59, CalendarInv
    PROVE  Opened <=> MinuteOfDay(hour, minute) \in PromisedBy(schedules, weekday)
<1>1. get_day_of_week(date) = weekday /\ weekday \in DayOfWeek_t
  BY DEF CalendarInv, WeekdayCorrect, TypeOK
<1>2. get_valve_state([minute |-> minute, hour |-> hour, day_of_week |-> weekday],
                      active, automatic, schedules, Len(schedules)) = active
         <=> MinuteOfDay(hour, minute) \in PromisedBy(schedules, weekday)
  BY <1>1, OpenWhenPromised
<1> QED BY <1>1, <1>2 DEF Opened, TimePoint

LEMMA OpenedIsNext ==
    ASSUME schedules' \in Seq(Schedule_t), active' \in Level,
           hour' \in 0 .. 23, minute' \in 0 .. 59, CalendarInv'
    PROVE  Opened' <=> MinuteOfDay(hour', minute') \in PromisedBy(schedules', weekday')
<1>1. get_day_of_week(date') = weekday' /\ weekday' \in DayOfWeek_t
  BY DEF CalendarInv, WeekdayCorrect, TypeOK
<1>2. get_valve_state([minute |-> minute', hour |-> hour', day_of_week |-> weekday'],
                      active', automatic, schedules', Len(schedules')) = active'
         <=> MinuteOfDay(hour', minute') \in PromisedBy(schedules', weekday')
  BY <1>1, OpenWhenPromised
<1> QED BY <1>1, <1>2 DEF Opened, TimePoint

LEMMA PromisedInDay ==
    ASSUME NEW list, NEW day
    PROVE  PromisedBy(list, day) \in SUBSET (0 .. LastMinute)
BY DEF PromisedBy

LEMMA WeekInitInv == StartsRight /\ WeekInit => WeekInv
<1> SUFFICES ASSUME StartsRight, WeekInit PROVE WeekInv
  OBVIOUS
<1> DEFINE M == PromisedBy(schedules, weekday)
<1>1. PICK s \in Scenarios : /\ date = s.date /\ weekday = s.weekday
                             /\ schedules = s.schedules /\ active = s.active
                             /\ hour = 0 /\ minute = 0
                             /\ watered = IF Opened THEN 1 ELSE 0
                             /\ days = 1
  BY DEF WeekInit
<1>2. CalendarInv
  BY <1>1, ScenariosAssumption DEF CalendarInv, TypeOK, WeekdayCorrect, StartsRight
<1>3. /\ schedules \in Seq(Schedule_t) /\ active \in Level /\ days \in 1 .. Days
      /\ hour \in 0 .. 23 /\ minute \in 0 .. 59
  BY <1>1, ScenariosAssumption
<1>4. MinuteOfDay(hour, minute) = 0
  BY <1>1 DEF MinuteOfDay
<1>5. Opened <=> 0 \in M
  BY <1>2, <1>3, <1>4, OpenedIs
<1>6. Cardinality(UpTo(M, 0)) = IF 0 \in M THEN 1 ELSE 0
  BY PromisedInDay, FirstMinuteOnly
<1> QED BY <1>1, <1>2, <1>3, <1>4, <1>5, <1>6 DEF WeekInv

LEMMA NowInDay == ASSUME WeekInv PROVE MinuteOfDay(hour, minute) \in 0 .. LastMinute
<1>1. hour \in 0 .. 23 /\ minute \in 0 .. 59
  BY DEF WeekInv
<1> QED BY <1>1, MinuteBounds

(* The clock of a step: one minute on, or from the last to the first.      *)
LEMMA MinuteStep ==
    ASSUME WeekInv, NextMinute
    PROVE  /\ hour' \in 0 .. 23 /\ minute' \in 0 .. 59
           /\ MinuteOfDay(hour', minute') = MinuteOfDay(hour, minute) + 1
           /\ CalendarInv' /\ UNCHANGED <<date, weekday>>
<1>1. hour \in 0 .. 23 /\ minute \in 0 .. 59 /\ (minute < 59 \/ hour < 23)
      /\ minute' = (minute + 1) % 60
      /\ hour' = IF minute = 59 THEN hour + 1 ELSE hour
  BY DEF WeekInv, NextMinute
<1>2. CASE minute = 59
  <2>1. minute' = 0 /\ hour' = hour + 1
    BY <1>1, <1>2
  <2>2. CalendarInv' /\ UNCHANGED <<date, weekday>>
    BY DEF WeekInv, NextMinute, CalendarInv, TypeOK, WeekdayCorrect
  <2> QED BY <1>1, <1>2, <2>1, <2>2 DEF MinuteOfDay
<1>3. CASE minute # 59
  <2>1. minute' = minute + 1 /\ hour' = hour
    BY <1>1, <1>3
  <2>2. CalendarInv' /\ UNCHANGED <<date, weekday>>
    BY DEF WeekInv, NextMinute, CalendarInv, TypeOK, WeekdayCorrect
  <2> QED BY <1>1, <1>3, <2>1, <2>2 DEF MinuteOfDay
<1> QED BY <1>2, <1>3

LEMMA MidnightStep ==
    ASSUME WeekInv, Midnight
    PROVE  /\ hour' = 0 /\ minute' = 0
           /\ MinuteOfDay(hour', minute') = 0
           /\ MinuteOfDay(hour, minute) = LastMinute
           /\ CalendarInv'
<1>1. CalendarInv'
  BY NextCalendar DEF Midnight, WeekInv
<1> QED BY <1>1 DEF Midnight, MinuteOfDay, LastMinute

LEMMA WeekNextInv == WeekInv /\ [WeekNext]_weekVars => WeekInv'
<1> SUFFICES ASSUME WeekInv, [WeekNext]_weekVars PROVE WeekInv'
  OBVIOUS
<1> DEFINE M == PromisedBy(schedules, weekday)
           now == MinuteOfDay(hour, minute)
<1>1. CASE UNCHANGED weekVars
  BY <1>1 DEF weekVars, WeekInv, CalendarInv, TypeOK, WeekdayCorrect
<1>2. CASE UNCHANGED <<schedules, active>> /\ NextMinute
  <2>1. /\ hour' \in 0 .. 23 /\ minute' \in 0 .. 59
        /\ MinuteOfDay(hour', minute') = now + 1
        /\ CalendarInv' /\ UNCHANGED <<date, weekday, schedules, active>>
    BY <1>2, MinuteStep
  <2>2. Opened' <=> now + 1 \in M
    BY <2>1, OpenedIsNext DEF WeekInv
  <2>3. now \in Int
    BY NowInDay DEF LastMinute
  <2> HIDE DEF now, M
  <2>4. Cardinality(UpTo(M, now + 1))
           = Cardinality(UpTo(M, now)) + (IF now + 1 \in M THEN 1 ELSE 0)
    BY <2>3, PromisedInDay, OneMinuteMore DEF M
  <2>5. watered' = watered + (IF Opened' THEN 1 ELSE 0) /\ UNCHANGED days
    BY <1>2 DEF NextMinute
  <2>6. watered = Cardinality(UpTo(M, now))
    BY DEF WeekInv, M, now
  <2>7. watered' = Cardinality(UpTo(M, now + 1))
    BY <2>2, <2>4, <2>5, <2>6
  <2> QED BY <2>1, <2>5, <2>7 DEF WeekInv, M
<1>3. CASE UNCHANGED <<schedules, active>> /\ Midnight
  <2>1. /\ hour' = 0 /\ minute' = 0
        /\ MinuteOfDay(hour', minute') = 0
        /\ CalendarInv' /\ UNCHANGED <<schedules, active>>
    BY <1>3, MidnightStep
  <2>2. Opened' <=> 0 \in PromisedBy(schedules, weekday')
    BY <2>1, OpenedIsNext DEF WeekInv
  <2>3. Cardinality(UpTo(PromisedBy(schedules, weekday'), 0))
           = IF 0 \in PromisedBy(schedules, weekday') THEN 1 ELSE 0
    BY PromisedInDay, FirstMinuteOnly
  <2>4. watered' = (IF Opened' THEN 1 ELSE 0) /\ days' \in 1 .. Days
    BY <1>3, ScenariosAssumption DEF Midnight, WeekInv
  <2> QED BY <2>1, <2>2, <2>3, <2>4 DEF WeekInv
<1> QED BY <1>1, <1>2, <1>3 DEF WeekNext

LEMMA WeekInvariant == ASSUME StartsRight PROVE WeekSpec => []WeekInv
<1>1. WeekInit => WeekInv
  BY WeekInitInv
<1> QED BY <1>1, WeekNextInv, PTL DEF WeekSpec

(* The promise of WateringWeek, written with Begins and Ends of the same   *)
(* entries.                                                                *)
LEMMA PromisedIs ==
    ASSUME schedules \in Seq(Schedule_t)
    PROVE  Promised = PromisedBy(schedules, weekday)
BY DEF Promised, PromisedBy, Entries, LastMinute

(* The clock of the task and the minutes counted stay within a day.        *)
THEOREM WeekTypeTheorem == ASSUME StartsRight PROVE WeekSpec => []WeekTypeOK
<1>1. WeekInv => WeekTypeOK
  <2> SUFFICES ASSUME WeekInv PROVE WeekTypeOK
    OBVIOUS
  <2>1. TypeOK /\ days \in 1 .. Days
    BY DEF WeekInv, CalendarInv
  <2>2. TimePoint \in TimePoint_t
    BY DEF WeekInv, CalendarInv, TypeOK, WeekdayCorrect, TimePoint, TimePoint_t
  <2>3. get_valve_state(TimePoint, active, automatic, schedules, Len(schedules)) \in Level
    BY DEF WeekInv, get_valve_state, Level
  <2>4. MinuteOfDay(hour, minute) \in Int
    BY NowInDay DEF LastMinute
  <2>5. watered \in 0 .. LastMinute + 1
    BY <2>4, PromisedInDay, UpToFinite DEF WeekInv
  <2> QED BY <2>1, <2>2, <2>3, <2>5 DEF WeekTypeOK, LastMinute
<1> QED BY <1>1, WeekInvariant, PTL

(* The weekday a round evaluates is the calendar's all through the week.   *)
THEOREM WeekWeekdayTheorem == ASSUME StartsRight PROVE WeekSpec => []WeekdayCorrect
<1>1. WeekInv => WeekdayCorrect
  BY DEF WeekInv, CalendarInv
<1> QED BY <1>1, WeekInvariant, PTL

(* For any entries a configuration may leave and any week of any year, an  *)
(* automatic valve is open each day exactly the minutes its entries of     *)
(* that weekday cover.                                                     *)
THEOREM WateredTheorem == ASSUME StartsRight PROVE WeekSpec => []WateredAsPromised
<1>1. WeekInv => WateredAsPromised
  <2> SUFFICES ASSUME WeekInv, hour = 23, minute = 59
               PROVE  watered = Cardinality(Promised)
    BY DEF WateredAsPromised
  <2> DEFINE M == PromisedBy(schedules, weekday)
  <2>1. MinuteOfDay(hour, minute) = LastMinute
    BY DEF MinuteOfDay, LastMinute
  <2>2. UpTo(M, LastMinute) = M
    <3>1. \A k \in M : k <= LastMinute
      BY DEF PromisedBy, LastMinute
    <3> QED BY <3>1 DEF UpTo
  <2>3. Promised = M
    BY PromisedIs DEF WeekInv
  <2> QED BY <2>1, <2>2, <2>3 DEF WeekInv
<1> QED BY <1>1, WeekInvariant, PTL

(* An automatic valve switches only at the start or the stop of an entry   *)
(* of the day, in any week: midnight alone switches nothing.               *)
THEOREM SwitchesTheorem == ASSUME StartsRight PROVE WeekSpec => SwitchesAtBoundaries
<1> DEFINE Boundary == \E s \in Entries :
                          /\ s.day_of_week = weekday'
                          /\ MinuteOfDay(hour', minute') \in {Begins(s), Ends(s)}
           now == MinuteOfDay(hour, minute)
<1>1. ASSUME WeekInv, WeekInv', WeekNext, Opened' # Opened
      PROVE  Boundary
  <2>0. /\ UNCHANGED schedules /\ schedules \in Seq(Schedule_t)
        /\ DOMAIN schedules = 1 .. Len(schedules)
    BY <1>1 DEF WeekNext, WeekInv
  <2>1. Opened <=> now \in PromisedBy(schedules, weekday)
    BY <1>1, OpenedIs DEF WeekInv
  <2>2. Opened' <=> MinuteOfDay(hour', minute') \in PromisedBy(schedules, weekday')
    BY <1>1, <2>0, OpenedIsNext DEF WeekInv
  <2>3. now \in 0 .. LastMinute /\ MinuteOfDay(hour', minute') \in 0 .. LastMinute
    BY <1>1, MinuteBounds DEF WeekInv
  <2>4. \A i \in DOMAIN schedules : /\ schedules[i] \in Entries
                                    /\ Begins(schedules[i]) \in 0 .. LastMinute
                                    /\ Ends(schedules[i]) \in 0 .. LastMinute
    BY <2>0, EntryBounds DEF Entries
  <2> HIDE DEF now
  <2>5. CASE NextMinute
    <3>1. MinuteOfDay(hour', minute') = now + 1 /\ weekday' = weekday
      BY <1>1, <2>5, MinuteStep DEF now
    <3> DEFINE P == PromisedBy(schedules, weekday)
    <3>a. Opened' <=> now + 1 \in P
      BY <2>2, <3>1
    <3>b. now \in P <=> ~(now + 1 \in P)
      BY <1>1, <2>1, <3>a DEF Opened
    <3>2. CASE now \in P
      <4>1. now + 1 \notin P
        BY <3>b, <3>2
      <4>2. PICK i \in DOMAIN schedules :
               /\ schedules[i].day_of_week = weekday
               /\ Begins(schedules[i]) <= now /\ now < Ends(schedules[i])
        BY <3>2 DEF PromisedBy
      <4>3. ~(Begins(schedules[i]) <= now + 1 /\ now + 1 < Ends(schedules[i]))
        BY <2>3, <3>1, <4>1, <4>2 DEF PromisedBy
      <4>4. /\ now \in Int /\ Begins(schedules[i]) \in Int
            /\ Ends(schedules[i]) \in Int /\ schedules[i] \in Entries
        BY <2>3, <2>4
      <4>5. now + 1 = Ends(schedules[i])
        BY <4>2, <4>3, <4>4
      <4> QED BY <3>1, <4>2, <4>4, <4>5
    <3>3. CASE now \notin P
      <4>1. now + 1 \in P
        BY <3>b, <3>3
      <4>2. PICK i \in DOMAIN schedules :
               /\ schedules[i].day_of_week = weekday
               /\ Begins(schedules[i]) <= now + 1 /\ now + 1 < Ends(schedules[i])
        BY <4>1 DEF PromisedBy
      <4>3. ~(Begins(schedules[i]) <= now /\ now < Ends(schedules[i]))
        BY <2>3, <3>3, <4>2 DEF PromisedBy
      <4>4. /\ now \in Int /\ Begins(schedules[i]) \in Int
            /\ Ends(schedules[i]) \in Int /\ schedules[i] \in Entries
        BY <2>3, <2>4
      <4>5. now + 1 = Begins(schedules[i])
        BY <4>2, <4>3, <4>4
      <4> QED BY <3>1, <4>2, <4>4, <4>5
    <3> QED BY <3>2, <3>3
  <2>6. CASE Midnight
    <3>1. MinuteOfDay(hour', minute') = 0 /\ now = LastMinute
      BY <1>1, <2>6, MidnightStep DEF now
    <3>2. ~Opened
      BY <2>1, <2>4, <3>1 DEF PromisedBy, LastMinute
    <3>3. PICK i \in DOMAIN schedules :
             schedules[i].day_of_week = weekday' /\ Begins(schedules[i]) <= 0
      BY <1>1, <2>2, <3>1, <3>2 DEF PromisedBy, Opened
    <3> QED BY <2>4, <3>1, <3>3
  <2> QED BY <1>1, <2>5, <2>6 DEF WeekNext
<1>2. WeekInv /\ WeekInv' /\ [WeekNext]_weekVars => [Opened' # Opened => Boundary]_weekVars
  BY <1>1 DEF weekVars
<1> QED BY <1>2, WeekInvariant, PTL DEF WeekSpec, SwitchesAtBoundaries
=============================================================================
