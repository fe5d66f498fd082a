------------------------------ MODULE Calendar ------------------------------
(***************************************************************************)
(* The station's local clock at the grain the watering task reads it:      *)
(* struct tm as localtime_r fills it (external), one day at a time, next   *)
(* to a weekday that is simply counted. The question is whether            *)
(* watering.c's closed formula agrees with counting, in every year.        *)
(***************************************************************************)
EXTENDS Schedule

CONSTANT LastYear  \* the last year the clock runs through

ASSUME YearsAssumption == LastYear \in Nat

(* time_t counts from 1 January 1970, a Thursday.                          *)
Epoch    == [year |-> 1970, month |-> 1, day |-> 1]
Thursday == 4

VARIABLES date,     \* [year, month, day] of struct tm, months from 1
          weekday   \* counted from the epoch, never computed

vars == <<date, weekday>>

IsLeap(year) == year % 4 = 0 /\ (year % 100 # 0 \/ year % 400 = 0)

DaysIn(month, year) ==
    IF month = 2 THEN (IF IsLeap(year) THEN 29 ELSE 28)
    ELSE IF month \in {4, 6, 9, 11} THEN 30 ELSE 31

(* The date is one of the calendar: the day lies within its month, which   *)
(* the carries of the next day must keep. localtime_r hands such dates to  *)
(* watering_task.                                                          *)
TypeOK ==
    /\ date \in [year : Nat, month : 1 .. 12, day : 1 .. 31]
    /\ date.year >= 1970
    /\ date.day <= DaysIn(date.month, date.year)
    /\ weekday \in DayOfWeek_t

Init ==
    /\ date = Epoch
    /\ weekday = Thursday

NextDay ==
    /\ date.day < DaysIn(date.month, date.year)
    /\ date' = [date EXCEPT !.day = @ + 1]

NextMonth ==
    /\ date.day = DaysIn(date.month, date.year)
    /\ date.month < 12
    /\ date' = [year |-> date.year, month |-> date.month + 1, day |-> 1]

NextYear ==
    /\ date.day = DaysIn(date.month, date.year)
    /\ date.month = 12
    /\ date.year < LastYear
    /\ date' = [year |-> date.year + 1, month |-> 1, day |-> 1]

Next ==
    /\ NextDay \/ NextMonth \/ NextYear
    /\ weekday' = (weekday + 1) % 7

Spec == Init /\ [][Next]_vars

(* The closed formula of get_day_of_week agrees with counting days one by  *)
(* one, across month ends, leap years and centuries: the watering task     *)
(* never evaluates an entry on the wrong day of the station's calendar.    *)
WeekdayCorrect == get_day_of_week(date) = weekday

=============================================================================
