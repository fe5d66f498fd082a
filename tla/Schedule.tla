------------------------------ MODULE Schedule ------------------------------
(***************************************************************************)
(* The pure functions of components/watering/watering.c: when a schedule   *)
(* entry applies to an instant, what level one output line gets, and the   *)
(* weekday of a calendar date.  Weekdays, modes and levels are the small   *)
(* integers of watering.h, because the messages carry them as numbers.     *)
(***************************************************************************)
EXTENDS Integers

sunday   == 0
monday   == 1
saturday == 6
DayOfWeek_t == sunday .. saturday

off       == 0
on        == 1
automatic == 2
ControlMode_t == off .. automatic

Level == 0 .. 1

TimePoint_t == [minute : 0 .. 59, hour : 0 .. 23, day_of_week : DayOfWeek_t]

Schedule_t == [day_of_week  : DayOfWeek_t,
               minute_start : 0 .. 59, hour_start : 0 .. 23,
               minute_stop  : 0 .. 59, hour_stop  : 0 .. 23]

(* Mutant: the stop minute still belongs to the entry.                     *)
time_matches_stop_included(time_point, schedule) ==
    /\ time_point.day_of_week = schedule.day_of_week
    /\ schedule.hour_start <= time_point.hour
    /\ time_point.hour <= schedule.hour_stop
    /\ time_point.hour = schedule.hour_start
           => time_point.minute >= schedule.minute_start
    /\ time_point.hour = schedule.hour_stop
           => time_point.minute <= schedule.minute_stop

(* Mutant: hours and minutes are compared each on its own.                 *)
time_matches_fieldwise(time_point, schedule) ==
    /\ time_point.day_of_week = schedule.day_of_week
    /\ schedule.hour_start <= time_point.hour
    /\ time_point.hour <= schedule.hour_stop
    /\ schedule.minute_start <= time_point.minute
    /\ time_point.minute < schedule.minute_stop

(* An instant matches an entry on the entry's own day only, from the start *)
(* minute included to the stop minute excluded.                            *)
time_matches_schedule(time_point, schedule) ==
    /\ time_point.day_of_week = schedule.day_of_week
    /\ schedule.hour_start <= time_point.hour
    /\ time_point.hour <= schedule.hour_stop
    /\ time_point.hour = schedule.hour_start
           => time_point.minute >= schedule.minute_start
    /\ time_point.hour = schedule.hour_stop
           => time_point.minute < schedule.minute_stop

(* Mutant: the other level is ~active.                                     *)
get_valve_state_complement(time_point, active, mode, block, n) ==
    IF \/ mode = on
       \/ /\ mode = automatic
          /\ \E i \in 1 .. n : time_matches_schedule(time_point, block[i])
    THEN active ELSE -active - 1

(* The level of a valve's line.  active ^ 1 is the other level. The first  *)
(* n entries of the block are the schedules the valve has.                 *)
get_valve_state(time_point, active, mode, block, n) ==
    LET inactive == 1 - active IN
    IF mode = on THEN active
    ELSE IF mode = off THEN inactive
    ELSE IF \E i \in 1 .. n : time_matches_schedule(time_point, block[i])
         THEN active ELSE inactive

(* Mutant: the leap years count from this January, not from the last.      *)
get_day_of_week_january(date) ==
    LET d == date.day + (IF date.month < 3 THEN date.year ELSE date.year - 2)
        y == date.year
    IN  ((23 * date.month) \div 9 + d + 4
            + y \div 4 - y \div 100 + y \div 400) % 7

(* Keith's formula, as the C expression evaluates it: in January and       *)
(* February the day gets the year and the year is then one less.           *)
get_day_of_week(date) ==
    LET early == date.month < 3
        d     == date.day + (IF early THEN date.year ELSE date.year - 2)
        y     == IF early THEN date.year - 1 ELSE date.year
    IN  ((23 * date.month) \div 9 + d + 4
            + y \div 4 - y \div 100 + y \div 400) % 7

-----------------------------------------------------------------------------
(* Reference definitions the theorems and the runs compare the code with.  *)

MinuteOfDay(hour, minute) == 60 * hour + minute

Begins(schedule) == MinuteOfDay(schedule.hour_start, schedule.minute_start)
Ends(schedule)   == MinuteOfDay(schedule.hour_stop, schedule.minute_stop)

InWindow(time_point, schedule) ==
    LET m == MinuteOfDay(time_point.hour, time_point.minute) IN
    /\ time_point.day_of_week = schedule.day_of_week
    /\ Begins(schedule) <= m
    /\ m < Ends(schedule)
=============================================================================
