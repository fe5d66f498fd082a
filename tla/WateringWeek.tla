---------------------------- MODULE WateringWeek ----------------------------
(***************************************************************************)
(* One valve in automatic mode through a week of the calendar: each minute *)
(* the watering task reads the local time, computes the weekday from the   *)
(* date and evaluates the valve's entries. The run compares the minutes    *)
(* the valve is really open with what the entries promise.                 *)
(***************************************************************************)
EXTENDS Calendar, FiniteSets, Sequences

CONSTANTS Scenarios,  \* what weeks begin with: first day, entries, active level
          Days        \* bound: the days a week lasts

ASSUME ScenariosAssumption ==
    /\ \A s \in Scenarios :
          /\ s.date \in [year : Nat, month : 1 .. 12, day : 1 .. 31]
          /\ s.date.year >= 1970
          /\ s.date.day <= DaysIn(s.date.month, s.date.year)
          /\ s.weekday \in DayOfWeek_t
          /\ s.schedules \in Seq(Schedule_t)
          /\ s.active \in Level
    /\ Days \in Nat \ {0}

VARIABLES schedules,  \* the valve's entries, fixed for the week
          active,     \* the valve's active_state
          hour,       \* of the local time, next to date
          minute,
          watered,    \* minutes of this day, up to now, the valve was open
          days        \* days begun

weekVars == <<date, weekday, schedules, active, hour, minute, watered, days>>

(* The instant the task hands to get_valve_state.                          *)
TimePoint ==
    [minute |-> minute, hour |-> hour, day_of_week |-> get_day_of_week(date)]

Opened ==
    get_valve_state(TimePoint, active, automatic, schedules, Len(schedules))
        = active

(* The clock of the day, the level watering_task has set and the minutes   *)
(* that were counted stay within a day.                                    *)
WeekTypeOK ==
    /\ TypeOK
    /\ TimePoint \in TimePoint_t
    /\ get_valve_state(TimePoint, active, automatic, schedules, Len(schedules))
         \in Level
    /\ watered \in 0 .. 24 * 60
    /\ days \in 1 .. Days

WeekInit ==
    \E s \in Scenarios :
        /\ date = s.date /\ weekday = s.weekday
        /\ schedules = s.schedules /\ active = s.active
        /\ hour = 0 /\ minute = 0
        /\ watered = IF Opened THEN 1 ELSE 0
        /\ days = 1

(* The next tick of the periodic timer, within a day and over midnight.    *)
NextMinute ==
    /\ minute < 59 \/ hour < 23
    /\ minute' = (minute + 1) % 60
    /\ hour' = IF minute = 59 THEN hour + 1 ELSE hour
    /\ UNCHANGED <<date, weekday, days>>
    /\ watered' = watered + (IF Opened' THEN 1 ELSE 0)

Midnight ==
    /\ minute = 59 /\ hour = 23
    /\ days < Days
    /\ Next
    /\ minute' = 0 /\ hour' = 0
    /\ watered' = IF Opened' THEN 1 ELSE 0
    /\ days' = days + 1

WeekNext ==
    /\ UNCHANGED <<schedules, active>>
    /\ NextMinute \/ Midnight

WeekSpec == WeekInit /\ [][WeekNext]_weekVars

Entries == {schedules[i] : i \in DOMAIN schedules}

(* The minutes of the current day some entry covers, from the messages'    *)
(* fields and the counted weekday alone: what the schedule promises.       *)
Promised ==
    {m \in 0 .. 24 * 60 - 1 :
        \E s \in Entries : /\ s.day_of_week = weekday
                           /\ Begins(s) <= m /\ m < Ends(s)}

(* By the end of each day the valve was open exactly the minutes its       *)
(* entries for that day promise, overlaps counted once, also over the ends *)
(* of months and years; an entry that stops before it starts, or on its    *)
(* first minute, waters nothing.                                           *)
WateredAsPromised ==
    hour = 23 /\ minute = 59 => watered = Cardinality(Promised)

(* The output changes level only at the start or the stop of an entry for  *)
(* the day: nothing switches a valve in between, at midnight or between    *)
(* two adjoining entries.                                                  *)
SwitchesAtBoundaries ==
    [][Opened' # Opened =>
          \E s \in Entries :
             /\ s.day_of_week = weekday'
             /\ MinuteOfDay(hour', minute') \in {Begins(s), Ends(s)}]_weekVars
=============================================================================
