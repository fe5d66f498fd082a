----------------------------- MODULE MCWatering -----------------------------
(* Two valves, one on each port; three minutes around a schedule entry;    *)
(* messages that lengthen and shorten a list, replace it by a bad one,     *)
(* carry an empty one, and name no line or a line that does not exist.     *)
EXTENDS Watering

Minute(h, m) == [minute |-> m, hour |-> h, day_of_week |-> monday]
MCInstants == <<Minute(6, 29), Minute(6, 30), Minute(7, 15)>>

Slot(hs, ms, he, me) ==
    [day_of_week |-> monday, hour_start |-> hs, minute_start |-> ms,
     hour_stop |-> he, minute_stop |-> me]
Early  == Slot(6, 30, 7, 15)
Late   == Slot(7, 15, 8, 0)
BadDay == [Early EXCEPT !.day_of_week = 7]

Config(line, active, m, list) ==
    [line |-> line, active_state |-> active, mode |-> m, schedules |-> list]

MCMessages ==
    { << Config(0, 1, automatic, <<Early>>), Config(1, 0, on, NULL) >>,
      << Config(0, NULL, NULL, <<Late, Early>>), Config(2, 1, on, NULL) >>,
      << Config(0, 0, 3, <<Late, BadDay, Early>>),
         Config(1, 2, off, <<NULL>>) >>,
      << Config(NULL, 1, on, NULL), Config(0, 1, on, <<>>) >> }
=============================================================================
