--------------------------- MODULE MCWateringWeek ---------------------------
(* Entries that meet, overlap, nest, end before they start, last no time   *)
(* and touch both ends of a day; weeks over the ends of a month, of an     *)
(* ordinary and a leap February, of a century and of a year.               *)
EXTENDS WateringWeek

Entry(day, hs, ms, he, me) ==
    [day_of_week |-> day, hour_start |-> hs, minute_start |-> ms,
     hour_stop |-> he, minute_stop |-> me]

Morning  == Entry(monday, 6, 30, 7, 15)
Adjacent == Entry(monday, 7, 15, 8, 0)
Overlap  == Entry(monday, 7, 0, 9, 5)
Within   == Entry(monday, 6, 40, 6, 50)
Reversed == Entry(monday, 22, 0, 5, 30)
NoTime   == Entry(monday, 6, 30, 6, 30)
WholeDay == Entry(saturday, 0, 0, 23, 59)
FirstMinute == Entry(sunday, 0, 0, 0, 1)

Lists ==
    {<<>>, <<Morning>>, <<Morning, Adjacent>>, <<Overlap, Morning>>,
     <<Morning, Within>>, <<Reversed, FirstMinute>>, <<NoTime, WholeDay>>}

Date(y, m, d) == [year |-> y, month |-> m, day |-> d]

Scenario(first, day, list, level) ==
    [date |-> first, weekday |-> day, schedules |-> list, active |-> level]

(* The first day with the weekday a calendar prints for it.                *)
Starts ==
    {<<Date(1970, 2, 25), 3>>, <<Date(1999, 12, 28), 2>>,
     <<Date(2000, 2, 26), 6>>, <<Date(2023, 4, 27), 4>>,
     <<Date(2024, 2, 25), 0>>, <<Date(2100, 2, 24), 3>>,
     <<Date(2024, 12, 29), 0>>}

MCScenarios ==
    {Scenario(Date(2024, 5, 28), 2, list, level) : list \in Lists, level \in Level}
    \cup {Scenario(s[1], s[2], <<Morning, WholeDay>>, 1) : s \in Starts}
=============================================================================
