----------------------------- MODULE Irrigation -----------------------------
(***************************************************************************)
(* What the watering component promises, without tasks, mutex or memory:   *)
(* a message takes effect as a whole, at one moment; a round looks at the  *)
(* clock once, decides the levels of all valves from one configuration,    *)
(* and brings them to the expander one port at a time.                     *)
(***************************************************************************)
EXTENDS Schedule, Sequences

CONSTANTS VALVES_NUM, Instants, Messages, PortLines, NULL

Lines == 0 .. VALVES_NUM - 1

VARIABLES config,  \* per valve: active_state, mode and the list of entries
          now,     \* the minute of the clock
          minute,  \* the minute the current round is about
          levels,  \* the levels of the latest round
          latches  \* what the expander holds

avars == <<config, now, minute, levels, latches>>

DefaultConfig ==
    [v \in Lines |-> [active_state |-> 1, mode |-> off, schedules |-> <<>>]]

InRange(x, a, b) == x # NULL /\ a <= x /\ x <= b

Acceptable(e) ==
    /\ e # NULL
    /\ InRange(e.day_of_week, sunday, saturday)
    /\ InRange(e.hour_start, 0, 23) /\ InRange(e.minute_start, 0, 59)
    /\ InRange(e.hour_stop, 0, 23)  /\ InRange(e.minute_stop, 0, 59)

(* A list is taken over entirely or not at all; an empty one is no list.   *)
TakesList(list) ==
    list # NULL /\ list # <<>> /\ \A k \in DOMAIN list : Acceptable(list[k])

(* The items of a message, from one of them on, that are about a valve and *)
(* have a good value for its level, its mode, its list of entries.         *)
About(items, from, v) == {k \in from .. Len(items) : InRange(items[k].line, v, v)}
WithLevel(items, from, v) ==
    {k \in About(items, from, v) : InRange(items[k].active_state, 0, 1)}
WithMode(items, from, v) ==
    {k \in About(items, from, v) : InRange(items[k].mode, off, automatic)}
WithList(items, from, v) ==
    {k \in About(items, from, v) : TakesList(items[k].schedules)}

Last(indices) == CHOOSE k \in indices : \A j \in indices : j <= k

(* The last item that has a value for a property prevails, a property of   *)
(* which no item says anything stays as it was.                            *)
AppliedFrom(cfg, items, from) ==
    [v \in Lines |->
        [active_state |-> IF WithLevel(items, from, v) = {}
                          THEN cfg[v].active_state
                          ELSE items[Last(WithLevel(items, from, v))].active_state,
         mode         |-> IF WithMode(items, from, v) = {}
                          THEN cfg[v].mode
                          ELSE items[Last(WithMode(items, from, v))].mode,
         schedules    |-> IF WithList(items, from, v) = {}
                          THEN cfg[v].schedules
                          ELSE items[Last(WithList(items, from, v))].schedules]]

Prescribed(cfg, v, t) ==
    get_valve_state(t, cfg[v].active_state, cfg[v].mode,
                    cfg[v].schedules, Len(cfg[v].schedules))

AInit ==
    /\ config = DefaultConfig
    /\ now = 1
    /\ minute = Instants[1]
    /\ levels = [v \in Lines |-> 0]
    /\ latches = [v \in Lines |-> 0]

Configure ==
    /\ \E m \in Messages : config' = AppliedFrom(config, m, 1)
    /\ UNCHANGED <<now, minute, levels, latches>>

MinutePasses ==
    /\ now' = (now % Len(Instants)) + 1
    /\ UNCHANGED <<config, minute, levels, latches>>

LookAtClock ==
    /\ minute' = Instants[now]
    /\ UNCHANGED <<config, now, levels, latches>>

Decide ==
    /\ levels' = [v \in Lines |-> Prescribed(config, v, minute)]
    /\ UNCHANGED <<config, now, minute, latches>>

Drive ==
    /\ \E port \in PortLines :
          latches' = [v \in Lines |-> IF v \in port THEN levels[v] ELSE latches[v]]
    /\ UNCHANGED <<config, now, minute, levels>>

ANext == Configure \/ MinutePasses \/ LookAtClock \/ Decide \/ Drive

ASpec == AInit /\ [][ANext]_avars
=============================================================================
