------------------------- MODULE WateringRefinement -------------------------
(***************************************************************************)
(* The tasks of Watering implement Irrigation. A message takes effect when *)
(* the receiver takes the mutex: from then on the configuration is already *)
(* what the rest of the message will make of it. A round is decided when   *)
(* the watering task takes the mutex.                                      *)
(***************************************************************************)
EXTENDS Watering

InstalledConfig ==
    IF valves = NULL
    THEN [v \in Valves |-> [active_state |-> 1, mode |-> off, schedules |-> <<>>]]
    ELSE [v \in Valves |->
             [active_state |-> valves[v].active_state,
              mode         |-> valves[v].mode,
              schedules    |-> SubSeq(valves[v].schedules, 1,
                                      valves[v].num_schedules)]]

Irrigated == INSTANCE Irrigation WITH
    PortLines <- {}, config <- {}, now <- now, minute <- time_point,
    levels <- valves_states, latches <- gpio

PromisedConfig ==
    IF ReceiverHolds THEN Irrigated!AppliedFrom(InstalledConfig, message, pos)
                     ELSE InstalledConfig

RoundLevels ==
    [v \in Valves |-> IF WateringHolds /\ v >= next_valve
                      THEN Level_of(v, time_point)
                      ELSE valves_states[v]]

Promise == INSTANCE Irrigation WITH
    PortLines <- {{v \in Valves : PortOf(v) = p} : p \in Ports},
    config <- PromisedConfig, now <- now, minute <- time_point,
    levels <- RoundLevels, latches <- gpio

(* Every behaviour of the two tasks, the timer and the bus is one the      *)
(* atomic description allows: configuration messages are indivisible for   *)
(* the outputs, and no latch ever holds a level that was not decided from  *)
(* one configuration at one minute.                                        *)
ImplementsIrrigation == Promise!ASpec
=============================================================================
