------------------------------ MODULE Watering ------------------------------
(***************************************************************************)
(* components/watering/watering.c: the valves' configuration, shared under *)
(* configuration_mutex by two FreeRTOS tasks, and the output register of   *)
(* the MCP23017 port expander.                                             *)
(*                                                                         *)
(*  - The watering task (WateringTaskCode, program counter wpc) wakes on   *)
(*    the minute notification, evaluates every valve under the mutex and   *)
(*    writes the two output ports after releasing it.                      *)
(*  - The receiver task (watering_configure as called from station.c's     *)
(*    configuration_receiver_task_code, program counter rpc) applies a     *)
(*    parsed message valve by valve under the mutex.                       *)
(*                                                                         *)
(* A heap block of Schedule_t is the sequence of its cells: its length is  *)
(* what malloc gave, and a cell never written holds Garbage.               *)
(***************************************************************************)
EXTENDS Schedule, Sequences

CONSTANTS
    VALVES_NUM,     \* lines of the expander, half of them on each port
    Instants,       \* the minutes of the station's clock, in a cycle
    Messages,       \* the "valves" arrays a configuration message may carry
    MaxMessages,    \* bound: messages applied in a behaviour
    MaxBusErrors,   \* bound: I2C writes that fail in a behaviour
    HeapSuffices,   \* FALSE: the two allocations of the start may fail
    NULL,           \* a null pointer or handle, and a missing JSON property
    Garbage         \* the content of memory nobody wrote

Valves == 0 .. VALVES_NUM - 1

Cell == Schedule_t \cup {Garbage}

Valve_t == [active_state : Level, mode : ControlMode_t,
            schedules : Seq(Cell), num_schedules : Nat]

(* What a message may say: any number, or no number at all, where the code *)
(* expects one, and lists whose entries may be anything.                   *)
Entry == [day_of_week  : Int, minute_start : Int, hour_start : Int,
          minute_stop  : Int, hour_stop : Int]

Item == [line : Int \cup {NULL}, active_state : Int \cup {NULL},
         mode : Int \cup {NULL}, schedules : Seq(Entry \cup {NULL}) \cup {NULL}]

ASSUME WateringAssumption ==
    /\ VALVES_NUM \in Nat \ {0}
    /\ Instants \in Seq(TimePoint_t) \ {<<>>}
    /\ Messages \subseteq Seq(Item)
    /\ MaxMessages \in Nat
    /\ MaxBusErrors \in Nat
    /\ HeapSuffices \in BOOLEAN
    /\ NULL \notin [Valves -> Valve_t] \cup {"free", "watering", "receiver"}

VARIABLES
    valves,         \* NULL, or the array of Valve_t
    buffer,         \* static block of configure_schedules
    buffer_size,    \* static: the size the code believes buffer has
    mutex,          \* NULL, or who holds configuration_mutex
    wpc,            \* where the watering task is
    time_point,     \* its local: the minute it read after waking
    next_valve,     \* its loop index i
    valves_states,  \* its local: the levels evaluated so far
    notified,       \* its notification count is not zero
    rpc,            \* where the receiver is
    message,        \* the array the receiver applies
    pos,            \* its loop index i, from 1
    messages,       \* how many messages were received
    now,            \* index into Instants
    outputs,        \* ports whose direction register was cleared
    gpio,           \* the expander's output latches
    bus_errors,     \* how many writes failed
    configured      \* EVT_CONFIG_RECEIVED was set

heapVars  == <<valves, buffer, buffer_size>>
taskVars  == <<wpc, time_point, next_valve, valves_states>>
recvVars  == <<rpc, message, pos, messages, configured>>
chipVars  == <<outputs, gpio, bus_errors>>
vars == <<heapVars, mutex, taskVars, notified, recvVars, now, chipVars>>

-----------------------------------------------------------------------------
Ports == {"A", "B"}
PortOf(v) == IF 2 * v < VALVES_NUM THEN "A" ELSE "B"

Free == "free"

(* realloc to n cells: what fits is kept, the rest is uninitialised.       *)
Resized(cells, n) ==
    [k \in 1 .. n |-> IF k <= Len(cells) THEN cells[k] ELSE Garbage]

(* Mutant: one above the range is let through.                             *)
number_in_range_above(number, a, b) ==
    number # NULL /\ a <= number /\ number <= b + 1

number_in_range(number, a, b) == number # NULL /\ a <= number /\ number <= b

EntryValid(e) ==
    /\ e # NULL
    /\ number_in_range(e.day_of_week, sunday, saturday)
    /\ number_in_range(e.minute_start, 0, 59)
    /\ number_in_range(e.minute_stop, 0, 59)
    /\ number_in_range(e.hour_start, 0, 23)
    /\ number_in_range(e.hour_stop, 0, 23)

(* Mutant: the last entry of a list is not looked at.                      *)
ReachedBy_butLast(list, k) == \A j \in 1 .. k - 1 : EntryValid(list[j])

(* The first k entries of a list are good.                                 *)
ReachedBy(list, k) == \A j \in 1 .. k : EntryValid(list[j])

Level_of(v, t) ==
    get_valve_state(t, valves[v].active_state, valves[v].mode,
                    valves[v].schedules, valves[v].num_schedules)

item == message[pos]

LineValid == number_in_range(item.line, 0, VALVES_NUM - 1)

-----------------------------------------------------------------------------
(* The start of the watering task. *)

Defaults == [active_state |-> 1, mode |-> off,
             schedules |-> <<>>, num_schedules |-> 0]

InitValves ==
    /\ wpc = "malloc"
    /\ valves' = [v \in Valves |-> Defaults]
    /\ wpc' = "create"
    /\ UNCHANGED <<buffer, buffer_size, mutex, time_point, next_valve,
                   valves_states, notified, recvVars, now, chipVars>>

CreateMutex ==
    /\ wpc = "create"
    /\ mutex' = Free
    /\ wpc' = "iodira"
    /\ UNCHANGED <<heapVars, time_point, next_valve, valves_states, notified,
                   recvVars, now, chipVars>>

(* abort() halts the firmware when malloc or the mutex creation fails.     *)
Abort ==
    /\ ~HeapSuffices
    /\ wpc \in {"malloc", "create"}
    /\ wpc' = "aborted"
    /\ UNCHANGED <<heapVars, mutex, time_point, next_valve, valves_states,
                   notified, recvVars, now, chipVars>>

(* A write that is not acknowledged returns an error nobody looks at.      *)
BusError ==
    /\ bus_errors < MaxBusErrors
    /\ bus_errors' = bus_errors + 1
    /\ UNCHANGED <<outputs, gpio>>

SetDirection(port) ==
    \/ /\ outputs' = outputs \cup {port}
       /\ UNCHANGED <<gpio, bus_errors>>
    \/ BusError

WriteDirections ==
    /\ \/ /\ wpc = "iodira"
          /\ SetDirection("A")
          /\ wpc' = "iodirb"
       \/ /\ wpc = "iodirb"
          /\ SetDirection("B")
          /\ wpc' = "wait"
    /\ UNCHANGED <<heapVars, mutex, time_point, next_valve, valves_states,
                   notified, recvVars, now>>

-----------------------------------------------------------------------------
(* The loop of the watering task. *)

Wake ==
    /\ wpc = "wait"
    /\ notified
    /\ notified' = FALSE
    /\ time_point' = Instants[now]
    /\ wpc' = "lock"
    /\ UNCHANGED <<heapVars, mutex, next_valve, valves_states, recvVars, now,
                   chipVars>>

(* Mutant: the round goes on when the wait for the mutex times out.        *)
WateringTake_timeout ==
    /\ wpc = "lock"
    /\ mutex' = "watering"
    /\ next_valve' = 0
    /\ valves_states' = [v \in Valves |-> 0]
    /\ wpc' = "evaluate"
    /\ UNCHANGED <<heapVars, time_point, notified, recvVars, now, chipVars>>

WateringTake ==
    /\ wpc = "lock"
    /\ mutex = Free
    /\ mutex' = "watering"
    /\ next_valve' = 0
    /\ valves_states' = [v \in Valves |-> 0]
    /\ wpc' = "evaluate"
    /\ UNCHANGED <<heapVars, time_point, notified, recvVars, now, chipVars>>

Evaluate ==
    /\ wpc = "evaluate"
    /\ next_valve < VALVES_NUM
    /\ valves_states' =
          [valves_states EXCEPT ![next_valve] = Level_of(next_valve, time_point)]
    /\ next_valve' = next_valve + 1
    /\ UNCHANGED <<heapVars, mutex, wpc, time_point, notified, recvVars, now,
                   chipVars>>

WateringGive ==
    /\ wpc = "evaluate"
    /\ next_valve = VALVES_NUM
    /\ mutex' = Free
    /\ wpc' = "gpioa"
    /\ UNCHANGED <<heapVars, time_point, next_valve, valves_states, notified,
                   recvVars, now, chipVars>>

(* Mutant: every write goes to the register of port A.                     *)
WritePort_alwaysA(port) ==
    \/ /\ gpio' = [v \in Valves |-> IF PortOf(v) = "A" THEN valves_states[v]
                                                       ELSE gpio[v]]
       /\ UNCHANGED <<outputs, bus_errors>>
    \/ BusError

(* One I2C write latches the eight lines of one port.                      *)
WritePort(port) ==
    \/ /\ gpio' = [v \in Valves |-> IF PortOf(v) = port THEN valves_states[v]
                                                        ELSE gpio[v]]
       /\ UNCHANGED <<outputs, bus_errors>>
    \/ BusError

WritePorts ==
    /\ \/ /\ wpc = "gpioa"
          /\ WritePort("A")
          /\ wpc' = "gpiob"
       \/ /\ wpc = "gpiob"
          /\ WritePort("B")
          /\ wpc' = "wait"
    /\ UNCHANGED <<heapVars, mutex, time_point, next_valve, valves_states,
                   notified, recvVars, now>>

WateringTask ==
    \/ InitValves \/ CreateMutex \/ Abort \/ WriteDirections
    \/ Wake \/ WateringTake \/ Evaluate \/ WateringGive \/ WritePorts

-----------------------------------------------------------------------------
(* The receiver. Messages come only after the start of the watering task:  *)
(* station_start creates the tasks, then waits for Wi-Fi, time and broker. *)

MessageArrives ==
    /\ rpc = "idle"
    /\ wpc \notin {"malloc", "create", "aborted"}
    /\ messages < MaxMessages
    /\ messages' = messages + 1

Receive ==
    /\ MessageArrives
    /\ message' \in Messages
    /\ pos' = 1
    /\ rpc' = "take"
    /\ UNCHANGED <<heapVars, mutex, taskVars, notified, configured, now,
                   chipVars>>

(* A message without "valves": watering_configure(NULL) returns at once.   *)
ReceiveNoValves ==
    /\ MessageArrives
    /\ configured' = TRUE
    /\ UNCHANGED <<heapVars, mutex, taskVars, notified, rpc, message, pos, now,
                   chipVars>>

(* Mutant: the message is applied when the wait for the mutex times out.   *)
ReceiverTake_timeout ==
    /\ rpc = "take"
    /\ mutex # NULL
    /\ mutex' = "receiver"
    /\ rpc' = "valve"
    /\ UNCHANGED <<heapVars, taskVars, notified, message, pos, messages,
                   configured, now, chipVars>>

ReceiverTake ==
    /\ rpc = "take"
    /\ mutex = Free
    /\ mutex' = "receiver"
    /\ rpc' = "valve"
    /\ UNCHANGED <<heapVars, taskVars, notified, message, pos, messages,
                   configured, now, chipVars>>

(* Mutant: the loop over the valves does not advance.                      *)
NextItem_stays == UNCHANGED pos /\ rpc' = "valve"

(* The end of one call of configure_valve, or of configure_schedules in it. *)
NextItem == pos' = pos + 1 /\ rpc' = "valve"

SkipItem ==
    /\ rpc = "valve"
    /\ pos <= Len(message)
    /\ ~LineValid
    /\ NextItem
    /\ UNCHANGED <<heapVars, mutex, taskVars, notified, message, messages,
                   configured, now, chipVars>>

HasSchedules == item.schedules # NULL /\ item.schedules # <<>>

(* Level and mode are taken over one by one, each if it is a valid number; *)
(* an item without a list, or with an empty one, is then finished.         *)
WithLevelAndMode(valve, it) ==
    [active_state  |-> IF number_in_range(it.active_state, 0, 1)
                       THEN it.active_state ELSE valve.active_state,
     mode          |-> IF number_in_range(it.mode, off, automatic)
                       THEN it.mode ELSE valve.mode,
     schedules     |-> valve.schedules,
     num_schedules |-> valve.num_schedules]

SetLevelAndMode ==
    /\ rpc = "valve"
    /\ pos <= Len(message)
    /\ LineValid
    /\ valves' = [valves EXCEPT ![item.line] = WithLevelAndMode(@, item)]
    /\ IF HasSchedules THEN rpc' = "stage" /\ UNCHANGED pos ELSE NextItem
    /\ UNCHANGED <<buffer, buffer_size, mutex, taskVars, notified, message,
                   messages, configured, now, chipVars>>

(* Mutant: a list longer by one entry is taken to fit.                     *)
Grown_offByOne(cells, n, believed) ==
    IF n > believed + 1 THEN Resized(cells, n) ELSE cells

(* The static buffer grows when it seems too small; buffer_size follows    *)
(* the list even when the list is shorter than the block. The loop over    *)
(* the list stops at the first bad entry.                                  *)
Grown(cells, n, believed) == IF n > believed THEN Resized(cells, n) ELSE cells

Filled(cells, list) ==
    [k \in 1 .. Len(cells) |->
        IF k <= Len(list) /\ ReachedBy(list, k) THEN list[k] ELSE cells[k]]

StageSchedules ==
    LET list == item.schedules
        n    == Len(list)
    IN
    /\ rpc = "stage"
    /\ buffer' = Filled(Grown(buffer, n, buffer_size), list)
    /\ buffer_size' = n
    /\ IF ReachedBy(list, n) THEN rpc' = "grow" /\ UNCHANGED pos ELSE NextItem
    /\ UNCHANGED <<valves, mutex, taskVars, notified, message, messages,
                   configured, now, chipVars>>

WithBlock(valve, cells) ==
    [active_state |-> valve.active_state, mode |-> valve.mode,
     schedules |-> cells, num_schedules |-> valve.num_schedules]

WithCount(valve, n) ==
    [active_state |-> valve.active_state, mode |-> valve.mode,
     schedules |-> valve.schedules, num_schedules |-> n]

(* realloc of the valve's own block.                                       *)
GrowBlock ==
    /\ rpc = "grow"
    /\ valves' = [valves EXCEPT ![item.line] =
          WithBlock(@, Grown(@.schedules, Len(item.schedules), @.num_schedules))]
    /\ rpc' = "count"
    /\ UNCHANGED <<buffer, buffer_size, mutex, taskVars, notified, message, pos,
                   messages, configured, now, chipVars>>

SetCount ==
    /\ rpc = "count"
    /\ valves' = [valves EXCEPT ![item.line] = WithCount(@, Len(item.schedules))]
    /\ rpc' = "copy"
    /\ UNCHANGED <<buffer, buffer_size, mutex, taskVars, notified, message, pos,
                   messages, configured, now, chipVars>>

(* Mutant: the last staged entry is not copied.                            *)
Copied_butLast(cells, from, n) ==
    [k \in 1 .. Len(cells) |-> IF k < n THEN from[k] ELSE cells[k]]

(* memcpy of the first n staged entries over the block.                    *)
Copied(cells, from, n) ==
    [k \in 1 .. Len(cells) |-> IF k <= n THEN from[k] ELSE cells[k]]

CopySchedules ==
    /\ rpc = "copy"
    /\ valves' = [valves EXCEPT ![item.line] =
          WithBlock(@, Copied(@.schedules, buffer, Len(item.schedules)))]
    /\ NextItem
    /\ UNCHANGED <<buffer, buffer_size, mutex, taskVars, notified, message,
                   messages, configured, now, chipVars>>

(* The mutex is given back; the caller then sets EVT_CONFIG_RECEIVED.      *)
ReceiverGive ==
    /\ rpc = "valve"
    /\ pos > Len(message)
    /\ mutex' = Free
    /\ configured' = TRUE
    /\ rpc' = "idle"
    /\ UNCHANGED <<heapVars, taskVars, notified, message, pos, messages, now,
                   chipVars>>

Receiver ==
    \/ ReceiverTake \/ SkipItem \/ SetLevelAndMode \/ StageSchedules
    \/ GrowBlock \/ SetCount \/ CopySchedules \/ ReceiverGive

-----------------------------------------------------------------------------
(* The periodic timer, started after the first configuration: a minute     *)
(* passes and the watering task is notified. A pending notification is     *)
(* only counted up, and ulTaskNotifyTake(pdTRUE, ...) clears the count.    *)
Tick ==
    /\ configured
    /\ now' = (now % Len(Instants)) + 1
    /\ notified' = TRUE
    /\ UNCHANGED <<heapVars, mutex, taskVars, recvVars, chipVars>>

Init ==
    /\ valves = NULL
    /\ buffer = <<>> /\ buffer_size = 0
    /\ mutex = NULL
    /\ wpc = "malloc"
    /\ time_point = Instants[1]
    /\ next_valve = 0
    /\ valves_states = [v \in Valves |-> 0]
    /\ notified = FALSE
    /\ rpc = "idle" /\ message = <<>> /\ pos = 1
    /\ messages = 0
    /\ now = 1
    /\ outputs = {} /\ gpio = [v \in Valves |-> 0] /\ bus_errors = 0
    /\ configured = FALSE

Next == WateringTask \/ Receive \/ ReceiveNoValves \/ Receiver \/ Tick

Spec == Init /\ [][Next]_vars

(* Both tasks are of the same priority on two cores and never spin; the    *)
(* timer is auto-reloading. xSemaphoreGive readies the task that waits for *)
(* the mutex, and the next round is most of a minute away, so a task that  *)
(* finds the mutex free again and again takes it. Messages need not come.  *)
FairSpec ==
    /\ Spec
    /\ WF_vars(WateringTask) /\ WF_vars(Receiver) /\ WF_vars(Tick)
    /\ SF_vars(WateringTake) /\ SF_vars(ReceiverTake)

-----------------------------------------------------------------------------
WPc == {"malloc", "create", "aborted", "iodira", "iodirb", "wait", "lock",
        "evaluate", "gpioa", "gpiob"}
RPc == {"idle", "take", "valve", "stage", "grow", "count", "copy"}

(* Valves, static buffer, mutex and expander of watering.c, with both      *)
(* tasks at a line of their code.                                          *)
TypeOK ==
    /\ valves \in [Valves -> Valve_t] \cup {NULL}
    /\ buffer \in Seq(Cell) /\ buffer_size \in Nat
    /\ mutex \in {NULL, Free, "watering", "receiver"}
    /\ wpc \in WPc
    /\ time_point \in TimePoint_t
    /\ next_valve \in 0 .. VALVES_NUM
    /\ valves_states \in [Valves -> Level]
    /\ notified \in BOOLEAN
    /\ rpc \in RPc /\ message \in Seq(Item)
    /\ pos \in 1 .. Len(message) + 1
    /\ messages \in 0 .. MaxMessages
    /\ now \in 1 .. Len(Instants)
    /\ outputs \subseteq Ports /\ gpio \in [Valves -> Level]
    /\ bus_errors \in 0 .. MaxBusErrors
    /\ configured \in BOOLEAN

WateringHolds == wpc = "evaluate"
ReceiverHolds == rpc \in RPc \ {"idle", "take"}

(* The two critical sections never overlap, whatever the order of ticks,   *)
(* messages and I2C errors: nobody evaluates a valve another task is       *)
(* half way through configuring.                                           *)
MutualExclusion == ~(WateringHolds /\ ReceiverHolds)

(* Counts and capacities are kept apart and buffer_size shrinks while the  *)
(* block does not: every cell a task is about to touch is inside the block *)
(* it was allocated in, over any sequence of longer and shorter lists.     *)
MemorySafe ==
    /\ buffer_size <= Len(buffer)
    /\ valves # NULL => \A v \in Valves :
          valves[v].num_schedules <= Len(valves[v].schedules)
    /\ rpc \in {"grow", "count", "copy"} =>
          Len(item.schedules) <= Len(buffer)
    /\ rpc \in {"count", "copy"} =>
          Len(item.schedules) <= Len(valves[item.line].schedules)

(* Whenever the mutex is free or the watering task holds it, every entry   *)
(* of every valve is a complete, validated entry: a list with one bad      *)
(* entry leaves no part of itself behind, and no cell below the count is   *)
(* uninitialised.                                                          *)
InstalledValid ==
    ~ReceiverHolds /\ valves # NULL =>
        \A v \in Valves : \A k \in 1 .. valves[v].num_schedules :
            valves[v].schedules[k] \in Schedule_t

(* All levels evaluated in a round belong to one configuration and one     *)
(* minute, although they are computed one by one between the steps of the  *)
(* receiver, the timer and the clock.                                      *)
SnapshotConsistent ==
    WateringHolds => \A v \in Valves : v < next_valve =>
                         valves_states[v] = Level_of(v, time_point)

(* Once no message changes it any more, an always-on or always-off valve   *)
(* gets its level and keeps it, in spite of failed writes and of rounds    *)
(* that wait for the mutex, provided the port was made an output at start. *)
SettledOutputs ==
    \A v \in Valves :
        <>[](valves # NULL /\ PortOf(v) \in outputs /\ valves[v].mode \in {on, off}
                => gpio[v] = Level_of(v, time_point))

(* The task that waits for the mutex with a message always gets it and     *)
(* finishes the message: it is never starved by the minute rounds.         *)
MessagesFinish == (rpc = "take") ~> (rpc = "idle")
=============================================================================
