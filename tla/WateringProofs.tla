--------------------------- MODULE WateringProofs ---------------------------
(***************************************************************************)
(* What the two tasks of Watering never do, for any number of valves, any  *)
(* messages and any clock, and that they implement Irrigation.             *)
(***************************************************************************)
EXTENDS WateringRefinement, WellFoundedInduction, TLAPS

-----------------------------------------------------------------------------
(* Heap blocks. *)

(* A function on 1..n is a sequence.                                       *)
LEMMA SeqOfFunction ==
    ASSUME NEW S, NEW n \in Nat, NEW f \in [1 .. n -> S]
    PROVE  f \in Seq(S) /\ Len(f) = n
OBVIOUS

(* What realloc keeps.                                                     *)
LEMMA ResizedProps ==
    ASSUME NEW cells \in Seq(Cell), NEW n \in Nat
    PROVE  /\ Resized(cells, n) \in Seq(Cell)
           /\ Len(Resized(cells, n)) = n
           /\ \A k \in 1 .. n : k <= Len(cells) => Resized(cells, n)[k] = cells[k]
<1>1. Resized(cells, n) \in [1 .. n -> Cell]
  BY DEF Resized, Cell
<1>2. \A k \in 1 .. n : k <= Len(cells) => Resized(cells, n)[k] = cells[k]
  BY DEF Resized
<1> QED BY <1>1, <1>2, SeqOfFunction

(* Growing keeps a block big enough for what the code believes it holds.   *)
LEMMA GrownProps ==
    ASSUME NEW cells \in Seq(Cell), NEW n \in Nat, NEW believed \in Nat,
           believed <= Len(cells)
    PROVE  /\ Grown(cells, n, believed) \in Seq(Cell)
           /\ n <= Len(Grown(cells, n, believed))
           /\ believed <= Len(Grown(cells, n, believed))
           /\ \A k \in 1 .. believed : Grown(cells, n, believed)[k] = cells[k]
<1>1. CASE n > believed
  <2>1. Grown(cells, n, believed) = Resized(cells, n)
    BY <1>1 DEF Grown
  <2>2. /\ Resized(cells, n) \in Seq(Cell)
        /\ Len(Resized(cells, n)) = n
        /\ \A k \in 1 .. n : k <= Len(cells) => Resized(cells, n)[k] = cells[k]
    BY ResizedProps
  <2>3. \A k \in 1 .. believed : k \in 1 .. n /\ k <= Len(cells)
    BY <1>1
  <2> QED BY <1>1, <2>1, <2>2, <2>3
<1>2. CASE ~(n > believed)
  BY <1>2 DEF Grown
<1> QED BY <1>1, <1>2

(* The range checks leave only values that fit the fields of Schedule_t.   *)
LEMMA EntryIsSchedule ==
    ASSUME NEW e \in Entry \cup {NULL}, EntryValid(e)
    PROVE  e \in Schedule_t
BY DEF Entry, EntryValid, Schedule_t, number_in_range, DayOfWeek_t, sunday, saturday

(* A list accepted to its end fills the buffer with schedules only.        *)
LEMMA FilledProps ==
    ASSUME NEW cells \in Seq(Cell), NEW list \in Seq(Entry \cup {NULL}),
           Len(list) <= Len(cells)
    PROVE  /\ Filled(cells, list) \in Seq(Cell)
           /\ Len(Filled(cells, list)) = Len(cells)
           /\ ReachedBy(list, Len(list)) =>
                 \A k \in 1 .. Len(list) : Filled(cells, list)[k] \in Schedule_t
<1>1. \A k \in 1 .. Len(cells) : k <= Len(list) /\ ReachedBy(list, k)
          => list[k] \in Schedule_t
  BY EntryIsSchedule DEF ReachedBy
<1>2. Filled(cells, list) \in [1 .. Len(cells) -> Cell]
  BY <1>1 DEF Filled, Cell
<1>3. ASSUME ReachedBy(list, Len(list)), NEW k \in 1 .. Len(list)
      PROVE  Filled(cells, list)[k] \in Schedule_t
  <2>1. ReachedBy(list, k) /\ k \in 1 .. Len(cells)
    BY <1>3 DEF ReachedBy
  <2> QED BY <1>1, <2>1 DEF Filled
<1> QED BY <1>2, <1>3, SeqOfFunction

(* memcpy stays inside both blocks.                                        *)
LEMMA CopiedProps ==
    ASSUME NEW cells \in Seq(Cell), NEW from \in Seq(Cell), NEW n \in Nat,
           n <= Len(cells), n <= Len(from)
    PROVE  /\ Copied(cells, from, n) \in Seq(Cell)
           /\ Len(Copied(cells, from, n)) = Len(cells)
           /\ \A k \in 1 .. n : Copied(cells, from, n)[k] = from[k]
<1>1. Copied(cells, from, n) \in [1 .. Len(cells) -> Cell]
  BY DEF Copied
<1>2. \A k \in 1 .. n : Copied(cells, from, n)[k] = from[k]
  BY DEF Copied
<1> QED BY <1>1, <1>2, SeqOfFunction

-----------------------------------------------------------------------------
(* The inductive invariant: where each task is tells who holds the mutex,  *)
(* that the valves exist, and what of the current list is already staged.  *)

StageInv ==
    rpc \in {"stage", "grow", "count", "copy"} =>
        /\ pos <= Len(message) /\ LineValid
        /\ item.schedules \in Seq(Entry \cup {NULL})
        /\ rpc # "stage" =>
              \A k \in 1 .. Len(item.schedules) : buffer[k] \in Schedule_t
        /\ rpc = "copy" =>
              valves[item.line].num_schedules = Len(item.schedules)

LockInv ==
    /\ (mutex = "watering") <=> WateringHolds
    /\ (mutex = "receiver") <=> ReceiverHolds

StartInv ==
    /\ wpc \notin {"malloc", "aborted"} => valves # NULL
    /\ wpc = "malloc" => valves = NULL
    /\ rpc # "idle" => wpc \notin {"malloc", "create", "aborted"}

(* Installed(v): every entry the valve counts is validated.                *)
Installed(v) ==
    \A k \in 1 .. valves[v].num_schedules : valves[v].schedules[k] \in Schedule_t

(* Only the valve whose block memcpy has not filled yet is an exception.   *)
InstalledInv ==
    valves # NULL =>
        \A v \in Valves : Installed(v) \/ (rpc = "copy" /\ v = item.line)

WateringInv ==
    /\ TypeOK
    /\ LockInv
    /\ StartInv
    /\ StageInv
    /\ MemorySafe
    /\ InstalledInv
    /\ SnapshotConsistent

(* The invariant implies the properties the runs check.                    *)
LEMMA InvImplies ==
    WateringInv => MutualExclusion /\ MemorySafe /\ InstalledValid /\ SnapshotConsistent
<1> SUFFICES ASSUME WateringInv
             PROVE  MutualExclusion /\ MemorySafe /\ InstalledValid /\ SnapshotConsistent
  OBVIOUS
<1>1. MutualExclusion
  BY DEF WateringInv, LockInv, MutualExclusion
<1>2. InstalledValid
  BY DEF WateringInv, InstalledInv, InstalledValid, Installed, ReceiverHolds, RPc
<1> QED BY <1>1, <1>2 DEF WateringInv

(* It holds before the watering task has allocated anything.               *)
LEMMA InitInv == Init => WateringInv
<1> SUFFICES ASSUME Init PROVE WateringInv
  OBVIOUS
<1> USE DEF Init
<1>1. TypeOK
  BY WateringAssumption DEF TypeOK, WPc, RPc, Level, Free, Valves
<1>2. LockInv /\ StartInv /\ StageInv
  BY WateringAssumption
     DEF LockInv, StartInv, StageInv, WateringHolds, ReceiverHolds, RPc
<1>3. MemorySafe /\ InstalledInv /\ SnapshotConsistent
  BY DEF MemorySafe, InstalledInv, SnapshotConsistent, WateringHolds
<1> QED BY <1>1, <1>2, <1>3 DEF WateringInv

-----------------------------------------------------------------------------
(* Facts every step uses. *)

LEMMA ItemFacts ==
    ASSUME TypeOK, pos <= Len(message)
    PROVE  /\ item \in Item
           /\ LineValid => item.line \in Valves
<1>1. item \in Item
  BY DEF TypeOK, item
<1>2. item.line \in Int \cup {NULL}
  BY <1>1 DEF Item
<1>3. LineValid => item.line \in Valves
  BY <1>2, WateringAssumption DEF LineValid, number_in_range, Valves
<1> QED BY <1>1, <1>3

LEMMA SameItem ==
    ASSUME UNCHANGED <<message, pos>>
    PROVE  item' = item /\ LineValid' = LineValid
BY DEF item, LineValid

LEMMA ValvesType ==
    ASSUME TypeOK, valves # NULL
    PROVE  valves \in [Valves -> Valve_t]
BY DEF TypeOK

LEMMA LevelType ==
    ASSUME TypeOK, valves # NULL, NEW v \in Valves, NEW t
    PROVE  Level_of(v, t) \in Level
<1>1. valves[v].active_state \in 0 .. 1
  BY ValvesType DEF Valve_t, Level
<1> QED BY <1>1 DEF Level_of, get_valve_state, Level

(* Replacing one valve by another keeps the array an array.                *)
LEMMA ValveReplaced ==
    ASSUME NEW f \in [Valves -> Valve_t], NEW l \in Valves, NEW r \in Valve_t
    PROVE  /\ [f EXCEPT ![l] = r] \in [Valves -> Valve_t]
           /\ [f EXCEPT ![l] = r] # NULL
           /\ [f EXCEPT ![l] = r][l] = r
           /\ \A v \in Valves \ {l} : [f EXCEPT ![l] = r][v] = f[v]
BY WateringAssumption

-----------------------------------------------------------------------------
(* Every step keeps the invariant: first the steps of the watering task,   *)
(* which leave the valves as they are once they exist.                     *)
LEMMA InitValvesInv == ASSUME WateringInv, InitValves PROVE WateringInv'
<1> USE DEF WateringInv, InitValves, heapVars, taskVars, recvVars, chipVars
<1>0. /\ valves' \in [Valves -> Valve_t] /\ valves' # NULL
      /\ \A v \in Valves : valves'[v] = Defaults
  <2>1. Defaults \in Valve_t
    BY DEF Defaults, Valve_t, Level, ControlMode_t, off, automatic
  <2> QED BY <2>1, WateringAssumption
<1>1. TypeOK'
  BY <1>0 DEF TypeOK, WPc
<1>2. LockInv'
  BY WateringAssumption DEF LockInv, WateringHolds, ReceiverHolds, RPc, Free
<1>3. StartInv'
  BY <1>0 DEF StartInv
<1>4. StageInv'
  BY DEF StageInv, StartInv
<1>5. MemorySafe'
  BY <1>0, SameItem DEF MemorySafe, Defaults, StartInv
<1>6. InstalledInv'
  BY <1>0 DEF InstalledInv, Installed, Defaults
<1>7. SnapshotConsistent'
  BY DEF SnapshotConsistent, WateringHolds, Level_of
<1> QED BY <1>1, <1>2, <1>3, <1>4, <1>5, <1>6, <1>7

LEMMA CreateMutexInv == ASSUME WateringInv, CreateMutex PROVE WateringInv'
<1> USE DEF WateringInv, CreateMutex, heapVars, taskVars, recvVars, chipVars
<1>1. TypeOK'
  BY WateringAssumption DEF TypeOK, WPc, RPc
<1>2. LockInv'
  BY WateringAssumption
     DEF LockInv, StartInv, WateringHolds, ReceiverHolds, RPc, Free
<1>3. StartInv'
  BY DEF StartInv
<1>4. StageInv'
  BY DEF StageInv, LineValid, item
<1>5. MemorySafe'
  BY DEF MemorySafe, item
<1>6. InstalledInv'
  BY DEF InstalledInv, Installed, item
<1>7. SnapshotConsistent'
  BY DEF SnapshotConsistent, WateringHolds, Level_of
<1> QED BY <1>1, <1>2, <1>3, <1>4, <1>5, <1>6, <1>7

LEMMA AbortInv == ASSUME WateringInv, Abort PROVE WateringInv'
<1> USE DEF WateringInv, Abort, heapVars, taskVars, recvVars, chipVars
<1>1. TypeOK'
  BY WateringAssumption DEF TypeOK, WPc, RPc
<1>2. LockInv'
  BY WateringAssumption DEF LockInv, WateringHolds, ReceiverHolds, RPc, Free
<1>3. StartInv'
  BY DEF StartInv
<1>4. StageInv'
  BY DEF StageInv, LineValid, item
<1>5. MemorySafe'
  BY DEF MemorySafe, item
<1>6. InstalledInv'
  BY DEF InstalledInv, Installed, item
<1>7. SnapshotConsistent'
  BY DEF SnapshotConsistent, WateringHolds, Level_of
<1> QED BY <1>1, <1>2, <1>3, <1>4, <1>5, <1>6, <1>7

LEMMA WriteDirectionsInv == ASSUME WateringInv, WriteDirections PROVE WateringInv'
<1> USE DEF WateringInv, WriteDirections, heapVars, taskVars, recvVars, chipVars
<1>1. TypeOK'
  <2>1. ASSUME NEW p \in Ports, SetDirection(p)
        PROVE  outputs' \subseteq Ports /\ gpio' = gpio
                 /\ bus_errors' \in 0 .. MaxBusErrors
    BY <2>1, WateringAssumption DEF SetDirection, BusError, TypeOK
  <2> QED BY <2>1 DEF TypeOK, WPc, Ports
<1>2. LockInv'
  BY WateringAssumption DEF LockInv, WateringHolds, ReceiverHolds, RPc, Free
<1>3. StartInv'
  BY DEF StartInv
<1>4. StageInv'
  BY DEF StageInv, LineValid, item
<1>5. MemorySafe'
  BY DEF MemorySafe, item
<1>6. InstalledInv'
  BY DEF InstalledInv, Installed, item
<1>7. SnapshotConsistent'
  BY DEF SnapshotConsistent, WateringHolds, Level_of
<1> QED BY <1>1, <1>2, <1>3, <1>4, <1>5, <1>6, <1>7

LEMMA WakeInv == ASSUME WateringInv, Wake PROVE WateringInv'
<1> USE DEF WateringInv, Wake, heapVars, taskVars, recvVars, chipVars
<1>1. TypeOK'
  <2>1. Instants[now] \in TimePoint_t
    BY WateringAssumption DEF TypeOK
  <2> QED BY <2>1 DEF TypeOK, WPc
<1>2. LockInv'
  BY WateringAssumption DEF LockInv, WateringHolds, ReceiverHolds, RPc, Free
<1>3. StartInv'
  BY DEF StartInv
<1>4. StageInv'
  BY DEF StageInv, LineValid, item
<1>5. MemorySafe'
  BY DEF MemorySafe, item
<1>6. InstalledInv'
  BY DEF InstalledInv, Installed, item
<1>7. SnapshotConsistent'
  BY DEF SnapshotConsistent, WateringHolds, Level_of
<1> QED BY <1>1, <1>2, <1>3, <1>4, <1>5, <1>6, <1>7

LEMMA WateringTakeInv == ASSUME WateringInv, WateringTake PROVE WateringInv'
<1> USE DEF WateringInv, WateringTake, heapVars, taskVars, recvVars, chipVars
<1>1. TypeOK'
  BY WateringAssumption DEF TypeOK, WPc, Level
<1>2. LockInv'
  BY WateringAssumption DEF LockInv, WateringHolds, ReceiverHolds, RPc, Free
<1>3. StartInv'
  BY DEF StartInv
<1>4. StageInv'
  BY DEF StageInv, LineValid, item
<1>5. MemorySafe'
  BY DEF MemorySafe, item
<1>6. InstalledInv'
  BY DEF InstalledInv, Installed, item
<1>7. SnapshotConsistent'
  BY DEF SnapshotConsistent, Valves
<1> QED BY <1>1, <1>2, <1>3, <1>4, <1>5, <1>6, <1>7

LEMMA EvaluateInv == ASSUME WateringInv, Evaluate PROVE WateringInv'
<1> USE DEF WateringInv, Evaluate, heapVars, taskVars, recvVars, chipVars
<1>0. next_valve \in Valves /\ valves # NULL
  BY WateringAssumption DEF TypeOK, StartInv, Valves
<1>1. TypeOK'
  <2>1. Level_of(next_valve, time_point) \in Level
    BY <1>0, LevelType
  <2>2. valves_states' \in [Valves -> Level]
    BY <1>0, <2>1 DEF TypeOK
  <2>3. next_valve' \in 0 .. VALVES_NUM
    BY WateringAssumption DEF TypeOK
  <2> QED BY <2>2, <2>3 DEF TypeOK
<1>2. LockInv'
  BY WateringAssumption DEF LockInv, WateringHolds, ReceiverHolds, RPc, Free
<1>3. StartInv'
  BY DEF StartInv
<1>4. StageInv'
  BY DEF StageInv, LineValid, item
<1>5. MemorySafe'
  BY DEF MemorySafe, item
<1>6. InstalledInv'
  BY DEF InstalledInv, Installed, item
<1>7. SnapshotConsistent'
  <2> SUFFICES ASSUME NEW v \in Valves, v < next_valve'
               PROVE  valves_states'[v] = Level_of(v, time_point)
    BY DEF SnapshotConsistent, Level_of
  <2>1. v < next_valve \/ v = next_valve
    BY DEF Valves, TypeOK
  <2> QED BY <1>0, <2>1 DEF SnapshotConsistent, WateringHolds, TypeOK
<1> QED BY <1>1, <1>2, <1>3, <1>4, <1>5, <1>6, <1>7

LEMMA WateringGiveInv == ASSUME WateringInv, WateringGive PROVE WateringInv'
<1> USE DEF WateringInv, WateringGive, heapVars, taskVars, recvVars, chipVars
<1>1. TypeOK'
  BY WateringAssumption DEF TypeOK, WPc, RPc
<1>2. LockInv'
  BY WateringAssumption DEF LockInv, WateringHolds, ReceiverHolds, RPc, Free
<1>3. StartInv'
  BY DEF StartInv
<1>4. StageInv'
  BY DEF StageInv, LineValid, item
<1>5. MemorySafe'
  BY DEF MemorySafe, item
<1>6. InstalledInv'
  BY DEF InstalledInv, Installed, item
<1>7. SnapshotConsistent'
  BY DEF SnapshotConsistent, WateringHolds, Level_of
<1> QED BY <1>1, <1>2, <1>3, <1>4, <1>5, <1>6, <1>7

LEMMA WritePortsInv == ASSUME WateringInv, WritePorts PROVE WateringInv'
<1> USE DEF WateringInv, WritePorts, heapVars, taskVars, recvVars, chipVars
<1>1. TypeOK'
  <2>1. ASSUME NEW p \in Ports, WritePort(p)
        PROVE  gpio' \in [Valves -> Level] /\ outputs' = outputs
                 /\ bus_errors' \in 0 .. MaxBusErrors
    BY <2>1, WateringAssumption DEF WritePort, BusError, TypeOK
  <2> QED BY <2>1 DEF TypeOK, WPc, Ports
<1>2. LockInv'
  BY WateringAssumption DEF LockInv, WateringHolds, ReceiverHolds, RPc, Free
<1>3. StartInv'
  BY DEF StartInv
<1>4. StageInv'
  BY DEF StageInv, LineValid, item
<1>5. MemorySafe'
  BY DEF MemorySafe, item
<1>6. InstalledInv'
  BY DEF InstalledInv, Installed, item
<1>7. SnapshotConsistent'
  BY DEF SnapshotConsistent, WateringHolds, Level_of
<1> QED BY <1>1, <1>2, <1>3, <1>4, <1>5, <1>6, <1>7

-----------------------------------------------------------------------------
(* The timer and the steps of the receiver that leave the heap alone.      *)
LEMMA ReceiveInv == ASSUME WateringInv, Receive PROVE WateringInv'
<1> USE DEF WateringInv, Receive, heapVars, taskVars, recvVars, chipVars
<1> USE DEF MessageArrives
<1>1. TypeOK'
  <2>1. message' \in Seq(Item) /\ messages' \in 0 .. MaxMessages
    BY WateringAssumption DEF TypeOK
  <2> QED BY <2>1 DEF TypeOK, RPc
<1>2. LockInv'
  BY WateringAssumption DEF LockInv, WateringHolds, ReceiverHolds, RPc, Free
<1>3. StartInv'
  BY DEF StartInv
<1>4. StageInv'
  BY DEF StageInv, LineValid, item
<1>5. MemorySafe'
  BY DEF MemorySafe, item
<1>6. InstalledInv'
  BY DEF InstalledInv, Installed, item
<1>7. SnapshotConsistent'
  BY DEF SnapshotConsistent, WateringHolds, Level_of
<1> QED BY <1>1, <1>2, <1>3, <1>4, <1>5, <1>6, <1>7

LEMMA ReceiveNoValvesInv == ASSUME WateringInv, ReceiveNoValves PROVE WateringInv'
<1> USE DEF WateringInv, ReceiveNoValves, heapVars, taskVars, recvVars, chipVars
<1> USE DEF MessageArrives
<1>1. TypeOK'
  BY WateringAssumption DEF TypeOK, WPc, RPc
<1>2. LockInv'
  BY WateringAssumption DEF LockInv, WateringHolds, ReceiverHolds, RPc, Free
<1>3. StartInv'
  BY DEF StartInv
<1>4. StageInv'
  BY DEF StageInv, LineValid, item
<1>5. MemorySafe'
  BY DEF MemorySafe, item
<1>6. InstalledInv'
  BY DEF InstalledInv, Installed, item
<1>7. SnapshotConsistent'
  BY DEF SnapshotConsistent, WateringHolds, Level_of
<1> QED BY <1>1, <1>2, <1>3, <1>4, <1>5, <1>6, <1>7

LEMMA ReceiverTakeInv == ASSUME WateringInv, ReceiverTake PROVE WateringInv'
<1> USE DEF WateringInv, ReceiverTake, heapVars, taskVars, recvVars, chipVars
<1>1. TypeOK'
  BY WateringAssumption DEF TypeOK, WPc, RPc
<1>2. LockInv'
  BY WateringAssumption DEF LockInv, WateringHolds, ReceiverHolds, RPc, Free
<1>3. StartInv'
  BY DEF StartInv
<1>4. StageInv'
  BY DEF StageInv, LineValid, item
<1>5. MemorySafe'
  BY DEF MemorySafe, item
<1>6. InstalledInv'
  BY DEF InstalledInv, Installed, item
<1>7. SnapshotConsistent'
  BY DEF SnapshotConsistent, WateringHolds, Level_of
<1> QED BY <1>1, <1>2, <1>3, <1>4, <1>5, <1>6, <1>7

LEMMA SkipItemInv == ASSUME WateringInv, SkipItem PROVE WateringInv'
<1> USE DEF WateringInv, SkipItem, heapVars, taskVars, recvVars, chipVars
<1> USE DEF NextItem
<1>1. TypeOK'
  BY WateringAssumption DEF TypeOK, WPc, RPc
<1>2. LockInv'
  BY WateringAssumption DEF LockInv, WateringHolds, ReceiverHolds, RPc, Free
<1>3. StartInv'
  BY DEF StartInv
<1>4. StageInv'
  BY DEF StageInv, LineValid, item
<1>5. MemorySafe'
  BY DEF MemorySafe, item
<1>6. InstalledInv'
  BY DEF InstalledInv, Installed, item
<1>7. SnapshotConsistent'
  BY DEF SnapshotConsistent, WateringHolds, Level_of
<1> QED BY <1>1, <1>2, <1>3, <1>4, <1>5, <1>6, <1>7

LEMMA TickInv == ASSUME WateringInv, Tick PROVE WateringInv'
<1> USE DEF WateringInv, Tick, heapVars, taskVars, recvVars, chipVars
<1>1. TypeOK'
  BY WateringAssumption DEF TypeOK, WPc, RPc
<1>2. LockInv'
  BY WateringAssumption DEF LockInv, WateringHolds, ReceiverHolds, RPc, Free
<1>3. StartInv'
  BY DEF StartInv
<1>4. StageInv'
  BY DEF StageInv, LineValid, item
<1>5. MemorySafe'
  BY DEF MemorySafe, item
<1>6. InstalledInv'
  BY DEF InstalledInv, Installed, item
<1>7. SnapshotConsistent'
  BY DEF SnapshotConsistent, WateringHolds, Level_of
<1> QED BY <1>1, <1>2, <1>3, <1>4, <1>5, <1>6, <1>7

-----------------------------------------------------------------------------
(* The steps that rewrite one valve or the staging buffer.                 *)
LEMMA SetLevelAndModeInv == ASSUME WateringInv, SetLevelAndMode PROVE WateringInv'
<1> USE DEF WateringInv, SetLevelAndMode, heapVars, taskVars, recvVars, chipVars
<1> USE DEF NextItem
<1> DEFINE l == item.line
           r == WithLevelAndMode(valves[l], item)
<1>0. /\ valves \in [Valves -> Valve_t] /\ valves # NULL
      /\ item \in Item /\ l \in Valves
  BY ItemFacts, ValvesType DEF StartInv
<1>a. r \in Valve_t
  <2>1. /\ valves[l] \in Valve_t
        /\ item.active_state \in Int \cup {NULL} /\ item.mode \in Int \cup {NULL}
    BY <1>0 DEF Item
  <2>2. IF number_in_range(item.active_state, 0, 1)
        THEN item.active_state \in Level ELSE valves[l].active_state \in Level
    BY <2>1 DEF Valve_t, number_in_range, Level
  <2>3. IF number_in_range(item.mode, off, automatic)
        THEN item.mode \in ControlMode_t ELSE valves[l].mode \in ControlMode_t
    BY <2>1 DEF Valve_t, number_in_range, ControlMode_t, off, automatic
  <2> QED BY <2>1, <2>2, <2>3 DEF WithLevelAndMode, Valve_t
<1>b. /\ valves' \in [Valves -> Valve_t] /\ valves' # NULL
      /\ valves'[l] = r
      /\ \A v \in Valves \ {l} : valves'[v] = valves[v]
  BY <1>0, <1>a, ValveReplaced
<1>c. \A v \in Valves : /\ valves'[v].schedules = valves[v].schedules
                        /\ valves'[v].num_schedules = valves[v].num_schedules
  BY <1>b DEF WithLevelAndMode
<1>d. pos \in 1 .. Len(message) /\ message \in Seq(Item)
  BY DEF TypeOK
<1> HIDE DEF r, l
<1>1. TypeOK'
  BY <1>b, <1>d DEF TypeOK, RPc
<1>2. LockInv'
  BY DEF LockInv, WateringHolds, ReceiverHolds, RPc
<1>3. StartInv'
  BY <1>b DEF StartInv
<1>4. StageInv'
  <2>1. CASE ~HasSchedules
    BY <2>1 DEF StageInv
  <2>2. CASE HasSchedules
    <3>1. item' = item /\ LineValid'
      BY <2>2, SameItem
    <3>2. item.schedules \in Seq(Entry \cup {NULL})
      BY <1>0, <2>2 DEF Item, HasSchedules
    <3> QED BY <2>2, <3>1, <3>2, <1>d DEF StageInv
  <2> QED BY <2>1, <2>2
<1>5. MemorySafe'
  BY <1>0, <1>b, <1>c DEF MemorySafe
<1>6. InstalledInv'
  BY <1>0, <1>b, <1>c DEF InstalledInv, Installed
<1>7. SnapshotConsistent'
  BY DEF SnapshotConsistent, LockInv, WateringHolds, ReceiverHolds, RPc
<1> QED BY <1>1, <1>2, <1>3, <1>4, <1>5, <1>6, <1>7

LEMMA StageSchedulesInv == ASSUME WateringInv, StageSchedules PROVE WateringInv'
<1> USE DEF WateringInv, StageSchedules, heapVars, taskVars, recvVars, chipVars
<1> USE DEF NextItem
<1> DEFINE list == item.schedules
           n == Len(list)
           grown == Grown(buffer, n, buffer_size)
<1>0. /\ list \in Seq(Entry \cup {NULL}) /\ n \in Nat
      /\ pos \in 1 .. Len(message) /\ LineValid /\ message \in Seq(Item)
      /\ buffer \in Seq(Cell) /\ buffer_size \in Nat /\ buffer_size <= Len(buffer)
  BY DEF StageInv, TypeOK, MemorySafe
<1> HIDE DEF list
<1>a. /\ grown \in Seq(Cell) /\ n <= Len(grown)
  BY <1>0, GrownProps
<1> HIDE DEF grown
<1>b. /\ buffer' \in Seq(Cell)
      /\ Len(buffer') = Len(grown)
      /\ ReachedBy(list, n) => \A k \in 1 .. n : buffer'[k] \in Schedule_t
  BY <1>0, <1>a, FilledProps DEF grown, list
<1>c. buffer_size' = n
  BY DEF list
<1>d. /\ ReachedBy(list, n) => rpc' = "grow" /\ item' = item /\ LineValid' /\ pos' = pos
      /\ ~ReachedBy(list, n) => rpc' = "valve" /\ pos' = pos + 1
  BY <1>0, SameItem DEF list
<1>1. TypeOK'
  BY <1>0, <1>b, <1>c, <1>d DEF TypeOK, RPc
<1>2. LockInv'
  BY <1>d DEF LockInv, WateringHolds, ReceiverHolds, RPc
<1>3. StartInv'
  BY <1>d DEF StartInv
<1>4. StageInv'
  BY <1>0, <1>b, <1>d DEF StageInv, list
<1>5. MemorySafe'
  BY <1>0, <1>a, <1>b, <1>c, <1>d DEF MemorySafe, list
<1>6. InstalledInv'
  BY <1>d DEF InstalledInv, Installed
<1>7. SnapshotConsistent'
  BY DEF SnapshotConsistent, WateringHolds, Level_of
<1> QED BY <1>1, <1>2, <1>3, <1>4, <1>5, <1>6, <1>7

LEMMA GrowBlockInv == ASSUME WateringInv, GrowBlock PROVE WateringInv'
<1> USE DEF WateringInv, GrowBlock, heapVars, taskVars, recvVars, chipVars
<1> DEFINE l == item.line
           n == Len(item.schedules)
           r == WithBlock(valves[l], Grown(valves[l].schedules, n, valves[l].num_schedules))
<1>0. /\ valves \in [Valves -> Valve_t] /\ valves # NULL /\ l \in Valves
      /\ item.schedules \in Seq(Entry \cup {NULL}) /\ n \in Nat /\ n <= Len(buffer)
      /\ buffer \in Seq(Cell) /\ \A k \in 1 .. n : buffer[k] \in Schedule_t
      /\ pos \in 1 .. Len(message) /\ message \in Seq(Item)
  BY ItemFacts, ValvesType DEF StartInv, StageInv, MemorySafe, TypeOK
<1>i. item' = item /\ LineValid' = LineValid
  BY SameItem
<1> HIDE DEF n
<1>a. /\ valves[l] \in Valve_t /\ valves[l].schedules \in Seq(Cell)
      /\ valves[l].num_schedules \in Nat
      /\ valves[l].num_schedules <= Len(valves[l].schedules)
  BY <1>0 DEF Valve_t, MemorySafe
<1>b. LET g == Grown(valves[l].schedules, n, valves[l].num_schedules) IN
      /\ g \in Seq(Cell) /\ n <= Len(g) /\ valves[l].num_schedules <= Len(g)
      /\ \A k \in 1 .. valves[l].num_schedules : g[k] = valves[l].schedules[k]
  BY <1>0, <1>a, GrownProps
<1>c. r \in Valve_t
  BY <1>a, <1>b DEF WithBlock, Valve_t
<1>d. /\ n <= Len(r.schedules)
      /\ r.num_schedules = valves[l].num_schedules
      /\ r.num_schedules <= Len(r.schedules)
      /\ \A k \in 1 .. r.num_schedules : r.schedules[k] = valves[l].schedules[k]
  BY <1>a, <1>b DEF WithBlock
<1>v. /\ valves' \in [Valves -> Valve_t] /\ valves' # NULL
      /\ valves'[l] = r
      /\ \A v \in Valves \ {l} : valves'[v] = valves[v]
  BY <1>0, <1>c, ValveReplaced DEF n
<1> HIDE DEF r, l
<1>1. TypeOK'
  BY <1>0, <1>v DEF TypeOK, RPc
<1>2. LockInv'
  BY DEF LockInv, WateringHolds, ReceiverHolds, RPc
<1>3. StartInv'
  BY <1>v DEF StartInv
<1>4. StageInv'
  BY <1>i DEF StageInv
<1>5. MemorySafe'
  BY <1>0, <1>i, <1>v, <1>d DEF MemorySafe, n, l
<1>6. InstalledInv'
  BY <1>0, <1>v, <1>d DEF InstalledInv, Installed
<1>7. SnapshotConsistent'
  BY DEF SnapshotConsistent, LockInv, WateringHolds, ReceiverHolds, RPc
<1> QED BY <1>1, <1>2, <1>3, <1>4, <1>5, <1>6, <1>7

LEMMA SetCountInv == ASSUME WateringInv, SetCount PROVE WateringInv'
<1> USE DEF WateringInv, SetCount, heapVars, taskVars, recvVars, chipVars
<1> DEFINE l == item.line
           n == Len(item.schedules)
           r == WithCount(valves[l], n)
<1>0. /\ valves \in [Valves -> Valve_t] /\ valves # NULL /\ l \in Valves
      /\ item.schedules \in Seq(Entry \cup {NULL}) /\ n \in Nat /\ n <= Len(buffer)
      /\ buffer \in Seq(Cell) /\ \A k \in 1 .. n : buffer[k] \in Schedule_t
      /\ pos \in 1 .. Len(message) /\ message \in Seq(Item)
  BY ItemFacts, ValvesType DEF StartInv, StageInv, MemorySafe, TypeOK
<1>i. item' = item /\ LineValid' = LineValid
  BY SameItem
<1> HIDE DEF n
<1>a. /\ valves[l] \in Valve_t /\ valves[l].schedules \in Seq(Cell)
      /\ valves[l].num_schedules \in Nat
      /\ valves[l].num_schedules <= Len(valves[l].schedules)
  BY <1>0 DEF Valve_t, MemorySafe
<1>c. r \in Valve_t
  BY <1>0, <1>a DEF WithCount, Valve_t
<1>d. r.schedules = valves[l].schedules /\ r.num_schedules = n
      /\ n <= Len(r.schedules)
  BY <1>a DEF WithCount, MemorySafe, n
<1>v. /\ valves' \in [Valves -> Valve_t] /\ valves' # NULL
      /\ valves'[l] = r
      /\ \A v \in Valves \ {l} : valves'[v] = valves[v]
  BY <1>0, <1>c, ValveReplaced DEF n
<1> HIDE DEF r, l
<1>1. TypeOK'
  BY <1>0, <1>v DEF TypeOK, RPc
<1>2. LockInv'
  BY DEF LockInv, WateringHolds, ReceiverHolds, RPc
<1>3. StartInv'
  BY <1>v DEF StartInv
<1>4. StageInv'
  BY <1>0, <1>i, <1>v, <1>d DEF StageInv, n, l
<1>5. MemorySafe'
  BY <1>0, <1>i, <1>v, <1>d DEF MemorySafe, n, l
<1>6. InstalledInv'
  BY <1>0, <1>i, <1>v DEF InstalledInv, Installed, l
<1>7. SnapshotConsistent'
  BY DEF SnapshotConsistent, LockInv, WateringHolds, ReceiverHolds, RPc
<1> QED BY <1>1, <1>2, <1>3, <1>4, <1>5, <1>6, <1>7

LEMMA CopySchedulesInv == ASSUME WateringInv, CopySchedules PROVE WateringInv'
<1> USE DEF WateringInv, CopySchedules, heapVars, taskVars, recvVars, chipVars
<1> USE DEF NextItem
<1> DEFINE l == item.line
           n == Len(item.schedules)
           r == WithBlock(valves[l], Copied(valves[l].schedules, buffer, n))
<1>0. /\ valves \in [Valves -> Valve_t] /\ valves # NULL /\ l \in Valves
      /\ item.schedules \in Seq(Entry \cup {NULL}) /\ n \in Nat /\ n <= Len(buffer)
      /\ buffer \in Seq(Cell) /\ \A k \in 1 .. n : buffer[k] \in Schedule_t
      /\ pos \in 1 .. Len(message) /\ message \in Seq(Item)
  BY ItemFacts, ValvesType DEF StartInv, StageInv, MemorySafe, TypeOK
<1> HIDE DEF n
<1>a. /\ valves[l] \in Valve_t /\ valves[l].schedules \in Seq(Cell)
      /\ valves[l].num_schedules \in Nat
      /\ valves[l].num_schedules <= Len(valves[l].schedules)
  BY <1>0 DEF Valve_t, MemorySafe
<1>n. valves[l].num_schedules = n
  BY DEF StageInv, n
<1>b. LET c == Copied(valves[l].schedules, buffer, n) IN
      /\ c \in Seq(Cell) /\ Len(c) = Len(valves[l].schedules)
      /\ \A k \in 1 .. n : c[k] = buffer[k]
  <2>1. n <= Len(valves[l].schedules)
    BY DEF MemorySafe, n
  <2> QED BY <1>0, <1>a, <2>1, CopiedProps
<1>c. r \in Valve_t
  BY <1>a, <1>b DEF WithBlock, Valve_t
<1>d. /\ r.num_schedules = valves[l].num_schedules
      /\ r.num_schedules <= Len(r.schedules)
      /\ \A k \in 1 .. n : r.schedules[k] \in Schedule_t
  BY <1>0, <1>a, <1>b DEF WithBlock
<1>v. /\ valves' \in [Valves -> Valve_t] /\ valves' # NULL
      /\ valves'[l] = r
      /\ \A v \in Valves \ {l} : valves'[v] = valves[v]
  BY <1>0, <1>c, ValveReplaced DEF n
<1> HIDE DEF r, l
<1>1. TypeOK'
  BY <1>0, <1>v DEF TypeOK, RPc
<1>2. LockInv'
  BY DEF LockInv, WateringHolds, ReceiverHolds, RPc
<1>3. StartInv'
  BY <1>v DEF StartInv
<1>4. StageInv'
  BY DEF StageInv
<1>5. MemorySafe'
  BY <1>0, <1>v, <1>d DEF MemorySafe
<1>6. InstalledInv'
  BY <1>0, <1>n, <1>v, <1>d DEF InstalledInv, Installed, l
<1>7. SnapshotConsistent'
  BY DEF SnapshotConsistent, LockInv, WateringHolds, ReceiverHolds, RPc
<1> QED BY <1>1, <1>2, <1>3, <1>4, <1>5, <1>6, <1>7

LEMMA ReceiverGiveInv == ASSUME WateringInv, ReceiverGive PROVE WateringInv'
<1> USE DEF WateringInv, ReceiverGive, heapVars, taskVars, recvVars, chipVars
<1>1. TypeOK'
  BY WateringAssumption DEF TypeOK, WPc, RPc
<1>2. LockInv'
  BY WateringAssumption DEF LockInv, WateringHolds, ReceiverHolds, RPc, Free
<1>3. StartInv'
  BY DEF StartInv
<1>4. StageInv'
  BY DEF StageInv, LineValid, item
<1>5. MemorySafe'
  BY DEF MemorySafe, item
<1>6. InstalledInv'
  BY DEF InstalledInv, Installed, item
<1>7. SnapshotConsistent'
  BY DEF SnapshotConsistent, WateringHolds, Level_of
<1> QED BY <1>1, <1>2, <1>3, <1>4, <1>5, <1>6, <1>7

-----------------------------------------------------------------------------
(* All steps together, and the theorems.                                   *)
LEMMA NextInv == WateringInv /\ [Next]_vars => WateringInv'
<1> SUFFICES ASSUME WateringInv, [Next]_vars PROVE WateringInv'
  OBVIOUS
<1>1. CASE UNCHANGED vars
  BY <1>1 DEF WateringInv, TypeOK, LockInv, StartInv, StageInv, MemorySafe,
              InstalledInv, Installed, SnapshotConsistent, WateringHolds,
              ReceiverHolds, Level_of, LineValid, item, vars, heapVars,
              taskVars, recvVars, chipVars
<1>2. CASE WateringTask
  BY <1>2, InitValvesInv, CreateMutexInv, AbortInv, WriteDirectionsInv, WakeInv,
     WateringTakeInv, EvaluateInv, WateringGiveInv, WritePortsInv
     DEF WateringTask
<1>3. CASE Receiver
  BY <1>3, ReceiverTakeInv, SkipItemInv, SetLevelAndModeInv, StageSchedulesInv,
     GrowBlockInv, SetCountInv, CopySchedulesInv, ReceiverGiveInv
     DEF Receiver
<1> QED
  BY <1>1, <1>2, <1>3, ReceiveInv, ReceiveNoValvesInv, TickInv DEF Next

(* The inductive invariant is an invariant.                                *)
THEOREM WateringInvariant == Spec => []WateringInv
BY InitInv, NextInv, PTL DEF Spec

(* The types of all state, whatever messages arrive.                       *)
THEOREM TypeTheorem == Spec => []TypeOK
<1>1. WateringInv => TypeOK
  BY DEF WateringInv
<1> QED BY <1>1, WateringInvariant, PTL

(* configuration_mutex keeps the two critical sections apart.              *)
THEOREM ExclusionTheorem == Spec => []MutualExclusion
BY InvImplies, WateringInvariant, PTL

(* No task reads or writes outside a block of configure_schedules.         *)
THEOREM MemoryTheorem == Spec => []MemorySafe
BY InvImplies, WateringInvariant, PTL

(* Only validated entries are ever evaluated.                              *)
THEOREM InstalledTheorem == Spec => []InstalledValid
BY InvImplies, WateringInvariant, PTL

(* A round's levels belong to one configuration and one minute.            *)
THEOREM SnapshotTheorem == Spec => []SnapshotConsistent
BY InvImplies, WateringInvariant, PTL

-----------------------------------------------------------------------------
(* The refinement: first what a message makes of a configuration, item by  *)
(* item from the one the receiver is at.                                   *)

Before == {pair \in Nat \X Nat : pair[1] < pair[2]}

(* Induction over the natural numbers, as a fact about their subsets.      *)
LEMMA Least ==
    ASSUME NEW S \in SUBSET Nat, S # {}
    PROVE  \E m \in S : \A k \in S : m <= k
<1>1. IsWellFoundedOn(Before, Nat)
  <2>1. Before = OpToRel(<, Nat)
    BY DEF Before, OpToRel
  <2> QED BY <2>1, NatLessThanWellFounded
<1>2. PICK m \in S : \A k \in S : ~(<<k, m>> \in Before)
  BY <1>1, WFMin
<1>3. ASSUME NEW k \in S PROVE m <= k
  <2>1. m \in Nat /\ k \in Nat /\ <<k, m>> \in Nat \X Nat
        /\ <<k, m>>[1] = k /\ <<k, m>>[2] = m
    OBVIOUS
  <2>2. ~(k < m)
    BY <1>2, <2>1 DEF Before
  <2> QED BY <2>1, <2>2
<1> QED BY <1>3

LEMMA LastProps ==
    ASSUME NEW n \in Nat, NEW S \in SUBSET (1 .. n), S # {}
    PROVE  /\ Irrigated!Last(S) \in S
           /\ \A j \in S : j <= Irrigated!Last(S)
<1> DEFINE Distances == {d \in Nat : n - d \in S}
<1>0. \A k \in S : k \in Int /\ n - k \in Nat /\ n - (n - k) = k
  OBVIOUS
<1>1. PICK m \in Distances : \A d \in Distances : m <= d
  <2>1. PICK k \in S : TRUE
    OBVIOUS
  <2>2. n - k \in Distances
    BY <1>0
  <2> QED BY <2>2, Least
<1>2. n - m \in S
  BY <1>1
<1>3. ASSUME NEW j \in S PROVE j <= n - m
  <2>1. n - j \in Distances
    BY <1>0
  <2>2. m <= n - j
    BY <1>1, <2>1
  <2> QED BY <1>0, <2>2
<1> QED BY <1>2, <1>3 DEF Irrigated!Last

(* The last of some indices, when one below all of them is added.          *)
LEMMA LastOfMore ==
    ASSUME NEW n \in Nat, NEW from \in 1 .. n,
           NEW S \in SUBSET (from + 1 .. n)
    PROVE  Irrigated!Last({from} \cup S) = IF S = {} THEN from
                                           ELSE Irrigated!Last(S)
<1>1. {from} \cup S \in SUBSET (1 .. n) /\ S \in SUBSET (1 .. n)
      /\ \A j \in S : j \in Int /\ from < j
  OBVIOUS
<1> DEFINE l == Irrigated!Last({from} \cup S)
<1>2. l \in {from} \cup S /\ \A j \in {from} \cup S : j <= l
  BY <1>1, LastProps
<1> HIDE DEF l
<1>3. CASE S = {}
  BY <1>2, <1>3 DEF l
<1>4. CASE S # {}
  <2> DEFINE s == Irrigated!Last(S)
  <2>1. s \in S /\ \A j \in S : j <= s
    BY <1>1, <1>4, LastProps
  <2> HIDE DEF s
  <2>2. from < s /\ s <= l /\ s \in Int /\ l \in Int
    BY <1>1, <1>2, <2>1
  <2>3. l \in S
    BY <1>2, <2>2
  <2>4. l <= s
    BY <2>1, <2>3
  <2>5. l = s
    BY <2>2, <2>4
  <2> QED BY <1>4, <2>5 DEF l, s
<1> QED BY <1>3, <1>4

(* One item of a message: what the rest makes of the configuration before  *)
(* it, the items after it make of the configuration after it.              *)
LEMMA AppliedNext ==
    ASSUME NEW items \in Seq(Item), NEW from \in 1 .. Len(items),
           NEW v \in Valves, NEW c, NEW d,
           d[v].active_state =
              (IF /\ Irrigated!InRange(items[from].line, v, v)
                  /\ Irrigated!InRange(items[from].active_state, 0, 1)
               THEN items[from].active_state ELSE c[v].active_state),
           d[v].mode =
              (IF /\ Irrigated!InRange(items[from].line, v, v)
                  /\ Irrigated!InRange(items[from].mode, off, automatic)
               THEN items[from].mode ELSE c[v].mode),
           d[v].schedules =
              (IF /\ Irrigated!InRange(items[from].line, v, v)
                  /\ Irrigated!TakesList(items[from].schedules)
               THEN items[from].schedules ELSE c[v].schedules)
    PROVE  Irrigated!AppliedFrom(d, items, from + 1)[v]
              = Irrigated!AppliedFrom(c, items, from)[v]
<1> DEFINE n == Len(items)
           about == Irrigated!InRange(items[from].line, v, v)
           A == Irrigated!About(items, from + 1, v)
<1>0. n \in Nat /\ from \in 1 .. n /\ v \in Int /\ v \in Irrigated!Lines
  BY WateringAssumption DEF Valves, Irrigated!Lines
<1>2. /\ A \in SUBSET (from + 1 .. n)
      /\ Irrigated!About(items, from, v) = IF about THEN {from} \cup A ELSE A
  <2>1. from .. n = {from} \cup (from + 1 .. n)
    BY <1>0
  <2> QED BY <1>0, <2>1 DEF Irrigated!About
<1> HIDE DEF A
<1>3. Irrigated!AppliedFrom(d, items, from + 1)[v].active_state
         = Irrigated!AppliedFrom(c, items, from)[v].active_state
  <2> DEFINE b == about /\ Irrigated!InRange(items[from].active_state, 0, 1)
             S == Irrigated!WithLevel(items, from + 1, v)
             T == Irrigated!WithLevel(items, from, v)
  <2>1. S \in SUBSET (from + 1 .. n) /\ T = IF b THEN {from} \cup S ELSE S
    BY <1>2 DEF Irrigated!WithLevel, A
  <2> HIDE DEF n, b, S, T
  <2>2. Irrigated!Last({from} \cup S) = IF S = {} THEN from ELSE Irrigated!Last(S)
    BY <1>0, <2>1, LastOfMore
  <2>3. (IF T = {} THEN c[v].active_state ELSE items[Irrigated!Last(T)].active_state)
           = (IF S = {} THEN d[v].active_state ELSE items[Irrigated!Last(S)].active_state)
    BY <2>1, <2>2 DEF b
  <2> QED BY <1>0, <2>3 DEF Irrigated!AppliedFrom, S, T
<1>4. Irrigated!AppliedFrom(d, items, from + 1)[v].mode
         = Irrigated!AppliedFrom(c, items, from)[v].mode
  <2> DEFINE b == about /\ Irrigated!InRange(items[from].mode, off, automatic)
             S == Irrigated!WithMode(items, from + 1, v)
             T == Irrigated!WithMode(items, from, v)
  <2>1. S \in SUBSET (from + 1 .. n) /\ T = IF b THEN {from} \cup S ELSE S
    BY <1>2 DEF Irrigated!WithMode, A, off, automatic, Irrigated!off,
              Irrigated!automatic
  <2> HIDE DEF n, b, S, T
  <2>2. Irrigated!Last({from} \cup S) = IF S = {} THEN from ELSE Irrigated!Last(S)
    BY <1>0, <2>1, LastOfMore
  <2>3. (IF T = {} THEN c[v].mode ELSE items[Irrigated!Last(T)].mode)
           = (IF S = {} THEN d[v].mode ELSE items[Irrigated!Last(S)].mode)
    BY <2>1, <2>2 DEF b
  <2> QED BY <1>0, <2>3 DEF Irrigated!AppliedFrom, S, T
<1>5. Irrigated!AppliedFrom(d, items, from + 1)[v].schedules
         = Irrigated!AppliedFrom(c, items, from)[v].schedules
  <2> DEFINE b == about /\ Irrigated!TakesList(items[from].schedules)
             S == Irrigated!WithList(items, from + 1, v)
             T == Irrigated!WithList(items, from, v)
  <2>1. S \in SUBSET (from + 1 .. n) /\ T = IF b THEN {from} \cup S ELSE S
    BY <1>2 DEF Irrigated!WithList, A
  <2> HIDE DEF n, b, S, T
  <2>2. Irrigated!Last({from} \cup S) = IF S = {} THEN from ELSE Irrigated!Last(S)
    BY <1>0, <2>1, LastOfMore
  <2>3. (IF T = {} THEN c[v].schedules ELSE items[Irrigated!Last(T)].schedules)
           = (IF S = {} THEN d[v].schedules ELSE items[Irrigated!Last(S)].schedules)
    BY <2>1, <2>2 DEF b
  <2> QED BY <1>0, <2>3 DEF Irrigated!AppliedFrom, S, T
<1> QED BY <1>0, <1>3, <1>4, <1>5 DEF Irrigated!AppliedFrom

(* Where no item is left the configuration is what it was.                 *)
LEMMA AppliedNone ==
    ASSUME NEW items \in Seq(Item), NEW from \in Nat, from > Len(items),
           NEW c, NEW v \in Valves
    PROVE  Irrigated!AppliedFrom(c, items, from)[v]
              = [active_state |-> c[v].active_state, mode |-> c[v].mode,
                 schedules |-> c[v].schedules]
<1>1. from .. Len(items) = {}
  OBVIOUS
<1> QED BY <1>1 DEF Irrigated!AppliedFrom, Irrigated!About, Irrigated!WithLevel,
                    Irrigated!WithMode, Irrigated!WithList, Irrigated!Lines, Valves

(* What an item is about to say does not depend on what was there.         *)
LEMMA AppliedOver ==
    ASSUME NEW items, NEW from, NEW v \in Valves, NEW c, NEW d,
           \/ d[v].active_state = c[v].active_state
           \/ Irrigated!WithLevel(items, from, v) # {},
           \/ d[v].mode = c[v].mode
           \/ Irrigated!WithMode(items, from, v) # {},
           \/ d[v].schedules = c[v].schedules
           \/ Irrigated!WithList(items, from, v) # {}
    PROVE  Irrigated!AppliedFrom(d, items, from)[v]
              = Irrigated!AppliedFrom(c, items, from)[v]
BY DEF Irrigated!AppliedFrom, Irrigated!Lines, Valves

LEMMA AppliedEqual ==
    ASSUME NEW items, NEW from, NEW more, NEW later, NEW c, NEW d,
           \A v \in Valves : Irrigated!AppliedFrom(d, more, later)[v]
                                = Irrigated!AppliedFrom(c, items, from)[v]
    PROVE  Irrigated!AppliedFrom(d, more, later) = Irrigated!AppliedFrom(c, items, from)
<1>1. ASSUME NEW e, NEW i, NEW f
      PROVE  Irrigated!AppliedFrom(e, i, f)
                = [v \in Valves |-> Irrigated!AppliedFrom(e, i, f)[v]]
  BY DEF Irrigated!AppliedFrom, Irrigated!Lines, Valves
<1>2. [v \in Valves |-> Irrigated!AppliedFrom(d, more, later)[v]]
         = [v \in Valves |-> Irrigated!AppliedFrom(c, items, from)[v]]
  OBVIOUS
<1>3. Irrigated!AppliedFrom(d, more, later)
         = [v \in Valves |-> Irrigated!AppliedFrom(d, more, later)[v]]
  BY <1>1
<1>4. Irrigated!AppliedFrom(c, items, from)
         = [v \in Valves |-> Irrigated!AppliedFrom(c, items, from)[v]]
  BY <1>1
<1> QED BY <1>2, <1>3, <1>4

(* What the code takes over and what the description takes over.           *)
LEMMA SameTests ==
    /\ \A x, a, b : Irrigated!InRange(x, a, b) <=> number_in_range(x, a, b)
    /\ \A list \in Seq(Entry \cup {NULL}) :
          Irrigated!TakesList(list) <=>
             list # NULL /\ list # <<>> /\ ReachedBy(list, Len(list))
<1>1. ASSUME NEW x, NEW a, NEW b
      PROVE  Irrigated!InRange(x, a, b) <=> number_in_range(x, a, b)
  BY DEF Irrigated!InRange, number_in_range
<1>2. \A e : Irrigated!Acceptable(e) <=> EntryValid(e)
  BY DEF Irrigated!Acceptable, EntryValid, Irrigated!InRange, number_in_range,
         Irrigated!sunday, Irrigated!saturday, sunday, saturday
<1>3. \A list \in Seq(Entry \cup {NULL}) : DOMAIN list = 1 .. Len(list)
  OBVIOUS
<1> QED BY <1>1, <1>2, <1>3 DEF Irrigated!TakesList, ReachedBy

-----------------------------------------------------------------------------
(* What the refinement needs beyond the invariant: which message is being  *)
(* applied, that level and mode of the current item are in place while its *)
(* list is, and that what is staged is that list.                          *)

MessageInv ==
    /\ rpc # "idle" => message \in Messages
    /\ rpc = "take" => pos = 1
    /\ rpc \in {"stage", "grow", "count", "copy"} =>
          /\ HasSchedules
          /\ number_in_range(item.active_state, 0, 1) =>
                valves[item.line].active_state = item.active_state
          /\ number_in_range(item.mode, off, automatic) =>
                valves[item.line].mode = item.mode
    /\ rpc \in {"grow", "count", "copy"} =>
          /\ ReachedBy(item.schedules, Len(item.schedules))
          /\ \A k \in 1 .. Len(item.schedules) : buffer[k] = item.schedules[k]

(* The steps that leave the receiver and what it works on alone.           *)
LEMMA MessageKept ==
    ASSUME MessageInv, UNCHANGED <<valves, buffer, rpc, message, pos>>
    PROVE  MessageInv'
BY DEF MessageInv, HasSchedules, item

LEMMA MessageTask ==
    ASSUME WateringInv, MessageInv, WateringTask PROVE MessageInv'
<1>1. CASE InitValves
  BY <1>1 DEF InitValves, MessageInv, WateringInv, StartInv, recvVars
<1>2. CASE ~InitValves
  <2>1. UNCHANGED <<valves, buffer, rpc, message, pos>>
    BY <1>2 DEF WateringTask, CreateMutex, Abort, WriteDirections, Wake,
                WateringTake, Evaluate, WateringGive, WritePorts, heapVars, recvVars
  <2> QED BY <2>1, MessageKept
<1> QED BY <1>1, <1>2

(* The facts about the item whose list is being taken over.                *)
LEMMA StagedFacts ==
    ASSUME WateringInv, MessageInv, rpc \in {"valve", "stage", "grow", "count", "copy"},
           pos <= Len(message), LineValid
    PROVE  /\ valves \in [Valves -> Valve_t] /\ valves # NULL
           /\ item \in Item /\ item.line \in Valves
           /\ pos \in 1 .. Len(message) /\ message \in Seq(Item)
           /\ HasSchedules => item.schedules \in Seq(Entry \cup {NULL})
<1>1. /\ valves \in [Valves -> Valve_t] /\ valves # NULL
      /\ item \in Item /\ item.line \in Valves
  BY ItemFacts, ValvesType DEF WateringInv, StartInv
<1>2. HasSchedules => item.schedules \in Seq(Entry \cup {NULL})
  BY <1>1 DEF Item, HasSchedules
<1> QED BY <1>1, <1>2 DEF WateringInv, TypeOK

LEMMA MessageReceiver ==
    ASSUME WateringInv, MessageInv, Receiver PROVE MessageInv'
<1>0. UNCHANGED message /\ (rpc # "idle")
  BY DEF Receiver, ReceiverTake, SkipItem, SetLevelAndMode, StageSchedules,
         GrowBlock, SetCount, CopySchedules, ReceiverGive
<1>1. CASE ReceiverTake \/ SkipItem \/ CopySchedules \/ ReceiverGive
  BY <1>0, <1>1 DEF ReceiverTake, SkipItem, CopySchedules, ReceiverGive, NextItem, MessageInv
<1>2. CASE SetLevelAndMode
  <2>1. CASE ~HasSchedules
    BY <1>0, <1>2, <2>1 DEF SetLevelAndMode, NextItem, MessageInv
  <2>2. CASE HasSchedules
    <3>1. /\ rpc' = "stage" /\ item' = item /\ HasSchedules' = HasSchedules
      BY <1>2, <2>2, SameItem DEF SetLevelAndMode, HasSchedules
    <3>2. valves'[item.line] = WithLevelAndMode(valves[item.line], item)
      BY <1>2, StagedFacts DEF SetLevelAndMode
    <3> QED BY <1>0, <2>2, <3>1, <3>2 DEF MessageInv, WithLevelAndMode
  <2> QED BY <2>1, <2>2
<1>3. CASE StageSchedules
  <2> DEFINE list == item.schedules
             n == Len(list)
             grown == Grown(buffer, n, buffer_size)
  <2>0. /\ list \in Seq(Entry \cup {NULL}) /\ n \in Nat
        /\ buffer \in Seq(Cell) /\ buffer_size \in Nat /\ buffer_size <= Len(buffer)
    BY <1>3 DEF StageSchedules, WateringInv, StageInv, TypeOK, MemorySafe
  <2>1. CASE ~ReachedBy(list, n)
    BY <1>0, <1>3, <2>1 DEF StageSchedules, NextItem, MessageInv
  <2>2. CASE ReachedBy(list, n)
    <3>1. /\ rpc' = "grow" /\ item' = item /\ HasSchedules' = HasSchedules
          /\ valves' = valves /\ rpc = "stage"
      BY <1>3, <2>2, SameItem DEF StageSchedules, HasSchedules
    <3>2. grown \in Seq(Cell) /\ n <= Len(grown)
      <4> HIDE DEF list
      <4> QED BY <2>0, GrownProps
    <3>3. ASSUME NEW k \in 1 .. n PROVE buffer'[k] = list[k]
      <4>1. k <= n /\ ReachedBy(list, k) /\ k \in 1 .. Len(grown)
        BY <2>0, <2>2, <3>2, <3>3 DEF ReachedBy
      <4>2. buffer' = Filled(grown, list)
        BY <1>3 DEF StageSchedules
      <4> QED BY <4>1, <4>2 DEF Filled
    <3> QED BY <1>0, <2>2, <3>1, <3>3 DEF MessageInv
  <2> QED BY <2>1, <2>2
<1>4. CASE GrowBlock \/ SetCount
  <2>0. /\ item' = item /\ HasSchedules' = HasSchedules
        /\ rpc \in {"grow", "count"} /\ rpc' \in {"count", "copy"} /\ buffer' = buffer
    BY <1>4, SameItem DEF GrowBlock, SetCount, HasSchedules
  <2>1. /\ valves \in [Valves -> Valve_t] /\ item.line \in Valves
    BY <2>0, StagedFacts DEF WateringInv, StageInv
  <2>2. /\ valves'[item.line].active_state = valves[item.line].active_state
        /\ valves'[item.line].mode = valves[item.line].mode
    BY <1>4, <2>1 DEF GrowBlock, SetCount, WithBlock, WithCount
  <2> QED BY <1>0, <2>0, <2>2 DEF MessageInv
<1> QED BY <1>1, <1>2, <1>3, <1>4 DEF Receiver

LEMMA MessageNext == WateringInv /\ MessageInv /\ [Next]_vars => MessageInv'
<1> SUFFICES ASSUME WateringInv, MessageInv, [Next]_vars PROVE MessageInv'
  OBVIOUS
<1>1. CASE Tick \/ ReceiveNoValves \/ UNCHANGED vars
  <2>1. UNCHANGED <<valves, buffer, rpc, message, pos>>
    BY <1>1 DEF Tick, ReceiveNoValves, vars, heapVars, recvVars
  <2> QED BY <2>1, MessageKept
<1>2. CASE Receive
  BY <1>2 DEF Receive, MessageInv
<1> QED BY <1>1, <1>2, MessageTask, MessageReceiver DEF Next

LEMMA MessageInvariant == Spec => []MessageInv
<1>1. Init => MessageInv
  BY DEF Init, MessageInv
<1> QED BY <1>1, MessageNext, WateringInvariant, PTL DEF Spec

-----------------------------------------------------------------------------
(* The receiver's steps do not change what its message will have made of   *)
(* the configuration.                                                      *)

LEMMA InstalledIs ==
    ASSUME valves # NULL, NEW v \in Valves
    PROVE  /\ InstalledConfig[v].active_state = valves[v].active_state
           /\ InstalledConfig[v].mode = valves[v].mode
           /\ InstalledConfig[v].schedules
                 = SubSeq(valves[v].schedules, 1, valves[v].num_schedules)
BY DEF InstalledConfig

AboutItem(v) == Irrigated!InRange(item.line, v, v)

(* A step that ends an item has done all the item says, and no more.       *)
LEMMA ItemDone ==
    ASSUME WateringInv, ReceiverHolds, ReceiverHolds',
           pos <= Len(message), pos' = pos + 1, message' = message,
           \A v \in Valves :
              /\ InstalledConfig'[v].active_state =
                    IF AboutItem(v) /\ number_in_range(item.active_state, 0, 1)
                    THEN item.active_state ELSE InstalledConfig[v].active_state
              /\ InstalledConfig'[v].mode =
                    IF AboutItem(v) /\ number_in_range(item.mode, off, automatic)
                    THEN item.mode ELSE InstalledConfig[v].mode
              /\ InstalledConfig'[v].schedules =
                    IF AboutItem(v) /\ HasSchedules
                          /\ ReachedBy(item.schedules, Len(item.schedules))
                    THEN item.schedules ELSE InstalledConfig[v].schedules
    PROVE  PromisedConfig' = PromisedConfig
<1>0. message \in Seq(Item) /\ pos \in 1 .. Len(message)
  BY DEF WateringInv, TypeOK
<1>1. item.schedules \in Seq(Entry \cup {NULL}) \cup {NULL}
  <2>1. item \in Item
    BY <1>0 DEF item
  <2> QED BY <2>1 DEF Item
<1>2. (HasSchedules /\ ReachedBy(item.schedules, Len(item.schedules)))
         <=> Irrigated!TakesList(item.schedules)
  <2>1. CASE item.schedules = NULL
    BY <2>1 DEF HasSchedules, Irrigated!TakesList
  <2>2. CASE item.schedules # NULL
    BY <1>1, <2>2, SameTests DEF HasSchedules
  <2> QED BY <2>1, <2>2
<1>3. ASSUME NEW v \in Valves
      PROVE  Irrigated!AppliedFrom(InstalledConfig', message, pos + 1)[v]
                = Irrigated!AppliedFrom(InstalledConfig, message, pos)[v]
  <2> DEFINE d == InstalledConfig'
             c == InstalledConfig
  <2>0. \A x, a, b : Irrigated!InRange(x, a, b) <=> number_in_range(x, a, b)
    BY SameTests
  <2>1. /\ d[v].active_state =
             (IF /\ Irrigated!InRange(message[pos].line, v, v)
                 /\ Irrigated!InRange(message[pos].active_state, 0, 1)
              THEN message[pos].active_state ELSE c[v].active_state)
        /\ d[v].mode =
             (IF /\ Irrigated!InRange(message[pos].line, v, v)
                 /\ Irrigated!InRange(message[pos].mode, off, automatic)
              THEN message[pos].mode ELSE c[v].mode)
        /\ d[v].schedules =
             (IF /\ Irrigated!InRange(message[pos].line, v, v)
                 /\ Irrigated!TakesList(message[pos].schedules)
              THEN message[pos].schedules ELSE c[v].schedules)
    BY <1>2, <2>0 DEF item, AboutItem
  <2> HIDE DEF c, d
  <2>2. Irrigated!AppliedFrom(d, message, pos + 1)[v]
           = Irrigated!AppliedFrom(c, message, pos)[v]
    BY <1>0, <2>1, ZenonT(60), AppliedNext
  <2> QED BY <2>2 DEF c, d
<1>4. Irrigated!AppliedFrom(InstalledConfig', message, pos + 1)
         = Irrigated!AppliedFrom(InstalledConfig, message, pos)
  BY <1>3, AppliedEqual
<1>5. PromisedConfig' = Irrigated!AppliedFrom(InstalledConfig', message', pos')
  BY DEF PromisedConfig
<1>6. PromisedConfig = Irrigated!AppliedFrom(InstalledConfig, message, pos)
  BY DEF PromisedConfig
<1> QED BY <1>4, <1>5, <1>6

(* A step within an item changes only what the item still says.            *)
LEMMA ItemUnderWay ==
    ASSUME WateringInv, ReceiverHolds, ReceiverHolds',
           pos <= Len(message), UNCHANGED <<pos, message>>,
           LineValid, HasSchedules,
           \A v \in Valves \ {item.line} : InstalledConfig'[v] = InstalledConfig[v],
           \/ InstalledConfig'[item.line].active_state
                 = InstalledConfig[item.line].active_state
           \/ number_in_range(item.active_state, 0, 1),
           \/ InstalledConfig'[item.line].mode = InstalledConfig[item.line].mode
           \/ number_in_range(item.mode, off, automatic),
           \/ InstalledConfig'[item.line].schedules
                 = InstalledConfig[item.line].schedules
           \/ ReachedBy(item.schedules, Len(item.schedules))
    PROVE  PromisedConfig' = PromisedConfig
<1>0. /\ message \in Seq(Item) /\ pos \in 1 .. Len(message)
      /\ item \in Item /\ item.line \in Valves
  BY ItemFacts DEF WateringInv, TypeOK
<1>1. pos \in Irrigated!About(message, pos, item.line)
  BY <1>0, WateringAssumption
     DEF Irrigated!About, Irrigated!InRange, item, LineValid, number_in_range, Valves
<1>2. item.schedules \in Seq(Entry \cup {NULL})
  BY <1>0 DEF Item, HasSchedules
<1>3. /\ number_in_range(item.active_state, 0, 1)
            => Irrigated!WithLevel(message, pos, item.line) # {}
      /\ number_in_range(item.mode, off, automatic)
            => Irrigated!WithMode(message, pos, item.line) # {}
      /\ ReachedBy(item.schedules, Len(item.schedules))
            => Irrigated!WithList(message, pos, item.line) # {}
  BY <1>1, <1>2, SameTests
     DEF Irrigated!WithLevel, Irrigated!WithMode, Irrigated!WithList, item, HasSchedules,
         off, automatic, Irrigated!off, Irrigated!automatic
<1>4. ASSUME NEW v \in Valves
      PROVE  Irrigated!AppliedFrom(InstalledConfig', message, pos)[v]
                = Irrigated!AppliedFrom(InstalledConfig, message, pos)[v]
  <2> DEFINE d == InstalledConfig'
             c == InstalledConfig
  <2>1. /\ \/ d[v].active_state = c[v].active_state
           \/ Irrigated!WithLevel(message, pos, v) # {}
        /\ \/ d[v].mode = c[v].mode
           \/ Irrigated!WithMode(message, pos, v) # {}
        /\ \/ d[v].schedules = c[v].schedules
           \/ Irrigated!WithList(message, pos, v) # {}
    BY <1>3
  <2> HIDE DEF c, d
  <2>2. Irrigated!AppliedFrom(d, message, pos)[v]
           = Irrigated!AppliedFrom(c, message, pos)[v]
    BY <2>1, ZenonT(60), AppliedOver
  <2> QED BY <2>2 DEF c, d
<1>5. Irrigated!AppliedFrom(InstalledConfig', message, pos)
         = Irrigated!AppliedFrom(InstalledConfig, message, pos)
  BY <1>4, AppliedEqual
<1>6. PromisedConfig' = Irrigated!AppliedFrom(InstalledConfig', message', pos')
  BY DEF PromisedConfig
<1>7. PromisedConfig = Irrigated!AppliedFrom(InstalledConfig, message, pos)
  BY DEF PromisedConfig
<1> QED BY <1>5, <1>6, <1>7

LEMMA PromiseReceiver ==
    ASSUME WateringInv, WateringInv', MessageInv, Receiver,
           ~ReceiverTake, ~ReceiverGive
    PROVE  PromisedConfig' = PromisedConfig
<1>0. /\ ReceiverHolds /\ ReceiverHolds' /\ message' = message
      /\ rpc \in {"valve", "stage", "grow", "count", "copy"}
      /\ pos <= Len(message) /\ pos \in Nat /\ message \in Seq(Item)
      /\ rpc # "valve" => LineValid /\ HasSchedules
  <2>1. /\ rpc \in {"valve", "stage", "grow", "count", "copy"}
        /\ rpc' \in {"valve", "stage", "grow", "count", "copy"}
        /\ message' = message
        /\ rpc = "valve" => pos <= Len(message)
    BY DEF Receiver, SkipItem, SetLevelAndMode, StageSchedules, GrowBlock, SetCount,
           CopySchedules, NextItem
  <2>2. pos \in Nat /\ message \in Seq(Item)
    BY DEF WateringInv, TypeOK
  <2>3. rpc # "valve" => pos <= Len(message) /\ LineValid /\ HasSchedules
    BY <2>1 DEF WateringInv, StageInv, MessageInv
  <2> QED BY <2>1, <2>2, <2>3 DEF ReceiverHolds, RPc
<1>1. CASE SkipItem
  <2>1. ASSUME NEW v \in Valves PROVE ~AboutItem(v)
    <3>1. item \in Item
      BY <1>0, ItemFacts DEF WateringInv
    <3>2. item.line \in Int \cup {NULL}
      BY <3>1 DEF Item
    <3> QED BY <1>1, <3>2, WateringAssumption
            DEF SkipItem, AboutItem, Irrigated!InRange, LineValid, number_in_range, Valves
  <2>2. InstalledConfig' = InstalledConfig
    BY <1>1 DEF SkipItem, InstalledConfig, heapVars
  <2>3. pos' = pos + 1
    BY <1>1 DEF SkipItem, NextItem
  <2> QED BY <1>0, <2>1, <2>2, <2>3, ItemDone
<1>2. ASSUME LineValid
      PROVE  /\ valves \in [Valves -> Valve_t] /\ valves # NULL
             /\ valves' \in [Valves -> Valve_t] /\ valves' # NULL
             /\ item \in Item /\ item.line \in Valves
             /\ \A v \in Valves : AboutItem(v) <=> v = item.line
  <2>1. /\ valves \in [Valves -> Valve_t] /\ valves # NULL
        /\ item \in Item /\ item.line \in Valves
    BY <1>0, <1>2, StagedFacts
  <2>2. valves' \in [Valves -> Valve_t] /\ valves' # NULL
    BY <1>0 DEF WateringInv, TypeOK, StartInv, ReceiverHolds, RPc
  <2>3. item.line # NULL
    BY <1>2 DEF LineValid, number_in_range
  <2>4. \A v \in Valves : AboutItem(v) <=> v = item.line
    BY <2>1, <2>3, WateringAssumption DEF AboutItem, Irrigated!InRange, Valves
  <2> QED BY <2>1, <2>2, <2>4
<1>3. CASE SetLevelAndMode
  <2> DEFINE l == item.line
             r == WithLevelAndMode(valves[l], item)
  <2>0. LineValid
    BY <1>3 DEF SetLevelAndMode
  <2>1. /\ valves'[l] = r
        /\ \A v \in Valves \ {l} : valves'[v] = valves[v]
    BY <1>2, <1>3, <2>0 DEF SetLevelAndMode
  <2>2. \A v \in Valves \ {l} : InstalledConfig'[v] = InstalledConfig[v]
    BY <1>2, <2>0, <2>1 DEF InstalledConfig
  <2>3. /\ InstalledConfig'[l].active_state = r.active_state
        /\ InstalledConfig'[l].mode = r.mode
        /\ InstalledConfig'[l].schedules = InstalledConfig[l].schedules
    BY <1>2, <2>0, <2>1 DEF InstalledConfig, WithLevelAndMode
  <2>4. /\ InstalledConfig[l].active_state = valves[l].active_state
        /\ InstalledConfig[l].mode = valves[l].mode
    BY <1>2, <2>0, InstalledIs
  <2>5. /\ r.active_state = IF number_in_range(item.active_state, 0, 1)
                            THEN item.active_state ELSE valves[l].active_state
        /\ r.mode = IF number_in_range(item.mode, off, automatic)
                    THEN item.mode ELSE valves[l].mode
    BY DEF WithLevelAndMode
  <2> HIDE DEF r
  <2>6. CASE HasSchedules
    <3>1. UNCHANGED <<pos, message>>
      BY <1>0, <1>3, <2>6 DEF SetLevelAndMode
    <3> QED BY <1>0, <2>0, <2>2, <2>3, <2>4, <2>5, <2>6, <3>1, ItemUnderWay
  <2>7. CASE ~HasSchedules
    <3>1. pos' = pos + 1
      BY <1>3, <2>7 DEF SetLevelAndMode, NextItem
    <3> QED BY <1>0, <1>2, <2>0, <2>2, <2>3, <2>4, <2>5, <2>7, <3>1, ItemDone
  <2> QED BY <2>6, <2>7
<1>4. CASE StageSchedules
  <2>0. LineValid /\ HasSchedules /\ rpc = "stage"
    BY <1>0, <1>4 DEF StageSchedules
  <2>1. InstalledConfig' = InstalledConfig
    BY <1>4 DEF StageSchedules, InstalledConfig
  <2>2. CASE ReachedBy(item.schedules, Len(item.schedules))
    <3>1. UNCHANGED <<pos, message>>
      BY <1>0, <1>4, <2>2 DEF StageSchedules
    <3> QED BY <1>0, <2>0, <2>1, <3>1, ItemUnderWay
  <2>3. CASE ~ReachedBy(item.schedules, Len(item.schedules))
    <3>1. pos' = pos + 1
      BY <1>4, <2>3 DEF StageSchedules, NextItem
    <3>2. ASSUME NEW v \in Valves, AboutItem(v)
          PROVE  /\ number_in_range(item.active_state, 0, 1)
                      => InstalledConfig[v].active_state = item.active_state
                 /\ number_in_range(item.mode, off, automatic)
                      => InstalledConfig[v].mode = item.mode
      BY <1>2, <2>0, <3>2, InstalledIs DEF MessageInv
    <3> QED BY <1>0, <2>1, <2>3, <3>1, <3>2, ItemDone
  <2> QED BY <2>2, <2>3
<1>5. CASE GrowBlock \/ SetCount
  <2> DEFINE l == item.line
  <2>0. /\ LineValid /\ HasSchedules /\ ReachedBy(item.schedules, Len(item.schedules))
        /\ UNCHANGED <<pos, message>>
    BY <1>0, <1>5 DEF GrowBlock, SetCount, MessageInv
  <2>1. /\ valves'[l].active_state = valves[l].active_state
        /\ valves'[l].mode = valves[l].mode
        /\ \A v \in Valves \ {l} : valves'[v] = valves[v]
    BY <1>2, <1>5, <2>0 DEF GrowBlock, SetCount, WithBlock, WithCount
  <2>2. /\ \A v \in Valves \ {l} : InstalledConfig'[v] = InstalledConfig[v]
        /\ InstalledConfig'[l].active_state = InstalledConfig[l].active_state
        /\ InstalledConfig'[l].mode = InstalledConfig[l].mode
    BY <1>2, <2>0, <2>1 DEF InstalledConfig
  <2> QED BY <1>0, <2>0, <2>2, ItemUnderWay
<1>6. CASE CopySchedules
  <2> DEFINE l == item.line
             list == item.schedules
             n == Len(list)
             cells == valves[l].schedules
  <2>0. /\ LineValid /\ HasSchedules /\ ReachedBy(list, n) /\ rpc = "copy"
        /\ pos' = pos + 1
    BY <1>0, <1>6 DEF CopySchedules, NextItem, MessageInv
  <2>1. /\ list \in Seq(Entry \cup {NULL}) /\ n \in Nat
        /\ valves[l].num_schedules = n
        /\ n <= Len(buffer) /\ n <= Len(cells)
        /\ \A k \in 1 .. n : buffer[k] = list[k]
        /\ buffer \in Seq(Cell) /\ cells \in Seq(Cell)
    <3>1. /\ list \in Seq(Entry \cup {NULL}) /\ valves[l].num_schedules = n
      BY <2>0 DEF WateringInv, StageInv
    <3>2. n <= Len(buffer) /\ n <= Len(cells)
      BY <2>0 DEF WateringInv, MemorySafe
    <3>3. \A k \in 1 .. n : buffer[k] = list[k]
      BY <2>0 DEF MessageInv
    <3>4. valves[l] \in Valve_t /\ buffer \in Seq(Cell)
      BY <1>2, <2>0 DEF WateringInv, TypeOK
    <3>5. cells \in Seq(Cell)
      BY <3>4 DEF Valve_t
    <3>6. n \in Nat
      <4> HIDE DEF list
      <4> QED BY <3>1
    <3> QED BY <3>1, <3>2, <3>3, <3>4, <3>5, <3>6
  <2>2. /\ valves'[l] = WithBlock(valves[l], Copied(cells, buffer, n))
        /\ \A v \in Valves \ {l} : valves'[v] = valves[v]
    BY <1>2, <1>6, <2>0 DEF CopySchedules
  <2>3. \A v \in Valves \ {l} : InstalledConfig'[v] = InstalledConfig[v]
    BY <1>2, <2>0, <2>2 DEF InstalledConfig
  <2> DEFINE copied == Copied(cells, buffer, n)
  <2>4. /\ InstalledConfig'[l].active_state = valves[l].active_state
        /\ InstalledConfig'[l].mode = valves[l].mode
        /\ InstalledConfig'[l].schedules = SubSeq(copied, 1, n)
    BY <1>2, <2>0, <2>1, <2>2 DEF InstalledConfig, WithBlock
  <2>5. SubSeq(copied, 1, n) = list
    <3> HIDE DEF list
    <3>1. /\ copied \in Seq(Cell) /\ Len(copied) = Len(cells)
          /\ \A k \in 1 .. n : copied[k] = list[k]
      <4> HIDE DEF cells, n
      <4> QED BY <2>1, CopiedProps
    <3> HIDE DEF copied, cells
    <3> QED BY <2>1, <3>1
  <2>6. /\ InstalledConfig[l].active_state = valves[l].active_state
        /\ InstalledConfig[l].mode = valves[l].mode
    BY <1>2, <2>0, InstalledIs
  <2>7. /\ number_in_range(item.active_state, 0, 1)
              => valves[l].active_state = item.active_state
        /\ number_in_range(item.mode, off, automatic)
              => valves[l].mode = item.mode
    BY <2>0 DEF MessageInv
  <2> HIDE DEF copied
  <2> QED BY <1>0, <1>2, <2>0, <2>3, <2>4, <2>5, <2>6, <2>7, ItemDone
<1> QED BY <1>1, <1>3, <1>4, <1>5, <1>6 DEF Receiver

(* Taking the mutex is the moment a message takes effect.                  *)
LEMMA TakeConfigures ==
    ASSUME WateringInv, MessageInv, ReceiverTake PROVE Promise!Configure
<1>1. ~ReceiverHolds /\ ReceiverHolds' /\ pos = 1 /\ message \in Messages
  BY DEF ReceiverTake, ReceiverHolds, RPc, MessageInv
<1>2. InstalledConfig' = InstalledConfig
  BY DEF ReceiverTake, InstalledConfig, heapVars
<1>3. PromisedConfig = InstalledConfig
  BY <1>1 DEF PromisedConfig
<1>4. PromisedConfig' = Irrigated!AppliedFrom(InstalledConfig', message', pos')
  BY <1>1 DEF PromisedConfig
<1>5. message' = message /\ pos' = pos
  BY DEF ReceiverTake
<1>6. PromisedConfig' = Irrigated!AppliedFrom(PromisedConfig, message, 1)
  BY <1>1, <1>2, <1>3, <1>4, <1>5
<1>7. \A c, items, from : Promise!AppliedFrom(c, items, from)
                             = Irrigated!AppliedFrom(c, items, from)
  BY DEF Promise!AppliedFrom, Irrigated!AppliedFrom, Promise!Lines, Irrigated!Lines,
         Promise!WithLevel, Irrigated!WithLevel, Promise!WithMode, Irrigated!WithMode,
         Promise!WithList, Irrigated!WithList, Promise!About, Irrigated!About,
         Promise!InRange, Irrigated!InRange, Promise!TakesList, Irrigated!TakesList,
         Promise!Acceptable, Irrigated!Acceptable, Promise!Last, Irrigated!Last,
         Promise!off, Irrigated!off, Promise!automatic, Irrigated!automatic,
         Promise!sunday, Irrigated!sunday, Promise!saturday, Irrigated!saturday
<1>8. RoundLevels' = RoundLevels
  BY DEF ReceiverTake, RoundLevels, WateringHolds, Level_of, heapVars, taskVars
<1>9. UNCHANGED <<now, time_point, gpio>>
  BY DEF ReceiverTake, taskVars, chipVars
<1> QED BY <1>1, <1>6, <1>7, <1>8, <1>9 DEF Promise!Configure

(* When the mutex is given back nothing of the message is left to apply.   *)
LEMMA GiveKeepsPromise ==
    ASSUME WateringInv, ReceiverGive PROVE PromisedConfig' = PromisedConfig
<1>1. ReceiverHolds /\ ~ReceiverHolds' /\ pos > Len(message)
      /\ message \in Seq(Item) /\ pos \in Nat
  BY DEF ReceiverGive, ReceiverHolds, RPc, WateringInv, TypeOK
<1>2. ASSUME NEW v \in Valves
      PROVE  Irrigated!AppliedFrom(InstalledConfig, message, pos)[v] = InstalledConfig[v]
  <2>1. Irrigated!AppliedFrom(InstalledConfig, message, pos)[v]
           = [active_state |-> InstalledConfig[v].active_state,
              mode |-> InstalledConfig[v].mode,
              schedules |-> InstalledConfig[v].schedules]
    BY <1>1, AppliedNone
  <2>2. InstalledConfig[v]
           = [active_state |-> InstalledConfig[v].active_state,
              mode |-> InstalledConfig[v].mode,
              schedules |-> InstalledConfig[v].schedules]
    BY DEF InstalledConfig
  <2> QED BY <2>1, <2>2
<1>3. InstalledConfig = [v \in Valves |-> InstalledConfig[v]]
  BY DEF InstalledConfig
<1>4. Irrigated!AppliedFrom(InstalledConfig, message, pos)
         = [v \in Valves |-> Irrigated!AppliedFrom(InstalledConfig, message, pos)[v]]
  BY DEF Irrigated!AppliedFrom, Irrigated!Lines, Valves
<1>5. PromisedConfig = InstalledConfig
  BY <1>1, <1>2, <1>3, <1>4 DEF PromisedConfig
<1>6. PromisedConfig' = InstalledConfig'
  BY <1>1 DEF PromisedConfig
<1>7. InstalledConfig' = InstalledConfig
  BY DEF ReceiverGive, InstalledConfig, heapVars
<1> QED BY <1>5, <1>6, <1>7

-----------------------------------------------------------------------------
(* Rounds. *)

(* The level of a valve depends on the entries it counts, not on its block. *)
LEMMA LevelsAgree ==
    ASSUME WateringInv, valves # NULL, NEW v \in Valves, NEW t
    PROVE  Promise!Prescribed(InstalledConfig, v, t) = Level_of(v, t)
<1> DEFINE b == valves[v].schedules
           n == valves[v].num_schedules
           s == SubSeq(b, 1, n)
<1>1. valves[v] \in Valve_t
  BY ValvesType DEF WateringInv
<1>2. b \in Seq(Cell) /\ n \in Nat /\ n <= Len(b)
  BY <1>1 DEF Valve_t, WateringInv, MemorySafe
<1>3. Len(s) = n /\ \A k \in 1 .. n : s[k] = b[k]
  <2> HIDE DEF b, n
  <2> QED BY <1>2
<1>4. /\ InstalledConfig[v].active_state = valves[v].active_state
      /\ InstalledConfig[v].mode = valves[v].mode
      /\ InstalledConfig[v].schedules = s
  BY InstalledIs
<1>5. \A e : Promise!time_matches_schedule(t, e) <=> time_matches_schedule(t, e)
  BY DEF Promise!time_matches_schedule, time_matches_schedule
<1> HIDE DEF b, n, s
<1>6. (\E i \in 1 .. Len(s) : Promise!time_matches_schedule(t, s[i]))
         <=> (\E i \in 1 .. n : time_matches_schedule(t, b[i]))
  BY <1>3, <1>5
<1>7. Promise!Prescribed(InstalledConfig, v, t)
         = Promise!get_valve_state(t, valves[v].active_state, valves[v].mode, s, Len(s))
  BY <1>4 DEF Promise!Prescribed
<1>8. Level_of(v, t) = get_valve_state(t, valves[v].active_state, valves[v].mode, b, n)
  BY DEF Level_of, b, n
<1> QED BY <1>6, <1>7, <1>8
        DEF Promise!get_valve_state, get_valve_state, Promise!on, Promise!off, on, off

LEMMA PromiseKept ==
    ASSUME UNCHANGED <<valves, rpc, message, pos>>
    PROVE  PromisedConfig' = PromisedConfig
BY DEF PromisedConfig, InstalledConfig, ReceiverHolds

LEMMA RoundKept ==
    ASSUME UNCHANGED valves_states,
           \/ ~WateringHolds /\ ~WateringHolds'
           \/ UNCHANGED <<valves, wpc, next_valve, time_point>>
    PROVE  RoundLevels' = RoundLevels
BY DEF RoundLevels, WateringHolds, Level_of

(* A round is decided where the task takes the mutex: the levels it is     *)
(* about to evaluate one by one.                                           *)
LEMMA TakeDecides ==
    ASSUME WateringInv, WateringTake PROVE Promise!Decide
<1>1. ~ReceiverHolds /\ valves # NULL
  BY DEF WateringTake, WateringInv, LockInv, StartInv, Free
<1>2. PromisedConfig = InstalledConfig
  BY <1>1 DEF PromisedConfig
<1>3. UNCHANGED <<valves, rpc, message, pos, time_point, now, gpio>>
  BY DEF WateringTake, heapVars, recvVars, chipVars
<1>4. RoundLevels' = [v \in Valves |-> Level_of(v, time_point)]
  <2>1. \A v \in Valves : v >= 0
    BY WateringAssumption DEF Valves
  <2>2. WateringHolds' /\ next_valve' = 0
    BY DEF WateringTake, WateringHolds
  <2>3. \A v \in Valves : Level_of(v, time_point)' = Level_of(v, time_point)
    BY <1>3 DEF Level_of
  <2> QED BY <2>1, <2>2, <2>3 DEF RoundLevels
<1>5. [v \in Valves |-> Level_of(v, time_point)]
         = [v \in Promise!Lines |-> Promise!Prescribed(InstalledConfig, v, time_point)]
  BY <1>1, LevelsAgree DEF Promise!Lines, Valves
<1>6. PromisedConfig' = PromisedConfig
  BY <1>3, PromiseKept
<1> QED BY <1>2, <1>3, <1>4, <1>5, <1>6 DEF Promise!Decide

(* Evaluating the next valve changes nothing that was decided.             *)
LEMMA EvaluateKeepsRound ==
    ASSUME WateringInv, Evaluate PROVE RoundLevels' = RoundLevels
<1>1. /\ WateringHolds /\ WateringHolds' /\ next_valve \in Valves
      /\ next_valve' = next_valve + 1 /\ next_valve \in Int
  BY WateringAssumption DEF Evaluate, WateringHolds, WateringInv, TypeOK, Valves
<1>2. \A v \in Valves : Level_of(v, time_point)' = Level_of(v, time_point)
  BY DEF Evaluate, Level_of, heapVars
<1>3. ASSUME NEW v \in Valves
      PROVE  (IF v >= next_valve + 1 THEN Level_of(v, time_point) ELSE valves_states'[v])
                = (IF v >= next_valve THEN Level_of(v, time_point) ELSE valves_states[v])
  <2>1. v \in Int
    BY DEF Valves
  <2>2. valves_states' = [valves_states EXCEPT ![next_valve] = Level_of(next_valve, time_point)]
    BY DEF Evaluate
  <2>3. valves_states \in [Valves -> Level]
    BY DEF WateringInv, TypeOK
  <2>4. CASE v = next_valve
    BY <1>1, <2>1, <2>2, <2>3, <2>4
  <2>5. CASE v # next_valve
    BY <1>1, <2>1, <2>2, <2>3, <2>5
  <2> QED BY <2>4, <2>5
<1>4. RoundLevels = [v \in Valves |-> IF v >= next_valve THEN Level_of(v, time_point)
                                                         ELSE valves_states[v]]
  BY <1>1 DEF RoundLevels
<1>5. RoundLevels' = [v \in Valves |-> IF v >= next_valve + 1 THEN Level_of(v, time_point)
                                                              ELSE valves_states'[v]]
  BY <1>1, <1>2 DEF RoundLevels
<1> QED BY <1>3, <1>4, <1>5

LEMMA GiveKeepsRound ==
    ASSUME WateringInv, WateringGive PROVE RoundLevels' = RoundLevels
<1>1. \A v \in Valves : ~(v >= next_valve)
  BY WateringAssumption DEF WateringGive, Valves
<1>2. ~WateringHolds' /\ valves_states' = valves_states
  BY DEF WateringGive, WateringHolds
<1> QED BY <1>1, <1>2 DEF RoundLevels

-----------------------------------------------------------------------------
(* Every step is one of the description's, or none at all.                 *)

(* Which steps of the watering task leave the whole description alone.     *)
LEMMA TaskStutters ==
    ASSUME WateringInv,
           InitValves \/ CreateMutex \/ Abort \/ WriteDirections \/ Evaluate \/ WateringGive
    PROVE  UNCHANGED Promise!avars
<1>1. UNCHANGED <<now, time_point, gpio, rpc, message, pos>>
  BY DEF InitValves, CreateMutex, Abort, WriteDirections, SetDirection, BusError,
         Evaluate, WateringGive, recvVars, taskVars, chipVars
<1>2. PromisedConfig' = PromisedConfig
  <2>1. CASE InitValves
    <3>1. ~ReceiverHolds /\ ~ReceiverHolds'
      BY <1>1, <2>1 DEF InitValves, ReceiverHolds, RPc, WateringInv, StartInv
    <3>2. valves' = [v \in Valves |-> Defaults]
      BY <2>1 DEF InitValves
    <3>3. valves' # NULL
      BY <2>1, InitValvesInv DEF InitValves, WateringInv, StartInv
    <3>4. SubSeq(<<>>, 1, 0) = <<>>
      OBVIOUS
    <3>5. InstalledConfig' = [v \in Valves |-> [active_state |-> 1, mode |-> off,
                                                schedules |-> <<>>]]
      BY <3>2, <3>3, <3>4 DEF InstalledConfig, Defaults
    <3>6. valves = NULL
      BY <2>1 DEF InitValves, WateringInv, StartInv
    <3>7. InstalledConfig = InstalledConfig'
      BY <3>5, <3>6 DEF InstalledConfig
    <3> QED BY <3>1, <3>7 DEF PromisedConfig
  <2>2. CASE ~InitValves
    <3>1. UNCHANGED valves
      BY <2>2 DEF CreateMutex, Abort, WriteDirections, Evaluate, WateringGive, heapVars
    <3> QED BY <1>1, <3>1, PromiseKept
  <2> QED BY <2>1, <2>2
<1>3. RoundLevels' = RoundLevels
  <2>1. CASE Evaluate
    BY <2>1, EvaluateKeepsRound
  <2>2. CASE WateringGive
    BY <2>2, GiveKeepsRound
  <2>3. CASE InitValves \/ CreateMutex \/ Abort \/ WriteDirections
    <3>1. UNCHANGED valves_states /\ ~WateringHolds /\ ~WateringHolds'
      BY <2>3 DEF InitValves, CreateMutex, Abort, WriteDirections, taskVars, WateringHolds
    <3> QED BY <3>1, RoundKept
  <2> QED BY <2>1, <2>2, <2>3
<1> QED BY <1>1, <1>2, <1>3 DEF Promise!avars

LEMMA PromiseStep ==
    ASSUME WateringInv, WateringInv', MessageInv, [Next]_vars
    PROVE  [Promise!ANext]_(Promise!avars)
<1>1. CASE InitValves \/ CreateMutex \/ Abort \/ WriteDirections \/ Evaluate \/ WateringGive
  BY <1>1, TaskStutters
<1>2. CASE Wake
  <2>1. UNCHANGED <<valves, rpc, message, pos, valves_states, now, gpio>>
        /\ time_point' = Instants[now] /\ ~WateringHolds /\ ~WateringHolds'
    BY <1>2 DEF Wake, heapVars, recvVars, chipVars, WateringHolds
  <2> QED BY <2>1, PromiseKept, RoundKept DEF Promise!ANext, Promise!LookAtClock
<1>3. CASE WateringTake
  BY <1>3, TakeDecides DEF Promise!ANext
<1>4. CASE WritePorts
  <2>1. UNCHANGED <<valves, rpc, message, pos, valves_states, now, time_point>>
        /\ ~WateringHolds /\ ~WateringHolds'
    BY <1>4 DEF WritePorts, heapVars, recvVars, WateringHolds
  <2>2. PromisedConfig' = PromisedConfig /\ RoundLevels' = RoundLevels
    BY <2>1, PromiseKept, RoundKept
  <2>3. PICK p \in Ports : WritePort(p)
    BY <1>4 DEF WritePorts, Ports
  <2>4. CASE BusError
    BY <2>1, <2>2, <2>4 DEF BusError, Promise!avars
  <2>5. CASE gpio' = [v \in Valves |-> IF PortOf(v) = p THEN valves_states[v] ELSE gpio[v]]
    <3> DEFINE port == {v \in Valves : PortOf(v) = p}
    <3>1. \A v \in Valves : RoundLevels[v] = valves_states[v]
      BY <2>1 DEF RoundLevels
    <3>2. gpio' = [v \in Promise!Lines |-> IF v \in port THEN RoundLevels[v] ELSE gpio[v]]
      BY <2>5, <3>1 DEF Promise!Lines, Valves
    <3>3. port \in {{v \in Valves : PortOf(v) = q} : q \in Ports}
      OBVIOUS
    <3> QED BY <2>1, <2>2, <3>2, <3>3 DEF Promise!ANext, Promise!Drive
  <2> QED BY <2>3, <2>4, <2>5 DEF WritePort
<1>5. CASE Receive \/ ReceiveNoValves
  <2>1. UNCHANGED <<valves, valves_states, wpc, next_valve, time_point, now, gpio>>
        /\ ~ReceiverHolds /\ ~ReceiverHolds'
    BY <1>5 DEF Receive, ReceiveNoValves, MessageArrives, heapVars, taskVars, chipVars,
                ReceiverHolds, RPc
  <2>2. PromisedConfig' = PromisedConfig
    BY <2>1 DEF PromisedConfig, InstalledConfig
  <2> QED BY <2>1, <2>2, RoundKept DEF Promise!avars
<1>6. CASE ReceiverTake
  BY <1>6, TakeConfigures DEF Promise!ANext
<1>7. CASE Receiver /\ ~ReceiverTake
  <2>1. PromisedConfig' = PromisedConfig
    BY <1>7, PromiseReceiver, GiveKeepsPromise
  <2>2. UNCHANGED <<valves_states, wpc, next_valve, time_point, now, gpio>> /\ ReceiverHolds
    BY <1>7 DEF Receiver, SkipItem, SetLevelAndMode, StageSchedules, GrowBlock, SetCount,
                CopySchedules, ReceiverGive, taskVars, chipVars, ReceiverHolds, RPc
  <2>3. ~WateringHolds /\ ~WateringHolds'
    BY <2>2 DEF WateringInv, LockInv, WateringHolds
  <2> QED BY <2>1, <2>2, <2>3, RoundKept DEF Promise!avars
<1>8. CASE Tick
  <2>1. UNCHANGED <<valves, rpc, message, pos, valves_states, wpc, next_valve, time_point, gpio>>
        /\ now' = (now % Len(Instants)) + 1
    BY <1>8 DEF Tick, heapVars, taskVars, recvVars, chipVars
  <2> QED BY <2>1, PromiseKept, RoundKept DEF Promise!ANext, Promise!MinutePasses
<1>9. CASE UNCHANGED vars
  <2>1. UNCHANGED <<valves, rpc, message, pos, valves_states, wpc, next_valve, time_point, now, gpio>>
    BY <1>9 DEF vars, heapVars, taskVars, recvVars, chipVars
  <2> QED BY <2>1, PromiseKept, RoundKept DEF Promise!avars
<1> QED BY <1>1, <1>2, <1>3, <1>4, <1>5, <1>6, <1>7, <1>8, <1>9 DEF Next, WateringTask

LEMMA PromiseInit == Init => Promise!AInit
<1> SUFFICES ASSUME Init PROVE Promise!AInit
  OBVIOUS
<1>1. ~ReceiverHolds /\ ~WateringHolds /\ valves = NULL
  BY DEF Init, ReceiverHolds, RPc, WateringHolds
<1>2. PromisedConfig = Promise!DefaultConfig
  BY <1>1 DEF PromisedConfig, InstalledConfig, Promise!DefaultConfig, Promise!Lines, Valves,
              off, Promise!off
<1>3. RoundLevels = [v \in Promise!Lines |-> 0]
  BY <1>1 DEF RoundLevels, Init, Promise!Lines, Valves
<1> QED BY <1>2, <1>3 DEF Init, Promise!AInit, Promise!Lines, Valves

(* The tasks, the mutex, the heap and the bus do what Irrigation promises: *)
(* whatever arrives and whenever the minutes pass, a message takes effect  *)
(* as a whole where the receiver takes the mutex, a round is decided at    *)
(* one moment, and a port only ever gets levels of the latest round.       *)
THEOREM RefinementTheorem == Spec => ImplementsIrrigation
<1>1. Spec => [][Promise!ANext]_(Promise!avars)
  BY PromiseStep, WateringInvariant, MessageInvariant, PTL DEF Spec
<1> QED BY <1>1, PromiseInit DEF Spec, ImplementsIrrigation, Promise!ASpec
=============================================================================
