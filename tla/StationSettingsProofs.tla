------------------------- MODULE StationSettingsProofs -------------------------
(***************************************************************************)
(* The settings of a station, for any clients, pins, values and times and  *)
(* any number of saves.                                                    *)
(***************************************************************************)
EXTENDS StationSettings, SequenceTheorems, FiniteSetTheorems,
        NaturalsInduction, TLAPS

-----------------------------------------------------------------------------
(* The inductive invariant *)

(* A key names one schedule of a list.                                     *)
KeysUnique(items) ==
    \A s, t \in items : s.id = t.id /\ s.id # NoKey => s = t

(* A client has its form while it edits it and while it is being saved.    *)
Holds(c) == pc[c] = "form" \/ call[c] = "save"

(* What a call has loaded are rows of the station, each once.              *)
RowsInv(c) ==
    LET rows == context[c].rows IN
    /\ pc[c] # "find schedules" => rows = <<>> /\ context[c].loaded = 0
    /\ context[c].loaded <= Len(rows)
    /\ \A i \in DOMAIN rows : /\ rows[i].id \in DOMAIN valves
                              /\ rows[i].pin = valves[rows[i].id].pin
                              /\ KeysUnique(rows[i].schedules)
    /\ \A i, j \in DOMAIN rows : rows[i].id = rows[j].id => i = j

(* The form shows every pin, in order, and once if the station has no pin  *)
(* twice; a schedule with a key is about a pin that has a row.             *)
FormInv(c) ==
    Holds(c) =>
        /\ {form[c].valves[n].pin : n \in DOMAIN form[c].valves} = Pins
        /\ \A m, n \in DOMAIN form[c].valves : m < n =>
              \/ Item(c, m).pin < Item(c, n).pin
              \/ Item(c, m).pin = Item(c, n).pin /\ ~OneValvePerPin
        /\ \A n \in DOMAIN form[c].valves : KeysUnique(Item(c, n).schedules)
        /\ \A n \in DOMAIN form[c].valves : \A s \in Item(c, n).schedules :
              s.id # NoKey =>
                 \E v \in DOMAIN valves : valves[v].pin = Item(c, n).pin

(* Without a newer save of another client, the keys of the form are those  *)
(* of stored schedules of the same pin, and what has been loaded is what   *)
(* is stored.                                                              *)
FreshInv(c) ==
    ~stale[c] /\ OneValvePerPin =>
        /\ Holds(c) =>
              \A n \in DOMAIN form[c].valves : \A s \in Item(c, n).schedules :
                 s.id # NoKey =>
                    /\ s.id \in DOMAIN schedules
                    /\ valves[schedules[s.id].valve].pin = Item(c, n).pin
        /\ \A i \in 1 .. context[c].loaded :
              context[c].rows[i].schedules = SchedulesOf(context[c].rows[i].id)

SettingsInv == TypeOK /\ \A c \in Clients : RowsInv(c) /\ FormInv(c) /\ FreshInv(c)

-----------------------------------------------------------------------------
(* Sequences and finite sets of the operators of the model *)

LEMMA SeqOfFunction ==
    ASSUME NEW S, NEW n \in Nat, NEW f \in [1 .. n -> S]
    PROVE  f \in Seq(S) /\ Len(f) = n
<1>1. f \in Seq(S)
  BY SeqDef
<1> QED BY <1>1, LenProperties

LEMMA Joined ==
    ASSUME NEW S, NEW s \in Seq(S), NEW t \in Seq(S)
    PROVE  /\ s \o t \in Seq(S) /\ Len(s \o t) = Len(s) + Len(t)
           /\ \A i \in 1 .. Len(s) + Len(t) :
                 (s \o t)[i] = IF i <= Len(s) THEN s[i] ELSE t[i - Len(s)]
BY ConcatProperties

LEMMA FiniteIndices ==
    ASSUME NEW n \in Nat, NEW S \in SUBSET (1 .. n)
    PROVE  IsFiniteSet(S)
<1>1. IsFiniteSet(1 .. n)
  BY FS_Interval
<1> QED BY <1>1, FS_Subset

LEMMA CountTo ==
    ASSUME NEW n \in Nat
    PROVE  IsFiniteSet(1 .. n) /\ Cardinality(1 .. n) = n
<1>1. (IF 1 > n THEN 0 ELSE n - 1 + 1) = n
  OBVIOUS
<1> QED BY <1>1, FS_Interval

LEMMA Fewer ==
    ASSUME NEW S, IsFiniteSet(S), NEW T \in SUBSET S
    PROVE  /\ Cardinality(S) \in Nat /\ Cardinality(T) \in Nat
           /\ Cardinality(T) <= Cardinality(S)
           /\ T # S => Cardinality(T) < Cardinality(S)
           /\ T # {} => Cardinality(T) > 0
<1>1. IsFiniteSet(T) /\ Cardinality(T) <= Cardinality(S)
      /\ (Cardinality(S) = Cardinality(T) => S = T)
  BY FS_Subset
<1>2. Cardinality(S) \in Nat /\ Cardinality(T) \in Nat
  BY <1>1, FS_CardinalityType
<1>3. T # {} => Cardinality(T) # 0
  BY <1>1, FS_EmptySet
<1> QED BY <1>1, <1>2, <1>3

LEMMA SetToSeqProps ==
    ASSUME NEW S, IsFiniteSet(S)
    PROVE  /\ SetToSeq(S) \in Seq(S)
           /\ Cardinality(S) \in Nat
           /\ Len(SetToSeq(S)) = Cardinality(S)
           /\ \A i, j \in DOMAIN SetToSeq(S) :
                 SetToSeq(S)[i] = SetToSeq(S)[j] => i = j
           /\ \A x \in S : \E i \in DOMAIN SetToSeq(S) : SetToSeq(S)[i] = x
<1>1. Cardinality(S) \in Nat /\ ExistsBijection(1 .. Cardinality(S), S)
  BY FS_CardinalityType
<1>2. \E f \in [1 .. Cardinality(S) -> S] : IsInjective(f)
  BY <1>1 DEF ExistsBijection, Bijection, Injection
<1>3. SetToSeq(S) \in [1 .. Cardinality(S) -> S] /\ IsInjective(SetToSeq(S))
  BY <1>2 DEF SetToSeq
<1>4. IsFiniteSet(1 .. Cardinality(S))
      /\ Cardinality(1 .. Cardinality(S)) = Cardinality(S)
  BY <1>1, FS_Interval
<1>5. SetToSeq(S) \in Injection(1 .. Cardinality(S), S)
  BY <1>3 DEF Injection
<1>6. SetToSeq(S) \in Surjection(1 .. Cardinality(S), S)
  BY <1>4, <1>5, FS_Injection
<1>7. SetToSeq(S) \in Seq(S) /\ Len(SetToSeq(S)) = Cardinality(S)
  BY <1>1, <1>3, SeqOfFunction
<1>8. \A x \in S : \E i \in 1 .. Cardinality(S) : SetToSeq(S)[i] = x
  BY <1>6 DEF Surjection
<1> QED BY <1>1, <1>3, <1>7, <1>8 DEF IsInjective

(* An injective function of a finite set into itself meets every element.  *)
LEMMA Permutes ==
    ASSUME NEW S, IsFiniteSet(S), NEW f \in [S -> S],
           \A x, y \in S : f[x] = f[y] => x = y
    PROVE  \A y \in S : \E x \in S : f[x] = y
<1>1. f \in Injection(S, S)
  BY DEF Injection, IsInjective
<1>2. f \in Surjection(S, S)
  BY <1>1, FS_Injection
<1> QED BY <1>2 DEF Surjection

Before == {pair \in Nat \X Nat : pair[1] < pair[2]}

LEMMA SmallestIndex ==
    ASSUME NEW S \in SUBSET Nat, S # {}
    PROVE  Min(S) \in S /\ \A k \in S : Min(S) <= k
<1>1. IsWellFoundedOn(Before, Nat)
  <2>1. Before = OpToRel(<, Nat)
    BY DEF Before, OpToRel
  <2> QED BY <2>1, NatLessThanWellFounded
<1>2. PICK m \in S : \A k \in S : <<k, m>> \notin Before
  BY <1>1, WFMin
<1>3. ASSUME NEW k \in S PROVE m <= k
  <2>1. m \in Nat /\ k \in Nat /\ <<k, m>> \in Nat \X Nat
        /\ <<k, m>>[1] = k /\ <<k, m>>[2] = m
    OBVIOUS
  <2>2. ~(k < m)
    BY <1>2, <2>1 DEF Before
  <2> QED BY <2>1, <2>2
<1> QED BY <1>3 DEF Min

LEMMA LargestIndex ==
    ASSUME NEW n \in Nat, NEW S \in SUBSET (1 .. n), S # {}
    PROVE  Max(S) \in S /\ \A k \in S : k <= Max(S)
<1> DEFINE Distances == {d \in Nat : n - d \in S}
<1>1. PICK x \in S : TRUE
  OBVIOUS
<1>2. n - x \in Distances
  BY n - (n - x) = x
<1>3. PICK d \in Distances : \A e \in Distances : d <= e
  BY <1>2, SmallestIndex
<1>4. ASSUME NEW k \in S PROVE n - d >= k
  <2>1. n - k \in Distances
    BY n - (n - k) = k
  <2> QED BY <1>3, <2>1
<1>5. n - d \in S
  OBVIOUS
<1> QED BY <1>4, <1>5 DEF Max

-----------------------------------------------------------------------------
(* The list of a form *)

LEMMA PinsTyped == Pins \subseteq Nat
BY SettingsAssumption DEF Pins

LEMMA ListTyped ==
    ASSUME NEW list \in Seq(ValveItem)
    PROVE  /\ Len(list) \in Nat /\ DOMAIN list = 1 .. Len(list)
           /\ \A i \in DOMAIN list :
                 /\ list[i] \in ValveItem
                 /\ list[i].pin \in Pins /\ list[i].pin \in Nat
                 /\ list[i].output \in Outputs
                 /\ list[i].schedules \in SUBSET ScheduleItem
<1>1. /\ Len(list) \in Nat /\ DOMAIN list = 1 .. Len(list)
      /\ \A i \in DOMAIN list : list[i] \in ValveItem
  BY LenProperties, ElementOfSeq
<1>2. ASSUME NEW item \in ValveItem
      PROVE  /\ item.pin \in Pins /\ item.pin \in Nat
             /\ item.output \in Outputs
             /\ item.schedules \in SUBSET ScheduleItem
  BY PinsTyped DEF ValveItem
<1> QED BY <1>1, <1>2

Sorted(list) ==
    \A i, j \in DOMAIN list : i < j => list[i].pin <= list[j].pin

(* Places number the elements of a list: SortedByPin permutes it.          *)
LEMMA PlacesNumber ==
    ASSUME NEW list \in Seq(ValveItem)
    PROVE  /\ \A i \in DOMAIN list : Place(list, i) \in DOMAIN list
           /\ \A i, j \in DOMAIN list :
                 \/ list[i].pin < list[j].pin
                 \/ list[i].pin = list[j].pin /\ i < j
                 => Place(list, i) < Place(list, j)
<1> DEFINE D == DOMAIN list
           UpTo(i) == {k \in D : \/ list[k].pin < list[i].pin
                                 \/ list[k].pin = list[i].pin /\ k <= i}
<1>1. D = 1 .. Len(list) /\ Len(list) \in Nat /\ \A i \in D : list[i].pin \in Nat
  BY ListTyped
<1>2. IsFiniteSet(D) /\ Cardinality(D) = Len(list)
  BY <1>1, FS_Interval
<1>3. ASSUME NEW i \in D PROVE UpTo(i) \in SUBSET D /\ i \in UpTo(i)
  BY <1>1
<1>4. ASSUME NEW i \in D PROVE Place(list, i) = Cardinality(UpTo(i))
  BY DEF Place
<1>5. ASSUME NEW i \in D PROVE Place(list, i) \in D
  <2>1. UpTo(i) \in SUBSET D /\ UpTo(i) # {}
    BY <1>3
  <2> HIDE DEF UpTo
  <2>2. /\ Cardinality(UpTo(i)) \in Nat /\ Cardinality(UpTo(i)) > 0
        /\ Cardinality(UpTo(i)) <= Len(list)
    BY <1>2, <2>1, Fewer
  <2> QED BY <1>1, <1>4, <2>2
<1>6. ASSUME NEW i \in D, NEW j \in D,
             \/ list[i].pin < list[j].pin
             \/ list[i].pin = list[j].pin /\ i < j
      PROVE  Place(list, i) < Place(list, j)
  <2>1. UpTo(i) \in SUBSET UpTo(j) /\ j \notin UpTo(i)
    BY <1>1, <1>6
  <2>2. j \in UpTo(j) /\ UpTo(j) \in SUBSET D
    BY <1>3
  <2>3. IsFiniteSet(UpTo(j))
    BY <1>2, <2>2, FS_Subset
  <2> HIDE DEF UpTo
  <2>4. Cardinality(UpTo(i)) < Cardinality(UpTo(j))
    BY <2>1, <2>2, <2>3, Fewer
  <2> QED BY <1>4, <2>4
<1> QED BY <1>5, <1>6

LEMMA SortedProps ==
    ASSUME NEW list \in Seq(ValveItem)
    PROVE  LET sorted == SortedByPin(list) IN
           /\ sorted \in Seq(ValveItem)
           /\ Len(sorted) = Len(list)
           /\ Sorted(sorted)
           /\ \A k \in DOMAIN sorted : \E i \in DOMAIN list : sorted[k] = list[i]
           /\ \A i \in DOMAIN list : \E k \in DOMAIN sorted : sorted[k] = list[i]
           /\ \A k, l \in DOMAIN sorted : k < l =>
                 \E i, j \in DOMAIN list :
                    i # j /\ sorted[k] = list[i] /\ sorted[l] = list[j]
<1> DEFINE D == DOMAIN list
           places == [i \in D |-> Place(list, i)]
           at(k) == CHOOSE i \in D : Place(list, i) = k
           sorted == SortedByPin(list)
<1>1. D = 1 .. Len(list) /\ Len(list) \in Nat
      /\ \A i \in D : list[i] \in ValveItem /\ list[i].pin \in Nat
  BY ListTyped
<1>2. \A i, j \in D : Place(list, i) = Place(list, j) => i = j
  BY <1>1, PlacesNumber
<1>3. \A k \in D : \E i \in D : Place(list, i) = k
  <2>1. IsFiniteSet(D)
    BY <1>1, FS_Interval
  <2>2. places \in [D -> D]
    BY PlacesNumber
  <2>3. \A i, j \in D : places[i] = places[j] => i = j
    BY <1>2
  <2>4. \A k \in D : \E i \in D : places[i] = k
    <3> HIDE DEF places, D
    <3> QED BY <2>1, <2>2, <2>3, Permutes
  <2> QED BY <2>4
<1>4. \A k \in D : at(k) \in D /\ Place(list, at(k)) = k
  BY <1>3
<1>5. sorted = [k \in D |-> list[at(k)]]
  BY DEF SortedByPin
<1> HIDE DEF at, sorted, places
<1>6. sorted \in Seq(ValveItem) /\ Len(sorted) = Len(list) /\ DOMAIN sorted = D
  BY <1>1, <1>4, <1>5, SeqOfFunction
<1>7. Sorted(sorted)
  <2> SUFFICES ASSUME NEW k \in D, NEW l \in D, k < l
               PROVE  list[at(k)].pin <= list[at(l)].pin
    BY <1>5, <1>6 DEF Sorted
  <2>1. CASE list[at(l)].pin < list[at(k)].pin
    <3>1. Place(list, at(l)) < Place(list, at(k))
      BY <1>4, <2>1, PlacesNumber
    <3> QED BY <1>1, <1>4, <3>1
  <2> QED BY <1>1, <1>4, <2>1
<1>8. \A i \in D : \E k \in D : sorted[k] = list[i]
  <2> TAKE i \in D
  <2>1. Place(list, i) \in D /\ at(Place(list, i)) = i
    BY <1>2, <1>4, PlacesNumber
  <2> QED BY <1>5, <2>1
<1>9. \A k, l \in D : k < l => at(k) # at(l)
  BY <1>1, <1>4
<1> QED BY <1>1, <1>4, <1>5, <1>6, <1>7, <1>8, <1>9 DEF sorted

-----------------------------------------------------------------------------
(* TypeOK, the rows and what the calls of the clients hold. *)

RowsTyped ==
    /\ station \in Names
    /\ valves \in Seq([pin : Pins, output : Outputs])
    /\ lastKey \in Nat
    /\ DOMAIN schedules \subseteq 1 .. lastKey
    /\ \A k \in DOMAIN schedules :
          schedules[k] \in [valve : DOMAIN valves, time : Times]

CallsTyped ==
    /\ pc \in [Clients -> {"away", "find valves", "find schedules", "form"}]
    /\ call \in [Clients -> {"get", "save"}]
    /\ form \in [Clients -> [station : Names, valves : Seq(ValveItem)]]
    /\ context \in [Clients -> [station : Names, rows : Seq(ValvesEntity),
                                loaded : Nat]]
    /\ stale \in [Clients -> BOOLEAN]
    /\ saves \in 0 .. MaxSaves

LEMMA TypeParts == TypeOK <=> RowsTyped /\ CallsTyped
BY DEF TypeOK, RowsTyped, CallsTyped

LEMMA TypePartsNext ==
    ASSUME RowsTyped', CallsTyped' PROVE TypeOK'
BY DEF TypeOK, RowsTyped, CallsTyped

LEMMA ValvesTyped ==
    ASSUME RowsTyped
    PROVE  /\ Len(valves) \in Nat /\ DOMAIN valves = 1 .. Len(valves)
           /\ \A v \in DOMAIN valves :
                 /\ valves[v].pin \in Pins /\ valves[v].output \in Outputs
                 /\ valves[v] = [pin |-> valves[v].pin,
                                 output |-> valves[v].output]
<1>1. /\ Len(valves) \in Nat /\ DOMAIN valves = 1 .. Len(valves)
      /\ \A v \in DOMAIN valves : valves[v] \in [pin : Pins, output : Outputs]
  BY LenProperties, ElementOfSeq DEF RowsTyped
<1> QED BY <1>1

LEMMA SchedulesTyped ==
    ASSUME RowsTyped, NEW k \in DOMAIN schedules
    PROVE  /\ k \in Keys /\ k <= lastKey /\ k \in Nat /\ k # NoKey
           /\ schedules[k].valve \in DOMAIN valves
           /\ schedules[k].time \in Times
           /\ schedules[k] \in [valve : DOMAIN valves, time : Times]
<1>1. k \in 1 .. lastKey /\ lastKey \in Nat
      /\ schedules[k] \in [valve : DOMAIN valves, time : Times]
  BY DEF RowsTyped
<1> QED BY <1>1 DEF Keys, NoKey

LEMMA EntitiesTyped ==
    ASSUME NEW rows \in Seq(ValvesEntity)
    PROVE  /\ Len(rows) \in Nat /\ DOMAIN rows = 1 .. Len(rows)
           /\ \A i \in DOMAIN rows :
                 /\ rows[i] \in ValvesEntity
                 /\ rows[i].id \in Keys
                 /\ rows[i].pin \in Pins /\ rows[i].pin \in Nat
                 /\ rows[i].output \in Outputs
                 /\ rows[i].schedules \in SUBSET ScheduleItem
<1>1. /\ Len(rows) \in Nat /\ DOMAIN rows = 1 .. Len(rows)
      /\ \A i \in DOMAIN rows : rows[i] \in ValvesEntity
  BY LenProperties, ElementOfSeq
<1>2. ASSUME NEW row \in ValvesEntity
      PROVE  /\ row.id \in Keys /\ row.pin \in Pins /\ row.pin \in Nat
             /\ row.output \in Outputs
             /\ row.schedules \in SUBSET ScheduleItem
  BY PinsTyped DEF ValvesEntity
<1> QED BY <1>1, <1>2

LEMMA ClientTyped ==
    ASSUME CallsTyped, NEW c \in Clients
    PROVE  /\ form[c].station \in Names /\ form[c].valves \in Seq(ValveItem)
           /\ form[c] = [station |-> form[c].station, valves |-> form[c].valves]
           /\ context[c].station \in Names
           /\ context[c].rows \in Seq(ValvesEntity)
           /\ context[c].loaded \in Nat
BY DEF CallsTyped

LEMMA NothingTyped ==
    /\ NoForm \in [station : Names, valves : Seq(ValveItem)]
    /\ \A name \in Names : [NoContext EXCEPT !.station = name]
          \in [station : Names, rows : Seq(ValvesEntity), loaded : Nat]
    /\ NoContext \in [station : Names, rows : Seq(ValvesEntity), loaded : Nat]
<1>1. <<>> \in Seq(ValveItem) /\ <<>> \in Seq(ValvesEntity)
  BY EmptySeq
<1> QED BY <1>1, SettingsAssumption DEF NoForm, NoContext

LEMMA SchedulesOfProps ==
    ASSUME RowsTyped, NEW valve
    PROVE  /\ SchedulesOf(valve) \in SUBSET ScheduleItem
           /\ \A s \in SchedulesOf(valve) :
                 /\ s.id \in DOMAIN schedules /\ s.id # NoKey
                 /\ schedules[s.id].valve = valve
                 /\ s = [id |-> s.id, time |-> schedules[s.id].time]
           /\ \A k \in DOMAIN schedules :
                 schedules[k].valve = valve => k \in KeysOf(SchedulesOf(valve))
           /\ KeysUnique(SchedulesOf(valve))
<1>1. ASSUME NEW s \in SchedulesOf(valve)
      PROVE  /\ s \in ScheduleItem
             /\ s.id \in DOMAIN schedules /\ s.id # NoKey
             /\ schedules[s.id].valve = valve
             /\ s = [id |-> s.id, time |-> schedules[s.id].time]
  <2>1. PICK k \in DOMAIN schedules : /\ schedules[k].valve = valve
                                      /\ s = [id |-> k, time |-> schedules[k].time]
    BY DEF SchedulesOf
  <2>2. s.id = k /\ s.time = schedules[k].time
    BY <2>1
  <2> QED BY <2>1, <2>2, SchedulesTyped DEF ScheduleItem
<1>2. ASSUME NEW k \in DOMAIN schedules, schedules[k].valve = valve
      PROVE  k \in KeysOf(SchedulesOf(valve))
  <2>1. [id |-> k, time |-> schedules[k].time] \in SchedulesOf(valve)
    BY <1>2 DEF SchedulesOf
  <2> QED BY <2>1 DEF KeysOf
<1> QED BY <1>1, <1>2 DEF KeysUnique

LEMMA OrderProps ==
    ASSUME RowsTyped, NEW order \in SetToSeqs(DOMAIN valves)
    PROVE  /\ order \in Seq(DOMAIN valves)
           /\ Len(order) = Len(valves) /\ DOMAIN order = DOMAIN valves
           /\ \A i, j \in DOMAIN order : order[i] = order[j] => i = j
<1>1. Len(valves) \in Nat /\ DOMAIN valves = 1 .. Len(valves)
  BY ValvesTyped
<1>2. Cardinality(DOMAIN valves) = Len(valves)
  BY <1>1, CountTo
<1>3. /\ order \in [1 .. Len(valves) -> DOMAIN valves]
      /\ \A i, j \in 1 .. Len(valves) : i # j => order[i] # order[j]
  BY <1>2 DEF SetToSeqs
<1> QED BY <1>1, <1>3, SeqOfFunction

(* The list of a form has every pin, and a pin twice only if there are two *)
(* entities of it. A default has no schedules.                             *)
LEMMA ListedProps ==
    ASSUME NEW rows \in Seq(ValvesEntity)
    PROVE  LET list == Listed(rows) IN
           /\ list \in Seq(ValveItem)
           /\ {list[n].pin : n \in DOMAIN list} = Pins
           /\ \A n \in DOMAIN list :
                 \/ list[n].schedules = {}
                 \/ \E i \in DOMAIN rows : /\ list[n].pin = rows[i].pin
                                           /\ list[n].schedules = rows[i].schedules
           /\ \A m, n \in DOMAIN list :
                 m # n /\ list[m].pin = list[n].pin =>
                    \E i, j \in DOMAIN rows : i # j /\ rows[i].pin = rows[j].pin
<1> DEFINE missing == SetToSeq(Missing(rows))
           stored_ == [i \in DOMAIN rows |-> toValves(rows[i])]
           defaults == [i \in DOMAIN missing |-> defaultValvesForWWW(missing[i])]
           list == Listed(rows)
<1> USE SettingsAssumption
<1>1. IsFiniteSet(Missing(rows)) /\ Missing(rows) \subseteq Pins
  BY FiniteIndices DEF Missing, Pins
<1>2. /\ missing \in Seq(Pins) /\ Len(missing) \in Nat
      /\ DOMAIN missing = 1 .. Len(missing)
      /\ \A a \in DOMAIN missing : missing[a] \in Missing(rows)
      /\ \A a, b \in DOMAIN missing : missing[a] = missing[b] => a = b
      /\ \A pin \in Missing(rows) : \E a \in DOMAIN missing : missing[a] = pin
  <2>1. missing \in Seq(Missing(rows))
    BY <1>1, SetToSeqProps
  <2>2. missing \in Seq(Pins)
    BY <1>1, <2>1, SeqMonotonic
  <2>3. \A a \in DOMAIN missing : missing[a] \in Missing(rows)
    BY <2>1, LenProperties, ElementOfSeq
  <2> QED BY <1>1, <2>1, <2>2, <2>3, SetToSeqProps, LenProperties
<1>3. /\ Len(rows) \in Nat /\ DOMAIN rows = 1 .. Len(rows)
      /\ \A i \in DOMAIN rows : rows[i].pin \in Pins
  BY EntitiesTyped
<1>4. stored_ \in Seq(ValveItem) /\ Len(stored_) = Len(rows)
  <2>1. stored_ \in [1 .. Len(rows) -> ValveItem]
    BY <1>3, EntitiesTyped DEF toValves, ValveItem
  <2> HIDE DEF stored_
  <2> QED BY <1>3, <2>1, SeqOfFunction
<1>5. defaults \in Seq(ValveItem) /\ Len(defaults) = Len(missing)
  <2>1. \A a \in DOMAIN missing : missing[a] \in Pins
    BY <1>1, <1>2
  <2>2. defaults \in [1 .. Len(missing) -> ValveItem]
    BY <1>2, <2>1 DEF defaultValvesForWWW, ValveItem
  <2> HIDE DEF defaults, missing
  <2> QED BY <1>2, <2>2, SeqOfFunction
<1>6. list = stored_ \o defaults
  BY DEF Listed
<1>7. /\ list \in Seq(ValveItem) /\ Len(list) = Len(rows) + Len(missing)
      /\ DOMAIN list = 1 .. Len(rows) + Len(missing)
      /\ \A n \in 1 .. Len(rows) + Len(missing) :
            list[n] = IF n <= Len(rows) THEN stored_[n] ELSE defaults[n - Len(rows)]
  <2> HIDE DEF stored_, defaults, missing, list
  <2>1. /\ list \in Seq(ValveItem) /\ Len(list) = Len(rows) + Len(missing)
        /\ \A n \in 1 .. Len(rows) + Len(missing) :
              list[n] = IF n <= Len(rows) THEN stored_[n]
                                         ELSE defaults[n - Len(rows)]
    <3>1. /\ list \in Seq(ValveItem)
          /\ Len(list) = Len(stored_) + Len(defaults)
          /\ \A n \in 1 .. Len(stored_) + Len(defaults) :
                list[n] = IF n <= Len(stored_) THEN stored_[n]
                                              ELSE defaults[n - Len(stored_)]
      BY <1>4, <1>5, <1>6, ConcatProperties
    <3> QED BY <1>4, <1>5, <3>1
  <2> QED BY <2>1, ListTyped
<1>8. \A n \in DOMAIN rows : /\ n \in DOMAIN list
                             /\ list[n].pin = rows[n].pin
                             /\ list[n].schedules = rows[n].schedules
  <2> TAKE n \in DOMAIN rows
  <2>1. n \in 1 .. Len(rows) + Len(missing) /\ n <= Len(rows)
    BY <1>2, <1>3
  <2>2. list[n] = stored_[n]
    BY <1>7, <2>1
  <2>3. stored_[n] = toValves(rows[n])
    OBVIOUS
  <2> QED BY <1>7, <2>1, <2>2, <2>3 DEF toValves
<1>9. \A a \in DOMAIN missing : /\ Len(rows) + a \in DOMAIN list
                                /\ list[Len(rows) + a].pin = missing[a]
                                /\ list[Len(rows) + a].schedules = {}
  <2> TAKE a \in DOMAIN missing
  <2>1. /\ Len(rows) + a \in 1 .. Len(rows) + Len(missing)
        /\ ~(Len(rows) + a <= Len(rows)) /\ (Len(rows) + a) - Len(rows) = a
    BY <1>2, <1>3
  <2>2. list[Len(rows) + a] = defaults[a]
    BY <1>7, <2>1
  <2>3. defaults[a] = defaultValvesForWWW(missing[a])
    OBVIOUS
  <2> QED BY <1>7, <2>1, <2>2, <2>3 DEF defaultValvesForWWW
<1>10. \A n \in DOMAIN list : \/ n \in DOMAIN rows
                              \/ \E a \in DOMAIN missing : n = Len(rows) + a
  <2> SUFFICES ASSUME NEW n \in DOMAIN list, n \notin DOMAIN rows
               PROVE  \E a \in DOMAIN missing : n = Len(rows) + a
    OBVIOUS
  <2>1. n - Len(rows) \in DOMAIN missing /\ n = Len(rows) + (n - Len(rows))
    BY <1>2, <1>3, <1>7
  <2> QED BY <2>1
<1> HIDE DEF list, missing, stored_, defaults
<1>11. {list[n].pin : n \in DOMAIN list} = Pins
  <2>1. ASSUME NEW n \in DOMAIN list PROVE list[n].pin \in Pins
    BY <1>7, ListTyped
  <2>2. ASSUME NEW pin \in Pins PROVE \E n \in DOMAIN list : list[n].pin = pin
    <3>1. CASE pin \in Missing(rows)
      BY <1>2, <1>9, <3>1
    <3>2. CASE pin \notin Missing(rows)
      BY <1>8, <3>2 DEF Missing
    <3> QED BY <3>1, <3>2
  <2> QED BY <2>1, <2>2
<1>12. ASSUME NEW m \in DOMAIN list, NEW n \in DOMAIN list,
              m # n, list[m].pin = list[n].pin
       PROVE  m \in DOMAIN rows /\ n \in DOMAIN rows
  <2>1. ASSUME NEW i \in DOMAIN rows, NEW a \in DOMAIN missing
        PROVE  rows[i].pin # missing[a]
    BY <1>2, <2>1 DEF Missing
  <2> QED BY <1>2, <1>8, <1>9, <1>10, <1>12, <2>1
<1>13. \A n \in DOMAIN list :
          \/ list[n].schedules = {}
          \/ \E i \in DOMAIN rows : /\ list[n].pin = rows[i].pin
                                    /\ list[n].schedules = rows[i].schedules
  BY <1>8, <1>9, <1>10
<1>14. \A m, n \in DOMAIN list :
          m # n /\ list[m].pin = list[n].pin =>
             \E i, j \in DOMAIN rows : i # j /\ rows[i].pin = rows[j].pin
  BY <1>8, <1>12
<1> QED BY <1>7, <1>11, <1>13, <1>14 DEF list

LEMMA ToValvesListProps ==
    ASSUME NEW rows \in Seq(ValvesEntity)
    PROVE  LET list == toValvesList(rows) IN
           /\ list \in Seq(ValveItem)
           /\ {list[n].pin : n \in DOMAIN list} = Pins
           /\ \A n \in DOMAIN list :
                 \/ list[n].schedules = {}
                 \/ \E i \in DOMAIN rows : /\ list[n].pin = rows[i].pin
                                           /\ list[n].schedules = rows[i].schedules
           /\ \A m, n \in DOMAIN list : m < n =>
                 \/ list[m].pin < list[n].pin
                 \/ /\ list[m].pin = list[n].pin
                    /\ \E i, j \in DOMAIN rows : i # j /\ rows[i].pin = rows[j].pin
<1> DEFINE listed == Listed(rows)
           list == SortedByPin(listed)
<1>1. /\ listed \in Seq(ValveItem)
      /\ {listed[n].pin : n \in DOMAIN listed} = Pins
      /\ \A n \in DOMAIN listed :
            \/ listed[n].schedules = {}
            \/ \E i \in DOMAIN rows : /\ listed[n].pin = rows[i].pin
                                      /\ listed[n].schedules = rows[i].schedules
      /\ \A m, n \in DOMAIN listed :
            m # n /\ listed[m].pin = listed[n].pin =>
               \E i, j \in DOMAIN rows : i # j /\ rows[i].pin = rows[j].pin
  BY ListedProps
<1> HIDE DEF listed
<1>2. /\ list \in Seq(ValveItem)
      /\ \A k, l \in DOMAIN list : k < l => list[k].pin <= list[l].pin
      /\ \A k \in DOMAIN list : \E i \in DOMAIN listed : list[k] = listed[i]
      /\ \A i \in DOMAIN listed : \E k \in DOMAIN list : list[k] = listed[i]
      /\ \A k, l \in DOMAIN list : k < l =>
            \E i, j \in DOMAIN listed :
               i # j /\ list[k] = listed[i] /\ list[l] = listed[j]
  <2>1. listed \in Seq(ValveItem)
    BY <1>1
  <2> QED BY <2>1, SortedProps DEF Sorted
<1> HIDE DEF list
<1>3. {list[n].pin : n \in DOMAIN list} = Pins
  <2>1. \A n \in DOMAIN list : \E i \in DOMAIN listed : list[n].pin = listed[i].pin
    BY <1>2
  <2>2. \A i \in DOMAIN listed : \E n \in DOMAIN list : list[n].pin = listed[i].pin
    BY <1>2
  <2> QED BY <1>1, <2>1, <2>2
<1>4. ASSUME NEW n \in DOMAIN list
      PROVE  \/ list[n].schedules = {}
             \/ \E i \in DOMAIN rows : /\ list[n].pin = rows[i].pin
                                       /\ list[n].schedules = rows[i].schedules
  <2>1. PICK k \in DOMAIN listed : list[n] = listed[k]
    BY <1>2
  <2> QED BY <1>1, <2>1
<1>5. ASSUME NEW m \in DOMAIN list, NEW n \in DOMAIN list, m < n
      PROVE  \/ list[m].pin < list[n].pin
             \/ /\ list[m].pin = list[n].pin
                /\ \E i, j \in DOMAIN rows : i # j /\ rows[i].pin = rows[j].pin
  <2>1. list[m].pin <= list[n].pin /\ list[m].pin \in Nat /\ list[n].pin \in Nat
    BY <1>2, <1>5, ListTyped
  <2>2. PICK k \in DOMAIN listed, l \in DOMAIN listed :
           k # l /\ list[m] = listed[k] /\ list[n] = listed[l]
    BY <1>2, <1>5
  <2>3. list[m].pin = list[n].pin =>
           \E i, j \in DOMAIN rows : i # j /\ rows[i].pin = rows[j].pin
    BY <1>1, <2>2
  <2> QED BY <2>1, <2>3
<1> QED BY <1>2, <1>3, <1>4, <1>5 DEF list, listed, toValvesList

(* A change keeps the pin of an item and makes up no key.                  *)
LEMMA EditedProps ==
    ASSUME NEW item \in ValveItem, KeysUnique(item.schedules),
           NEW edited \in Edited(item)
    PROVE  /\ edited \in ValveItem /\ edited.pin = item.pin
           /\ KeysUnique(edited.schedules)
           /\ \A s \in edited.schedules :
                 s.id # NoKey => \E t \in item.schedules : t.id = s.id
<1>1. /\ item.pin \in Pins /\ item.output \in Outputs
      /\ item.schedules \in SUBSET ScheduleItem
      /\ item = [pin |-> item.pin, output |-> item.output,
                 schedules |-> item.schedules]
  BY DEF ValveItem
<1>2. CASE \E o \in Outputs : edited = [item EXCEPT !.output = o]
  BY <1>1, <1>2 DEF ValveItem
<1>3. ASSUME NEW schedules_ \in SUBSET ScheduleItem,
             edited = [item EXCEPT !.schedules = schedules_]
      PROVE  /\ edited \in ValveItem /\ edited.pin = item.pin
             /\ edited.schedules = schedules_
  BY <1>1, <1>3 DEF ValveItem
<1>4. CASE \E t \in Times : edited =
              [item EXCEPT !.schedules = @ \cup {[id |-> NoKey, time |-> t]}]
  <2>1. PICK t \in Times : edited =
              [item EXCEPT !.schedules = @ \cup {[id |-> NoKey, time |-> t]}]
    BY <1>4
  <2> DEFINE new == item.schedules \cup {[id |-> NoKey, time |-> t]}
  <2>2. edited = [item EXCEPT !.schedules = new]
    BY <2>1
  <2>3. new \in SUBSET ScheduleItem
    BY <1>1 DEF ScheduleItem, NoKey
  <2>4. /\ edited \in ValveItem /\ edited.pin = item.pin
        /\ edited.schedules = new
    BY <1>3, <2>2, <2>3
  <2> QED BY <2>4 DEF KeysUnique
<1>5. CASE \E s \in item.schedules :
              edited = [item EXCEPT !.schedules = @ \ {s}]
  <2>1. PICK s \in item.schedules :
           edited = [item EXCEPT !.schedules = @ \ {s}]
    BY <1>5
  <2> DEFINE new == item.schedules \ {s}
  <2>2. edited = [item EXCEPT !.schedules = new] /\ new \in SUBSET ScheduleItem
    BY <1>1, <2>1
  <2>3. /\ edited \in ValveItem /\ edited.pin = item.pin
        /\ edited.schedules = new
    BY <1>3, <2>2
  <2> QED BY <2>3 DEF KeysUnique
<1>6. CASE \E s \in item.schedules, t \in Times : edited =
              [item EXCEPT !.schedules = (@ \ {s}) \cup {[s EXCEPT !.time = t]}]
  <2>1. PICK s \in item.schedules, t \in Times : edited =
              [item EXCEPT !.schedules = (@ \ {s}) \cup {[s EXCEPT !.time = t]}]
    BY <1>6
  <2> DEFINE new == (item.schedules \ {s}) \cup {[s EXCEPT !.time = t]}
  <2>2. edited = [item EXCEPT !.schedules = new]
    BY <2>1
  <2>3. /\ [s EXCEPT !.time = t] \in ScheduleItem
        /\ [s EXCEPT !.time = t].id = s.id
    BY <1>1 DEF ScheduleItem
  <2>4. new \in SUBSET ScheduleItem
    BY <1>1, <2>3
  <2>5. /\ edited \in ValveItem /\ edited.pin = item.pin
        /\ edited.schedules = new
    BY <1>3, <2>2, <2>4
  <2> QED BY <2>3, <2>5 DEF KeysUnique
<1> QED BY <1>1, <1>2, <1>4, <1>5, <1>6 DEF Edited

LEMMA RequestProps ==
    ASSUME NEW f \in [station : Names, valves : Seq(ValveItem)],
           \A n \in DOMAIN f.valves : KeysUnique(f.valves[n].schedules),
           NEW request \in Requests(f)
    PROVE  /\ request \in [station : Names, valves : Seq(ValveItem)]
           /\ DOMAIN request.valves = DOMAIN f.valves
           /\ \A n \in DOMAIN f.valves :
                 /\ request.valves[n].pin = f.valves[n].pin
                 /\ KeysUnique(request.valves[n].schedules)
                 /\ \A s \in request.valves[n].schedules : s.id # NoKey =>
                       \E t \in f.valves[n].schedules : t.id = s.id
<1>1. f.station \in Names /\ f.valves \in Seq(ValveItem)
  OBVIOUS
<1>2. CASE \E name \in Names : request = [f EXCEPT !.station = name]
  BY <1>2
<1>3. CASE \E i \in DOMAIN f.valves : \E item \in Edited(f.valves[i]) :
              request = [f EXCEPT !.valves[i] = item]
  <2>6. PICK i \in DOMAIN f.valves : \E item \in Edited(f.valves[i]) :
           request = [f EXCEPT !.valves[i] = item]
    BY <1>3
  <2>1. PICK item \in Edited(f.valves[i]) :
           request = [f EXCEPT !.valves[i] = item]
    BY <2>6
  <2>2. f.valves[i] \in ValveItem /\ DOMAIN f.valves = 1 .. Len(f.valves)
    BY <1>1, ListTyped
  <2>3. /\ item \in ValveItem /\ item.pin = f.valves[i].pin
        /\ KeysUnique(item.schedules)
        /\ \A s \in item.schedules :
              s.id # NoKey => \E t \in f.valves[i].schedules : t.id = s.id
    BY <2>2, EditedProps
  <2>4. /\ request.station = f.station
        /\ request.valves = [f.valves EXCEPT ![i] = item]
        /\ request = [station |-> request.station, valves |-> request.valves]
    BY <2>1
  <2>5. /\ request.valves \in Seq(ValveItem)
        /\ DOMAIN request.valves = DOMAIN f.valves
        /\ \A n \in DOMAIN f.valves :
              request.valves[n] = IF n = i THEN item ELSE f.valves[n]
    BY <1>1, <2>2, <2>3, <2>4, ExceptSeq
  <2> QED BY <1>1, <2>3, <2>4, <2>5
<1> QED BY <1>2, <1>3 DEF Requests

-----------------------------------------------------------------------------
(* The steps that write nothing *)

ClientInv(c) == RowsInv(c) /\ FormInv(c) /\ FreshInv(c)

LEMMA StepOfOne ==
    ASSUME SettingsInv, NEW c \in Clients, UNCHANGED stored, CallsTyped',
           ClientInv(c)',
           \A d \in Clients \ {c} : /\ pc'[d] = pc[d] /\ call'[d] = call[d]
                                    /\ form'[d] = form[d]
                                    /\ context'[d] = context[d]
                                    /\ stale'[d] = stale[d]
    PROVE  SettingsInv'
<1>1. RowsTyped'
  BY TypeParts DEF SettingsInv, RowsTyped, stored
<1>2. ASSUME NEW d \in Clients \ {c} PROVE ClientInv(d)'
  <2>1. RowsInv(d) /\ FormInv(d) /\ FreshInv(d)
    BY DEF SettingsInv
  <2>2. RowsInv(d)'
    BY <2>1 DEF RowsInv, stored
  <2>3. OneValvePerPin' <=> OneValvePerPin
    BY DEF OneValvePerPin, OneRow, stored
  <2>4. Holds(d)' <=> Holds(d)
    BY DEF Holds
  <2>5. FormInv(d)'
    BY <2>1, <2>3, <2>4 DEF FormInv, Item, stored
  <2>6. FreshInv(d)'
    BY <2>1, <2>3, <2>4 DEF FreshInv, Item, SchedulesOf, stored
  <2> QED BY <2>2, <2>5, <2>6 DEF ClientInv
<1>3. \A d \in Clients : ClientInv(d)'
  BY <1>2
<1> QED BY <1>1, <1>3, TypePartsNext DEF SettingsInv, ClientInv

LEMMA Nothing ==
    Len(<<>>) = 0 /\ DOMAIN <<>> = {} /\ 0 <= 0 /\ \A i \in 1 .. 0 : FALSE
OBVIOUS

(* Before and after a call nothing is loaded.                              *)
LEMMA NothingLoaded ==
    ASSUME NEW c, pc'[c] # "find schedules",
           context'[c].rows = <<>>, context'[c].loaded = 0
    PROVE  /\ RowsInv(c)'
           /\ \A i \in 1 .. context'[c].loaded : FALSE
BY Nothing DEF RowsInv

LEMMA InvOfClient ==
    ASSUME SettingsInv, NEW c \in Clients
    PROVE  /\ RowsTyped /\ CallsTyped
           /\ RowsInv(c) /\ FormInv(c) /\ FreshInv(c)
BY TypeParts DEF SettingsInv

LEMMA GetStep ==
    ASSUME SettingsInv, NEW c \in Clients, Get(c)
    PROVE  SettingsInv'
<1>1. RowsTyped /\ CallsTyped
  BY InvOfClient
<1>2. /\ pc'[c] = "find valves" /\ call'[c] = "get"
      /\ context'[c].rows = <<>> /\ context'[c].loaded = 0
  BY <1>1 DEF Get, getStationById, NoContext, CallsTyped
<1>3. CallsTyped'
  BY <1>1, NothingTyped DEF Get, getStationById, CallsTyped, RowsTyped
<1>4. ClientInv(c)'
  BY <1>2, NothingLoaded DEF ClientInv, FormInv, FreshInv, Holds
<1>5. UNCHANGED stored
  BY DEF Get
<1> QED BY <1>1, <1>3, <1>4, <1>5, StepOfOne DEF Get, getStationById, CallsTyped

LEMMA SaveStep ==
    ASSUME SettingsInv, NEW c \in Clients, Save(c)
    PROVE  SettingsInv'
<1>1. RowsTyped /\ CallsTyped /\ FormInv(c) /\ FreshInv(c)
  BY InvOfClient
<1>2. PICK request \in Requests(form[c]) : form' = [form EXCEPT ![c] = request]
  BY DEF Save
<1>3. /\ form[c] \in [station : Names, valves : Seq(ValveItem)]
      /\ form'[c] = request
  BY <1>1, <1>2 DEF CallsTyped
<1>4. Holds(c) /\ pc[c] = "form"
  BY DEF Save, Holds
<1>5. /\ request \in [station : Names, valves : Seq(ValveItem)]
      /\ DOMAIN request.valves = DOMAIN form[c].valves
      /\ \A n \in DOMAIN form[c].valves :
            /\ request.valves[n].pin = form[c].valves[n].pin
            /\ KeysUnique(request.valves[n].schedules)
            /\ \A s \in request.valves[n].schedules : s.id # NoKey =>
                  \E t \in form[c].valves[n].schedules : t.id = s.id
  BY <1>1, <1>3, <1>4, RequestProps DEF FormInv, Item
<1>6. /\ pc'[c] = "find valves" /\ stale' = stale
      /\ context'[c].rows = <<>> /\ context'[c].loaded = 0
  BY <1>1 DEF Save, getStationById, NoContext, CallsTyped
<1>7. CallsTyped'
  <2>1. saves' \in 0 .. MaxSaves
    <3>1. saves < MaxSaves /\ saves' = saves + 1
      BY DEF Save
    <3>2. saves \in 0 .. MaxSaves
      BY <1>1 DEF CallsTyped
    <3> QED BY <3>1, <3>2, SettingsAssumption
  <2> QED BY <1>1, <1>2, <1>5, <2>1, NothingTyped
          DEF Save, getStationById, CallsTyped, RowsTyped
<1>8. UNCHANGED stored
  BY DEF Save
<1>9. OneValvePerPin' <=> OneValvePerPin
  BY <1>8 DEF OneValvePerPin, OneRow, stored
<1>10. RowsInv(c)'
  BY <1>6, NothingLoaded
<1>11. FormInv(c)'
  <2>1. {request.valves[n].pin : n \in DOMAIN request.valves} = Pins
    BY <1>1, <1>4, <1>5 DEF FormInv, Item
  <2>2. ASSUME NEW n \in DOMAIN request.valves,
               NEW s \in request.valves[n].schedules, s.id # NoKey
        PROVE  \E v \in DOMAIN valves : valves[v].pin = request.valves[n].pin
    <3>1. PICK t \in form[c].valves[n].schedules : t.id = s.id
      BY <1>5, <2>2
    <3> QED BY <1>1, <1>4, <1>5, <2>2, <3>1 DEF FormInv, Item
  <2> QED BY <1>1, <1>3, <1>4, <1>5, <1>8, <1>9, <2>1, <2>2
          DEF FormInv, Item, stored
<1>12. FreshInv(c)'
  <2> SUFFICES ASSUME ~stale[c], OneValvePerPin,
                      NEW n \in DOMAIN request.valves,
                      NEW s \in request.valves[n].schedules, s.id # NoKey
               PROVE  /\ s.id \in DOMAIN schedules
                      /\ valves[schedules[s.id].valve].pin = request.valves[n].pin
    BY <1>3, <1>6, <1>8, <1>9, NothingLoaded DEF FreshInv, Item, stored
  <2>1. PICK t \in form[c].valves[n].schedules : t.id = s.id
    BY <1>5
  <2> QED BY <1>1, <1>4, <1>5, <2>1 DEF FreshInv, Item
<1>13. ClientInv(c)'
  BY <1>10, <1>11, <1>12 DEF ClientInv
<1> QED BY <1>1, <1>2, <1>7, <1>8, <1>13, StepOfOne
        DEF Save, getStationById, CallsTyped

LEMMA ContextChanged ==
    ASSUME CallsTyped, NEW c \in Clients,
           NEW rows \in Seq(ValvesEntity), NEW loaded \in Nat,
           context' = [context EXCEPT ![c].loaded = loaded, ![c].rows = rows]
    PROVE  /\ context'[c].rows = rows /\ context'[c].loaded = loaded
           /\ \A d \in Clients \ {c} : context'[d] = context[d]
           /\ context' \in [Clients -> [station : Names, rows : Seq(ValvesEntity),
                                        loaded : Nat]]
BY DEF CallsTyped

LEMMA FindValvesStep ==
    ASSUME SettingsInv, NEW c \in Clients, findAllByStationId(c)
    PROVE  SettingsInv'
<1>1. /\ RowsTyped /\ CallsTyped
      /\ RowsInv(c) /\ FormInv(c) /\ FreshInv(c)
  BY InvOfClient
<1>2. PICK order \in SetToSeqs(DOMAIN valves) : context' =
         [context EXCEPT ![c].rows =
            [i \in DOMAIN order |->
                [id |-> order[i], pin |-> valves[order[i]].pin,
                 output |-> valves[order[i]].output, schedules |-> {}]]]
  BY DEF findAllByStationId
<1> DEFINE rows == [i \in DOMAIN order |->
                       [id |-> order[i], pin |-> valves[order[i]].pin,
                        output |-> valves[order[i]].output, schedules |-> {}]]
<1>3. /\ Len(order) \in Nat /\ DOMAIN order = 1 .. Len(order)
      /\ \A i \in DOMAIN order : order[i] \in DOMAIN valves
      /\ \A i, j \in DOMAIN order : order[i] = order[j] => i = j
  BY <1>1, OrderProps, LenProperties, ElementOfSeq
<1>4. \A v \in DOMAIN valves : v \in Keys /\ valves[v].pin \in Pins
                               /\ valves[v].output \in Outputs
  BY <1>1, ValvesTyped DEF Keys, NoKey
<1>5. rows \in Seq(ValvesEntity) /\ Len(rows) = Len(order)
  <2>1. rows \in [1 .. Len(order) -> ValvesEntity]
    BY <1>3, <1>4 DEF ValvesEntity
  <2> HIDE DEF rows
  <2> QED BY <1>3, <2>1, SeqOfFunction
<1>6. /\ context'[c].rows = rows /\ context'[c].loaded = 0
      /\ \A d \in Clients \ {c} : context'[d] = context[d]
      /\ context' \in [Clients -> [station : Names, rows : Seq(ValvesEntity),
                                   loaded : Nat]]
  <2>1. context' = [context EXCEPT ![c].rows = rows]
    BY <1>2
  <2>2. context[c].loaded = 0
    BY <1>1 DEF findAllByStationId, RowsInv
  <2> HIDE DEF rows
  <2> QED BY <1>1, <1>5, <2>1, <2>2 DEF CallsTyped
<1>7. CallsTyped'
  BY <1>1, <1>6 DEF findAllByStationId, CallsTyped
<1>8. UNCHANGED stored
  BY DEF findAllByStationId
<1>9. pc'[c] = "find schedules" /\ pc[c] = "find valves"
  BY <1>1 DEF findAllByStationId, CallsTyped
<1>10. RowsInv(c)'
  <2>1. \A i \in DOMAIN rows :
           /\ rows[i].id = order[i] /\ rows[i].pin = valves[order[i]].pin
           /\ KeysUnique(rows[i].schedules)
    BY DEF KeysUnique
  <2>2. 0 <= Len(rows) /\ DOMAIN rows = DOMAIN order
    BY <1>3, <1>5
  <2> HIDE DEF rows
  <2> SUFFICES /\ 0 <= Len(rows)
               /\ \A i \in DOMAIN rows : /\ rows[i].id \in DOMAIN valves
                                         /\ rows[i].pin = valves[rows[i].id].pin
                                         /\ KeysUnique(rows[i].schedules)
               /\ \A i, j \in DOMAIN rows : rows[i].id = rows[j].id => i = j
    BY <1>6, <1>8, <1>9 DEF RowsInv, stored
  <2> QED BY <1>3, <2>1, <2>2
<1>11. FormInv(c)' /\ FreshInv(c)'
  <2>1. OneValvePerPin' <=> OneValvePerPin
    BY <1>8 DEF OneValvePerPin, OneRow, stored
  <2>2. Holds(c)' <=> Holds(c)
    BY <1>9 DEF findAllByStationId, Holds
  <2>3. form'[c] = form[c] /\ stale' = stale
    BY DEF findAllByStationId
  <2>4. FormInv(c)'
    BY <1>1, <1>8, <2>1, <2>2, <2>3 DEF FormInv, Item, stored
  <2>5. FreshInv(c)'
    BY <1>1, <1>6, <1>8, <2>1, <2>2, <2>3 DEF FreshInv, Item, stored
  <2> QED BY <2>4, <2>5
<1>12. ClientInv(c)'
  BY <1>10, <1>11 DEF ClientInv
<1> QED BY <1>1, <1>6, <1>7, <1>8, <1>12, StepOfOne
        DEF findAllByStationId, CallsTyped

LEMMA FindSchedulesStep ==
    ASSUME SettingsInv, NEW c \in Clients, FindSchedules(c)
    PROVE  SettingsInv'
<1>1. /\ RowsTyped /\ CallsTyped
      /\ RowsInv(c) /\ FormInv(c) /\ FreshInv(c)
  BY InvOfClient
<1> DEFINE rows == context[c].rows
           i == context[c].loaded + 1
           found == SchedulesOf(rows[i].id)
<1>2. /\ rows \in Seq(ValvesEntity) /\ Len(rows) \in Nat
      /\ DOMAIN rows = 1 .. Len(rows)
      /\ \A j \in DOMAIN rows : rows[j] \in ValvesEntity
  BY <1>1, ClientTyped, EntitiesTyped
<1>3. i \in 1 .. Len(rows) /\ context[c].loaded \in Nat
  <2>1. pc[c] = "find schedules" /\ ~Loaded(c)
    BY DEF FindSchedules
  <2>2. context[c].loaded # Len(rows)
    BY <2>1 DEF Loaded
  <2>3. context[c].loaded <= Len(rows) /\ context[c].loaded \in Nat
    BY <1>1, ClientTyped DEF RowsInv
  <2> QED BY <1>2, <2>2, <2>3
<1>4. /\ found \in SUBSET ScheduleItem /\ KeysUnique(found)
  BY <1>1, SchedulesOfProps
<1>5. context' = [context EXCEPT ![c].loaded = i, ![c].rows[i].schedules = found]
  BY DEF FindSchedules
<1> DEFINE new == [rows EXCEPT ![i].schedules = found]
<1>6. /\ new = [rows EXCEPT ![i] = [rows[i] EXCEPT !.schedules = found]]
      /\ [rows[i] EXCEPT !.schedules = found] \in ValvesEntity
  BY <1>2, <1>3, <1>4 DEF ValvesEntity
<1>7. /\ new \in Seq(ValvesEntity) /\ Len(new) = Len(rows)
      /\ \A j \in DOMAIN rows : new[j] = IF j = i THEN [rows[i] EXCEPT !.schedules = found] ELSE rows[j]
  BY <1>2, <1>3, <1>6, ExceptSeq
<1>8. /\ context'[c].rows = new /\ context'[c].loaded = i
      /\ \A d \in Clients \ {c} : context'[d] = context[d]
      /\ context' \in [Clients -> [station : Names, rows : Seq(ValvesEntity),
                                   loaded : Nat]]
  <2>1. context' = [context EXCEPT ![c].loaded = i, ![c].rows = new]
    BY <1>1, <1>5 DEF CallsTyped
  <2>2. i \in Nat
    BY <1>3
  <2> HIDE DEF new, i
  <2> QED BY <1>1, <1>7, <2>1, <2>2, ContextChanged
<1>9. CallsTyped'
  BY <1>1, <1>8 DEF FindSchedules, CallsTyped
<1>10. UNCHANGED stored
  BY DEF FindSchedules
<1>11. pc' = pc /\ call' = call /\ form' = form /\ stale' = stale
       /\ pc[c] = "find schedules"
  BY DEF FindSchedules
<1>12. /\ Len(new) \in Nat /\ DOMAIN new = DOMAIN rows
       /\ \A j \in DOMAIN rows :
             /\ new[j].id = rows[j].id /\ new[j].pin = rows[j].pin
             /\ new[j].schedules = IF j = i THEN found ELSE rows[j].schedules
  <2>1. [rows[i] EXCEPT !.schedules = found].id = rows[i].id
        /\ [rows[i] EXCEPT !.schedules = found].pin = rows[i].pin
        /\ [rows[i] EXCEPT !.schedules = found].schedules = found
    BY <1>2, <1>3 DEF ValvesEntity
  <2> HIDE DEF new, found, rows
  <2> QED BY <1>2, <1>3, <1>7, <2>1, EntitiesTyped
<1> HIDE DEF new, found
<1>13. RowsInv(c)'
  <2> SUFFICES /\ i <= Len(new)
               /\ \A j \in DOMAIN new : /\ new[j].id \in DOMAIN valves
                                        /\ new[j].pin = valves[new[j].id].pin
                                        /\ KeysUnique(new[j].schedules)
               /\ \A j, k \in DOMAIN new : new[j].id = new[k].id => j = k
    BY <1>8, <1>10, <1>11 DEF RowsInv, stored
  <2>1. i <= Len(new)
    BY <1>2, <1>3, <1>7
  <2>2. \A j \in DOMAIN rows : /\ rows[j].id \in DOMAIN valves
                               /\ rows[j].pin = valves[rows[j].id].pin
                               /\ KeysUnique(rows[j].schedules)
    BY <1>1 DEF RowsInv
  <2>3. \A j, k \in DOMAIN rows : rows[j].id = rows[k].id => j = k
    BY <1>1 DEF RowsInv
  <2> HIDE DEF i, rows
  <2> QED BY <1>4, <1>12, <2>1, <2>2, <2>3
<1>14. FormInv(c)' /\ FreshInv(c)'
  <2>1. OneValvePerPin' <=> OneValvePerPin
    BY <1>10 DEF OneValvePerPin, OneRow, stored
  <2>2. Holds(c)' <=> Holds(c)
    BY <1>11 DEF Holds
  <2>3. FormInv(c)'
    BY <1>1, <1>10, <1>11, <2>1, <2>2 DEF FormInv, Item, stored
  <2>4. ASSUME ~stale[c], OneValvePerPin, NEW j \in 1 .. i
        PROVE  new[j].schedules = SchedulesOf(new[j].id)
    <3>1. j \in DOMAIN rows /\ (j # i => j \in 1 .. context[c].loaded)
      BY <1>2, <1>3
    <3>2. j # i => rows[j].schedules = SchedulesOf(rows[j].id)
      BY <1>1, <2>4, <3>1 DEF FreshInv
    <3> QED BY <1>12, <3>1, <3>2 DEF found
  <2>5. \A valve : SchedulesOf(valve)' = SchedulesOf(valve)
    BY <1>10 DEF SchedulesOf, stored
  <2>6. FreshInv(c)'
    BY <1>1, <1>8, <1>10, <1>11, <2>1, <2>2, <2>4, <2>5
       DEF FreshInv, Item, stored
  <2> QED BY <2>3, <2>6
<1>15. ClientInv(c)'
  BY <1>13, <1>14 DEF ClientInv
<1> QED BY <1>1, <1>8, <1>9, <1>10, <1>11, <1>15, StepOfOne

LEMMA AnswerGetStep ==
    ASSUME SettingsInv, NEW c \in Clients, AnswerGet(c)
    PROVE  SettingsInv'
<1>1. /\ RowsTyped /\ CallsTyped
      /\ RowsInv(c) /\ FormInv(c) /\ FreshInv(c)
  BY InvOfClient
<1> DEFINE rows == context[c].rows
           list == toValvesList(rows)
<1>2. /\ rows \in Seq(ValvesEntity) /\ DOMAIN rows = 1 .. Len(rows)
      /\ context[c].loaded = Len(rows) /\ context[c].station \in Names
  BY <1>1, ClientTyped, EntitiesTyped DEF AnswerGet, Loaded
<1>3. /\ list \in Seq(ValveItem)
      /\ {list[n].pin : n \in DOMAIN list} = Pins
      /\ \A n \in DOMAIN list :
            \/ list[n].schedules = {}
            \/ \E i \in DOMAIN rows : /\ list[n].pin = rows[i].pin
                                      /\ list[n].schedules = rows[i].schedules
      /\ \A m, n \in DOMAIN list : m < n =>
            \/ list[m].pin < list[n].pin
            \/ /\ list[m].pin = list[n].pin
               /\ \E i, j \in DOMAIN rows : i # j /\ rows[i].pin = rows[j].pin
  BY <1>2, ToValvesListProps
<1>4. form' = [form EXCEPT ![c] = [station |-> context[c].station, valves |-> list]]
  BY DEF AnswerGet
<1> HIDE DEF list
<1>5. form'[c].valves = list
  BY <1>1, <1>4 DEF CallsTyped
<1>6. UNCHANGED stored /\ stale' = stale
  BY DEF AnswerGet
<1>7. /\ pc'[c] = "form"
      /\ context'[c].rows = <<>> /\ context'[c].loaded = 0
  BY <1>1 DEF AnswerGet, NoContext, CallsTyped
<1>8. CallsTyped'
  <2>1. /\ pc' = [pc EXCEPT ![c] = "form"]
        /\ context' = [context EXCEPT ![c] = NoContext]
        /\ UNCHANGED <<call, stale, saves>>
    BY DEF AnswerGet
  <2>2. [station |-> context[c].station, valves |-> list]
           \in [station : Names, valves : Seq(ValveItem)]
    BY <1>2, <1>3
  <2> QED BY <1>1, <1>4, <2>1, <2>2, NothingTyped DEF CallsTyped
<1>9. OneValvePerPin' <=> OneValvePerPin
  BY <1>6 DEF OneValvePerPin, OneRow, stored
<1>10. RowsInv(c)'
  BY <1>7, NothingLoaded
<1>11. FormInv(c)'
  <2>1. ASSUME NEW i \in DOMAIN rows, NEW j \in DOMAIN rows,
               i # j, rows[i].pin = rows[j].pin
        PROVE  ~OneValvePerPin
    <3>1. /\ rows[i].id \in DOMAIN valves /\ rows[j].id \in DOMAIN valves
          /\ rows[i].id # rows[j].id /\ rows[i].pin \in Pins
          /\ valves[rows[i].id].pin = rows[i].pin
          /\ valves[rows[j].id].pin = rows[i].pin
      BY <1>1, <1>2, <2>1, EntitiesTyped DEF RowsInv
    <3> QED BY <3>1 DEF OneValvePerPin, OneRow
  <2>2. \A n \in DOMAIN list : KeysUnique(list[n].schedules)
    <3>1. KeysUnique({})
      BY DEF KeysUnique
    <3> QED BY <1>1, <1>3, <3>1 DEF RowsInv
  <2>3. \A m, n \in DOMAIN list : m < n =>
           \/ list[m].pin < list[n].pin
           \/ list[m].pin = list[n].pin /\ ~OneValvePerPin
    BY <1>3, <2>1
  <2>4. ASSUME NEW n \in DOMAIN list, NEW s \in list[n].schedules
        PROVE  \E v \in DOMAIN valves : valves[v].pin = list[n].pin
    <3>1. PICK i \in DOMAIN rows : list[n].pin = rows[i].pin
      BY <1>3
    <3> QED BY <1>1, <3>1 DEF RowsInv
  <2> QED BY <1>3, <1>5, <1>6, <1>9, <2>2, <2>3, <2>4 DEF FormInv, Item, stored
<1>12. FreshInv(c)'
  <2> SUFFICES ASSUME ~stale[c], OneValvePerPin, NEW n \in DOMAIN list,
                      NEW s \in list[n].schedules
               PROVE  /\ s.id \in DOMAIN schedules
                      /\ valves[schedules[s.id].valve].pin = list[n].pin
    BY <1>5, <1>6, <1>7, <1>9, NothingLoaded DEF FreshInv, Item, stored
  <2>1. PICK i \in DOMAIN rows : /\ list[n].pin = rows[i].pin
                                 /\ list[n].schedules = rows[i].schedules
    BY <1>3
  <2>2. /\ s \in SchedulesOf(rows[i].id)
        /\ valves[rows[i].id].pin = rows[i].pin
    BY <1>1, <1>2, <2>1 DEF FreshInv, RowsInv
  <2> QED BY <1>1, <2>1, <2>2, SchedulesOfProps
<1>13. ClientInv(c)'
  BY <1>10, <1>11, <1>12 DEF ClientInv
<1> QED BY <1>1, <1>4, <1>6, <1>8, <1>13, StepOfOne DEF AnswerGet, CallsTyped

LEMMA RollbackStep ==
    ASSUME SettingsInv, NEW c \in Clients, Rollback(c)
    PROVE  SettingsInv'
<1>1. /\ RowsTyped /\ CallsTyped
      /\ RowsInv(c) /\ FormInv(c) /\ FreshInv(c)
  BY InvOfClient
<1>2. UNCHANGED stored /\ stale' = stale /\ form' = form /\ call' = call
      /\ call[c] = "save"
  BY DEF Rollback, EndOfSave
<1>3. /\ pc'[c] = "form"
      /\ context'[c].rows = <<>> /\ context'[c].loaded = 0
  BY <1>1 DEF Rollback, EndOfSave, NoContext, CallsTyped
<1>4. CallsTyped'
  BY <1>1, NothingTyped DEF Rollback, EndOfSave, CallsTyped
<1>5. OneValvePerPin' <=> OneValvePerPin
  BY <1>2 DEF OneValvePerPin, OneRow, stored
<1>6. Holds(c)
  BY <1>2 DEF Holds
<1>7. RowsInv(c)'
  BY <1>3, NothingLoaded
<1>8. FormInv(c)'
  BY <1>1, <1>2, <1>5, <1>6 DEF FormInv, Item, stored
<1>9. FreshInv(c)'
  BY <1>1, <1>2, <1>3, <1>5, <1>6, NothingLoaded DEF FreshInv, Item, stored
<1>10. ClientInv(c)'
  BY <1>7, <1>8, <1>9 DEF ClientInv
<1> QED BY <1>1, <1>2, <1>4, <1>10, StepOfOne
        DEF Rollback, EndOfSave, CallsTyped

-----------------------------------------------------------------------------
(* What a save makes of what it has loaded *)

LEMMA EntityProps ==
    ASSUME CallsTyped, NEW c \in Clients, NEW n \in Known(c)
    PROVE  /\ n \in DOMAIN form[c].valves
           /\ Entity(c, n) \in DOMAIN context[c].rows
           /\ context[c].rows[Entity(c, n)].pin = Item(c, n).pin
<1>1. n \in DOMAIN form[c].valves /\ Matching(c, n) # {}
  BY DEF Known
<1>2. DOMAIN context[c].rows = 1 .. Len(context[c].rows)
  BY ClientTyped, EntitiesTyped
<1>3. Matching(c, n) \in SUBSET Nat
  BY <1>2 DEF Matching
<1>4. Entity(c, n) \in Matching(c, n)
  BY <1>1, <1>3, SmallestIndex DEF Entity
<1> QED BY <1>1, <1>4 DEF Matching

LEMMA OldTyped ==
    ASSUME CallsTyped, NEW c \in Clients, NEW n \in Known(c)
    PROVE  /\ OldSchedules(c, n) \in SUBSET ScheduleItem
           /\ (\A m \in DOMAIN form[c].valves :
                 m < n => Item(c, m).pin # Item(c, n).pin)
              => OldSchedules(c, n) = context[c].rows[Entity(c, n)].schedules
<1> DEFINE earlier == {m \in 1 .. n - 1 : Item(c, m).pin = Item(c, n).pin}
<1>1. /\ n \in DOMAIN form[c].valves
      /\ Entity(c, n) \in DOMAIN context[c].rows
  BY EntityProps
<1>2. /\ DOMAIN form[c].valves = 1 .. Len(form[c].valves)
      /\ Len(form[c].valves) \in Nat
      /\ \A m \in DOMAIN form[c].valves :
            form[c].valves[m].schedules \in SUBSET ScheduleItem
      /\ context[c].rows[Entity(c, n)].schedules \in SUBSET ScheduleItem
  BY <1>1, ClientTyped, ListTyped, EntitiesTyped
<1>3. n \in Nat /\ earlier \in SUBSET (1 .. n) /\ n <= Len(form[c].valves)
  BY <1>1, <1>2
<1>4. OldSchedules(c, n) = IF earlier = {}
                           THEN context[c].rows[Entity(c, n)].schedules
                           ELSE Item(c, Max(earlier)).schedules
  BY DEF OldSchedules
<1>5. earlier # {} => Max(earlier) \in earlier
  <2> HIDE DEF earlier
  <2> QED BY <1>3, LargestIndex
<1>6. \A m \in earlier : m \in DOMAIN form[c].valves /\ m < n
  BY <1>2, <1>3
<1>7. earlier # {} => Item(c, Max(earlier)).schedules \in SUBSET ScheduleItem
  BY <1>2, <1>5, <1>6 DEF Item
<1>8. (\A m \in DOMAIN form[c].valves :
         m < n => Item(c, m).pin # Item(c, n).pin) => earlier = {}
  BY <1>6
<1> HIDE DEF earlier
<1> QED BY <1>2, <1>4, <1>7, <1>8

LEMMA UpdatedProps ==
    ASSUME CallsTyped, NEW c \in Clients, NEW i \in DOMAIN context[c].rows
    PROVE  /\ Updated(c, i) \in ValvesEntity
           /\ Updated(c, i).id = context[c].rows[i].id
           /\ Updated(c, i).pin = context[c].rows[i].pin
           /\ \/ /\ Updated(c, i) = context[c].rows[i]
                 /\ \A n \in Known(c) : Entity(c, n) # i
              \/ \E n \in Known(c) : /\ Entity(c, n) = i
                                     /\ Updated(c, i).output = Item(c, n).output
                                     /\ Updated(c, i).schedules
                                           = Item(c, n).schedules
<1> DEFINE items == {n \in Known(c) : Entity(c, n) = i}
           last == Item(c, Max(items))
           row == context[c].rows[i]
<1>1. /\ DOMAIN form[c].valves = 1 .. Len(form[c].valves)
      /\ Len(form[c].valves) \in Nat
      /\ \A n \in DOMAIN form[c].valves : Item(c, n) \in ValveItem
  BY ClientTyped, ListTyped DEF Item
<1>2. row \in ValvesEntity
  BY ClientTyped, EntitiesTyped
<1>3. items \in SUBSET (1 .. Len(form[c].valves))
  BY <1>1 DEF Known
<1>4. CASE items = {}
  BY <1>2, <1>4 DEF Updated
<1>5. CASE items # {}
  <2>1. Max(items) \in items
    <3> HIDE DEF items
    <3> QED BY <1>1, <1>3, <1>5, LargestIndex
  <2>2. last \in ValveItem
    BY <1>1, <1>3, <2>1
  <2>3. Updated(c, i) = [row EXCEPT !.output = last.output,
                                    !.schedules = last.schedules]
    BY <1>5 DEF Updated
  <2> HIDE DEF last, row
  <2>4. /\ Updated(c, i) \in ValvesEntity
        /\ Updated(c, i).id = row.id /\ Updated(c, i).pin = row.pin
        /\ Updated(c, i).output = last.output
        /\ Updated(c, i).schedules = last.schedules
    BY <1>2, <2>2, <2>3 DEF ValvesEntity, ValveItem
  <2>5. Max(items) \in Known(c) /\ Entity(c, Max(items)) = i
    BY <2>1
  <2> HIDE DEF items
  <2> QED BY <2>4, <2>5 DEF last, row
<1> QED BY <1>4, <1>5

LEMMA AddedProps ==
    ASSUME CallsTyped, NEW c \in Clients
    PROVE  /\ Len(Added(c)) \in Nat /\ DOMAIN Added(c) = 1 .. Len(Added(c))
           /\ Added(c) \in Seq(ValveItem)
           /\ \E new \in [DOMAIN Added(c) -> DOMAIN form[c].valves \ Known(c)] :
                 /\ \A a \in DOMAIN Added(c) :
                       /\ Added(c)[a].pin = Item(c, new[a]).pin
                       /\ Added(c)[a].output = Item(c, new[a]).output
                       /\ Added(c)[a].schedules
                             = toSchedulerEntityList(Item(c, new[a]).schedules)
                 /\ \A a, b \in DOMAIN Added(c) : new[a] = new[b] => a = b
                 /\ \A n \in DOMAIN form[c].valves \ Known(c) :
                       \E a \in DOMAIN Added(c) : new[a] = n
<1> DEFINE rest == DOMAIN form[c].valves \ Known(c)
           new == SetToSeq(rest)
           added(a) == [Item(c, new[a]) EXCEPT
                           !.schedules = toSchedulerEntityList(@)]
<1>1. /\ DOMAIN form[c].valves = 1 .. Len(form[c].valves)
      /\ Len(form[c].valves) \in Nat
      /\ \A n \in DOMAIN form[c].valves : Item(c, n) \in ValveItem
  BY ClientTyped, ListTyped DEF Item
<1>2. IsFiniteSet(rest)
  BY <1>1, FiniteIndices
<1>3. /\ new \in Seq(rest)
      /\ \A a, b \in DOMAIN new : new[a] = new[b] => a = b
      /\ \A n \in rest : \E a \in DOMAIN new : new[a] = n
  <2> HIDE DEF rest
  <2> QED BY <1>2, SetToSeqProps
<1>4. /\ Len(new) \in Nat /\ DOMAIN new = 1 .. Len(new)
      /\ new \in [1 .. Len(new) -> rest]
  <2> HIDE DEF rest, new
  <2> QED BY <1>3, LenProperties
<1>5. Added(c) = [a \in DOMAIN new |-> added(a)]
  BY DEF Added
<1>6. ASSUME NEW a \in DOMAIN new
      PROVE  /\ added(a) \in ValveItem
             /\ added(a).pin = Item(c, new[a]).pin
             /\ added(a).output = Item(c, new[a]).output
             /\ added(a).schedules
                   = toSchedulerEntityList(Item(c, new[a]).schedules)
  <2>1. Item(c, new[a]) \in ValveItem
    BY <1>1, <1>4
  <2>2. ASSUME NEW items \in SUBSET ScheduleItem
        PROVE  toSchedulerEntityList(items) \in SUBSET ScheduleItem
    BY DEF toSchedulerEntityList, ScheduleItem, NoKey
  <2> HIDE DEF new
  <2> QED BY <2>1, <2>2 DEF ValveItem
<1> HIDE DEF added, new, rest
<1>7. Added(c) \in Seq(ValveItem) /\ Len(Added(c)) = Len(new)
  BY <1>4, <1>5, <1>6, SeqOfFunction
<1>8. DOMAIN Added(c) = DOMAIN new
  BY <1>5
<1>9. new \in [DOMAIN Added(c) -> rest]
  BY <1>4, <1>8
<1> QED BY <1>3, <1>4, <1>5, <1>6, <1>7, <1>8, <1>9 DEF rest

(* At most as many new schedules as there are valves and times.            *)
LEMMA FiniteSchedules ==
    ASSUME NEW n \in Nat
    PROVE  IsFiniteSet([valve : 1 .. n, time : Times])
<1> DEFINE Pairs == (1 .. n) \X Times
           Rows == [valve : 1 .. n, time : Times]
           f == [p \in Pairs |-> [valve |-> p[1], time |-> p[2]]]
<1>1. IsFiniteSet(Pairs)
  BY CountTo, FS_Product, SettingsAssumption
<1>2. \A r \in Rows : \E p \in Pairs : f[p] = r
  <2> TAKE r \in Rows
  <2>1. r.valve \in 1 .. n /\ r.time \in Times
        /\ r = [valve |-> r.valve, time |-> r.time]
    OBVIOUS
  <2>2. <<r.valve, r.time>> \in Pairs /\ f[<<r.valve, r.time>>] = r
    BY <2>1
  <2> QED BY <2>2
<1>3. f \in [Pairs -> Rows]
  OBVIOUS
<1>4. f \in Surjection(Pairs, Rows)
  BY <1>2, <1>3 DEF Surjection
<1> HIDE DEF Pairs, Rows, f
<1>5. IsFiniteSet(Rows)
  BY <1>1, <1>4, FS_Surjection
<1> QED BY <1>5 DEF Rows

LEMMA NewSchedulesProps ==
    ASSUME RowsTyped, CallsTyped, NEW c \in Clients, RowsInv(c)
    PROVE  /\ AddedSchedules(c)
                 \in Seq([valve : 1 .. Len(valves) + Len(Added(c)), time : Times])
           /\ \A k \in DOMAIN AddedSchedules(c) :
                 AddedSchedules(c)[k] \in AllNewSchedules(c)
           /\ \A k, l \in DOMAIN AddedSchedules(c) :
                 AddedSchedules(c)[k] = AddedSchedules(c)[l] => k = l
           /\ \A r \in AllNewSchedules(c) :
                 \E k \in DOMAIN AddedSchedules(c) : AddedSchedules(c)[k] = r
<1> DEFINE Rows == [valve : 1 .. Len(valves) + Len(Added(c)), time : Times]
           New == AllNewSchedules(c)
           rows == context[c].rows
<1>1. Len(valves) \in Nat /\ DOMAIN valves = 1 .. Len(valves)
  BY ValvesTyped
<1>2. /\ Len(Added(c)) \in Nat /\ DOMAIN Added(c) = 1 .. Len(Added(c))
      /\ Added(c) \in Seq(ValveItem)
  BY AddedProps
<1>3. ASSUME NEW valve \in 1 .. Len(valves) + Len(Added(c)),
             NEW items \in SUBSET ScheduleItem
      PROVE  NewSchedules(valve, items) \subseteq Rows
  BY DEF NewSchedules, ScheduleItem
<1>4. ASSUME NEW i \in DOMAIN rows
      PROVE  NewSchedules(rows[i].id, Updated(c, i).schedules) \subseteq Rows
  <2>1. rows[i].id \in 1 .. Len(valves) + Len(Added(c))
    <3>1. rows[i].id \in 1 .. Len(valves)
      BY <1>1 DEF RowsInv
    <3> HIDE DEF rows
    <3> QED BY <1>1, <1>2, <3>1
  <2>2. Updated(c, i).schedules \in SUBSET ScheduleItem
    BY UpdatedProps DEF ValvesEntity
  <2> QED BY <1>3, <2>1, <2>2
<1>5. ASSUME NEW a \in DOMAIN Added(c)
      PROVE  NewSchedules(Len(valves) + a, Added(c)[a].schedules) \subseteq Rows
  <2>1. Len(valves) + a \in 1 .. Len(valves) + Len(Added(c))
    BY <1>1, <1>2
  <2>2. Added(c)[a].schedules \in SUBSET ScheduleItem
    BY <1>2, ListTyped
  <2> QED BY <1>3, <2>1, <2>2
<1>6. New \in SUBSET Rows
  <2> HIDE DEF Rows
  <2> QED BY <1>4, <1>5 DEF AllNewSchedules
<1>7. IsFiniteSet(New)
  <2>1. IsFiniteSet(Rows)
    BY <1>1, <1>2, FiniteSchedules
  <2> HIDE DEF Rows, New
  <2> QED BY <1>6, <2>1, FS_Subset
<1>8. /\ SetToSeq(New) \in Seq(New)
      /\ \A k, l \in DOMAIN SetToSeq(New) :
            SetToSeq(New)[k] = SetToSeq(New)[l] => k = l
      /\ \A r \in New : \E k \in DOMAIN SetToSeq(New) : SetToSeq(New)[k] = r
  BY <1>7, SetToSeqProps
<1>9. \A k \in DOMAIN SetToSeq(New) : SetToSeq(New)[k] \in New
  <2> HIDE DEF New
  <2> QED BY <1>8, LenProperties, ElementOfSeq
<1>10. SetToSeq(New) \in Seq(Rows)
  <2> HIDE DEF Rows, New
  <2> QED BY <1>6, <1>8, SeqMonotonic
<1>11. AddedSchedules(c) = SetToSeq(New)
  BY DEF AddedSchedules
<1> QED BY <1>8, <1>9, <1>10, <1>11

(* The rows of the valves after a save                                     *)
LEMMA WrittenValvesProps ==
    ASSUME RowsTyped, CallsTyped, NEW c \in Clients, Commit(c)
    PROVE  /\ valves' \in Seq([pin : Pins, output : Outputs])
           /\ Len(valves') = Len(valves) + Len(Added(c))
           /\ DOMAIN valves' = 1 .. Len(valves) + Len(Added(c))
           /\ \A v \in DOMAIN valves : /\ v \in DOMAIN valves'
                                       /\ valves'[v] = WrittenValve(c, v)
                                       /\ valves'[v].pin = valves[v].pin
           /\ \A a \in DOMAIN Added(c) :
                 /\ Len(valves) + a \in DOMAIN valves'
                 /\ valves'[Len(valves) + a]
                       = [pin |-> Added(c)[a].pin, output |-> Added(c)[a].output]
<1> DEFINE Rows == [pin : Pins, output : Outputs]
           written == [v \in DOMAIN valves |-> WrittenValve(c, v)]
<1>1. /\ Len(valves) \in Nat /\ DOMAIN valves = 1 .. Len(valves)
      /\ \A v \in DOMAIN valves : /\ valves[v].pin \in Pins
                                  /\ valves[v].output \in Outputs
                                  /\ valves[v] \in Rows
  BY ValvesTyped
<1>2. /\ Len(Added(c)) \in Nat /\ DOMAIN Added(c) = 1 .. Len(Added(c))
      /\ \A a \in DOMAIN Added(c) : /\ Added(c)[a].pin \in Pins
                                    /\ Added(c)[a].output \in Outputs
  BY AddedProps, ListTyped
<1>3. ASSUME NEW v \in DOMAIN valves
      PROVE  WrittenValve(c, v) \in Rows /\ WrittenValve(c, v).pin = valves[v].pin
  <2> DEFINE changed == {i \in DOMAIN context[c].rows :
                            /\ context[c].rows[i].id = v
                            /\ Updated(c, i).output # context[c].rows[i].output}
             i == CHOOSE j \in changed : TRUE
  <2>1. CASE changed = {}
    <3>1. WrittenValve(c, v) = valves[v]
      BY <2>1 DEF WrittenValve
    <3> QED BY <1>1, <3>1
  <2>2. CASE changed # {}
    <3>1. i \in DOMAIN context[c].rows
      BY <2>2
    <3>2. Updated(c, i).output \in Outputs
      <4> HIDE DEF i
      <4> QED BY <3>1, UpdatedProps DEF ValvesEntity
    <3>3. WrittenValve(c, v) = [valves[v] EXCEPT !.output = Updated(c, i).output]
      BY <2>2 DEF WrittenValve
    <3> HIDE DEF i
    <3> QED BY <1>1, <3>2, <3>3
  <2> QED BY <2>1, <2>2
<1>4. written \in Seq(Rows) /\ Len(written) = Len(valves)
  <2>1. written \in [1 .. Len(valves) -> Rows]
    BY <1>1, <1>3
  <2> HIDE DEF written, Rows
  <2> QED BY <1>1, <2>1, SeqOfFunction
<1>5. /\ AddedValves(c) \in Seq(Rows) /\ Len(AddedValves(c)) = Len(Added(c))
      /\ \A a \in DOMAIN Added(c) : AddedValves(c)[a]
            = [pin |-> Added(c)[a].pin, output |-> Added(c)[a].output]
  <2>1. AddedValves(c) \in [1 .. Len(Added(c)) -> Rows]
    BY <1>2 DEF AddedValves
  <2>2. AddedValves(c) \in Seq(Rows) /\ Len(AddedValves(c)) = Len(Added(c))
    <3> HIDE DEF Rows
    <3> QED BY <1>2, <2>1, SeqOfFunction
  <2> QED BY <2>2 DEF AddedValves
<1>6. valves' = written \o AddedValves(c)
  BY DEF Commit
<1> HIDE DEF written, Rows
<1>7. /\ valves' \in Seq(Rows) /\ Len(valves') = Len(valves) + Len(Added(c))
      /\ \A v \in 1 .. Len(valves) + Len(Added(c)) :
            valves'[v] = IF v <= Len(valves) THEN written[v]
                                             ELSE AddedValves(c)[v - Len(valves)]
  <2> HIDE DEF AddedValves
  <2>1. AddedValves(c) \in Seq(Rows)
    BY <1>5
  <2>2. /\ valves' \in Seq(Rows)
        /\ Len(valves') = Len(written) + Len(AddedValves(c))
        /\ \A v \in 1 .. Len(written) + Len(AddedValves(c)) :
              valves'[v] = IF v <= Len(written) THEN written[v]
                                ELSE AddedValves(c)[v - Len(written)]
    BY <1>4, <1>6, <2>1, Joined
  <2> QED BY <1>4, <1>5, <2>2
<1>8. DOMAIN valves' = 1 .. Len(valves) + Len(Added(c))
  BY <1>7, LenProperties
<1>9. \A v \in DOMAIN valves : /\ v \in DOMAIN valves'
                               /\ valves'[v] = WrittenValve(c, v)
                               /\ valves'[v].pin = valves[v].pin
  <2> TAKE v \in DOMAIN valves
  <2>1. v \in 1 .. Len(valves) + Len(Added(c)) /\ v <= Len(valves)
    BY <1>1, <1>2
  <2>2. written[v] = WrittenValve(c, v)
    BY DEF written
  <2> QED BY <1>3, <1>7, <1>8, <2>1, <2>2
<1>10. \A a \in DOMAIN Added(c) :
          /\ Len(valves) + a \in DOMAIN valves'
          /\ valves'[Len(valves) + a]
                = [pin |-> Added(c)[a].pin, output |-> Added(c)[a].output]
  <2> TAKE a \in DOMAIN Added(c)
  <2>1. /\ Len(valves) + a \in 1 .. Len(valves) + Len(Added(c))
        /\ ~(Len(valves) + a <= Len(valves)) /\ (Len(valves) + a) - Len(valves) = a
    BY <1>1, <1>2
  <2>2. valves'[Len(valves) + a] = AddedValves(c)[a]
    BY <1>7, <2>1
  <2> QED BY <1>5, <1>8, <2>1, <2>2
<1> QED BY <1>7, <1>8, <1>9, <1>10 DEF Rows

LEMMA DirtyProps ==
    ASSUME CallsTyped, NEW c \in Clients, NEW s \in Dirty(c)
    PROVE  /\ s \in ScheduleItem /\ s.id # NoKey /\ s.time \in Times
           /\ \E n \in Known(c) : s \in Item(c, n).schedules
<1>1. PICK i \in DOMAIN context[c].rows :
         /\ s \in Updated(c, i).schedules
         /\ s.id # NoKey /\ s \notin context[c].rows[i].schedules
  BY DEF Dirty
<1>2. PICK n \in Known(c) : Updated(c, i).schedules = Item(c, n).schedules
  BY <1>1, UpdatedProps
<1>3. Item(c, n).schedules \in SUBSET ScheduleItem
  BY EntityProps, ClientTyped, ListTyped DEF Item
<1> QED BY <1>1, <1>2, <1>3 DEF ScheduleItem

(* The rows of the schedules after a save                                  *)
LEMMA WrittenSchedulesProps ==
    ASSUME RowsTyped, CallsTyped, NEW c \in Clients, RowsInv(c), Commit(c)
    PROVE  /\ lastKey' = lastKey + Len(AddedSchedules(c))
           /\ Len(AddedSchedules(c)) \in Nat
           /\ DOMAIN schedules' = (DOMAIN schedules \ Deleted(c))
                 \cup {lastKey + i : i \in DOMAIN AddedSchedules(c)}
           /\ \A k \in DOMAIN schedules \ Deleted(c) :
                 /\ schedules'[k] \in [valve : DOMAIN valves, time : Times]
                 /\ schedules'[k].valve = schedules[k].valve
                 /\ \/ /\ schedules'[k] = schedules[k]
                       /\ \A s \in Dirty(c) : s.id # k
                    \/ \E s \in Dirty(c) : /\ s.id = k
                                           /\ schedules'[k].time = s.time
           /\ \A i \in DOMAIN AddedSchedules(c) :
                 /\ lastKey + i \notin DOMAIN schedules
                 /\ schedules'[lastKey + i] = AddedSchedules(c)[i]
           /\ RowsTyped'
<1> DEFINE added == AddedSchedules(c)
           kept == DOMAIN schedules \ Deleted(c)
           time(k) == IF k \in KeysOf(Dirty(c))
                      THEN (CHOOSE s \in Dirty(c) : s.id = k).time
                      ELSE schedules[k].time
<1>1. schedules' = [k \in kept \cup {lastKey + i : i \in DOMAIN added} |->
                       IF k \in kept THEN [schedules[k] EXCEPT !.time = time(k)]
                                     ELSE added[k - lastKey]]
  BY DEF Commit, WrittenSchedules
<1>2. lastKey' = lastKey + Len(added)
  BY DEF Commit
<1>3. /\ added \in Seq([valve : 1 .. Len(valves) + Len(Added(c)), time : Times])
      /\ Len(added) \in Nat /\ DOMAIN added = 1 .. Len(added)
      /\ \A i \in DOMAIN added :
            added[i] \in [valve : 1 .. Len(valves) + Len(Added(c)), time : Times]
  <2>1. added \in Seq([valve : 1 .. Len(valves) + Len(Added(c)), time : Times])
    BY NewSchedulesProps
  <2> HIDE DEF added
  <2> QED BY <2>1, LenProperties, ElementOfSeq
<1>4. lastKey \in Nat /\ DOMAIN schedules \subseteq 1 .. lastKey
  BY DEF RowsTyped
<1>5. ASSUME NEW k \in kept
      PROVE  \/ time(k) = schedules[k].time /\ \A s \in Dirty(c) : s.id # k
             \/ \E s \in Dirty(c) : s.id = k /\ time(k) = s.time
  <2>1. CASE k \in KeysOf(Dirty(c))
    <3>1. \E s \in Dirty(c) : s.id = k
      BY <2>1 DEF KeysOf
    <3> QED BY <2>1, <3>1
  <2>2. CASE k \notin KeysOf(Dirty(c))
    BY <2>2 DEF KeysOf
  <2> QED BY <2>1, <2>2
<1>6. ASSUME NEW k \in kept
      PROVE  /\ schedules[k] \in [valve : DOMAIN valves, time : Times]
             /\ time(k) \in Times
  <2>1. schedules[k].time \in Times
        /\ schedules[k] \in [valve : DOMAIN valves, time : Times]
    BY SchedulesTyped
  <2> HIDE DEF time
  <2> QED BY <1>5, <2>1, DirtyProps
<1> HIDE DEF added, time
<1>7. ASSUME NEW k \in kept
      PROVE  /\ schedules'[k] \in [valve : DOMAIN valves, time : Times]
             /\ schedules'[k] = [schedules[k] EXCEPT !.time = time(k)]
             /\ schedules'[k].valve = schedules[k].valve
             /\ schedules'[k].time = time(k)
             /\ time(k) = schedules[k].time => schedules'[k] = schedules[k]
  <2>1. schedules'[k] = [schedules[k] EXCEPT !.time = time(k)]
    BY <1>1
  <2> QED BY <1>6, <2>1
<1>8. ASSUME NEW i \in DOMAIN added
      PROVE  /\ lastKey + i \notin DOMAIN schedules
             /\ schedules'[lastKey + i] = added[i]
             /\ lastKey + i \in 1 .. lastKey'
  <2>1. ~(lastKey + i <= lastKey) /\ (lastKey + i) - lastKey = i
        /\ lastKey + i \in 1 .. lastKey + Len(added)
    BY <1>3, <1>4
  <2>2. lastKey + i \notin DOMAIN schedules
    BY <1>4, <2>1
  <2> QED BY <1>1, <1>2, <2>1, <2>2
<1>9. DOMAIN schedules' = kept \cup {lastKey + i : i \in DOMAIN added}
  BY <1>1
<1>10. RowsTyped'
  <2>1. station' \in Names
    BY ClientTyped DEF Commit, RowsTyped
  <2>2. /\ valves' \in Seq([pin : Pins, output : Outputs])
        /\ DOMAIN valves' = 1 .. Len(valves) + Len(Added(c))
        /\ \A v \in DOMAIN valves : v \in DOMAIN valves'
    BY WrittenValvesProps
  <2>3. lastKey' \in Nat /\ lastKey <= lastKey'
    BY <1>2, <1>3, <1>4
  <2>4. DOMAIN schedules' \subseteq 1 .. lastKey'
    BY <1>4, <1>8, <1>9, <2>3
  <2>5. \A k \in DOMAIN schedules' :
           schedules'[k] \in [valve : DOMAIN valves', time : Times]
    <3> TAKE k \in DOMAIN schedules'
    <3>1. CASE k \in kept
      BY <1>7, <2>2, <3>1
    <3>2. CASE \E i \in DOMAIN added : k = lastKey + i
      BY <1>3, <1>8, <2>2, <3>2
    <3> QED BY <1>9, <3>1, <3>2
  <2> QED BY <2>1, <2>2, <2>3, <2>4, <2>5 DEF RowsTyped
<1>11. \A k \in kept : \/ /\ schedules'[k] = schedules[k]
                          /\ \A s \in Dirty(c) : s.id # k
                       \/ \E s \in Dirty(c) : /\ s.id = k
                                              /\ schedules'[k].time = s.time
  <2> TAKE k \in kept
  <2>1. schedules'[k].time = time(k)
        /\ (time(k) = schedules[k].time => schedules'[k] = schedules[k])
    BY <1>7
  <2> QED BY <1>5, <2>1
<1> QED BY <1>2, <1>3, <1>7, <1>8, <1>9, <1>10, <1>11 DEF added

-----------------------------------------------------------------------------
(* A save of a form that no other client's save has overtaken *)

Saving(c) == Loaded(c) /\ call[c] = "save"

Undisturbed(c) == Saving(c) /\ ~stale[c] /\ OneValvePerPin

LEMMA PinsDiffer ==
    ASSUME CallsTyped, NEW c \in Clients, FormInv(c), Holds(c), OneValvePerPin,
           NEW m \in DOMAIN form[c].valves, NEW n \in DOMAIN form[c].valves,
           Item(c, m).pin = Item(c, n).pin
    PROVE  m = n
<1>1. /\ DOMAIN form[c].valves = 1 .. Len(form[c].valves)
      /\ Len(form[c].valves) \in Nat
      /\ Item(c, m).pin \in Nat /\ Item(c, n).pin \in Nat
  BY ClientTyped, ListTyped DEF Item
<1>2. m < n => Item(c, m).pin < Item(c, n).pin
  BY DEF FormInv
<1>3. n < m => Item(c, n).pin < Item(c, m).pin
  BY DEF FormInv
<1>4. m \in Nat /\ n \in Nat
  BY <1>1
<1> QED BY <1>1, <1>2, <1>3, <1>4

LEMMA SinglePins ==
    ASSUME OneValvePerPin, RowsTyped,
           NEW v \in DOMAIN valves, NEW w \in DOMAIN valves,
           valves[v].pin = valves[w].pin
    PROVE  v = w
BY ValvesTyped DEF OneValvePerPin, OneRow

(* An item meets the schedules of its own row as they are stored.          *)
LEMMA OldIsStored ==
    ASSUME SettingsInv, NEW c \in Clients, Undisturbed(c), NEW n \in Known(c)
    PROVE  LET valve == context[c].rows[Entity(c, n)].id IN
           /\ OldSchedules(c, n) = SchedulesOf(valve)
           /\ valve \in DOMAIN valves
           /\ valves[valve].pin = Item(c, n).pin
<1> DEFINE i == Entity(c, n)
<1>1. /\ RowsTyped /\ CallsTyped
      /\ RowsInv(c) /\ FormInv(c) /\ FreshInv(c)
  BY InvOfClient
<1>2. /\ n \in DOMAIN form[c].valves /\ i \in DOMAIN context[c].rows
      /\ context[c].rows[i].pin = Item(c, n).pin
  BY <1>1, EntityProps
<1>3. /\ Holds(c) /\ ~stale[c] /\ OneValvePerPin
      /\ context[c].loaded = Len(context[c].rows)
  BY DEF Undisturbed, Saving, Loaded, Holds
<1>4. i \in 1 .. context[c].loaded
  BY <1>1, <1>2, <1>3, ClientTyped, EntitiesTyped
<1> HIDE DEF i
<1>5. context[c].rows[i].schedules = SchedulesOf(context[c].rows[i].id)
  BY <1>1, <1>3, <1>4 DEF FreshInv
<1>6. \A m \in DOMAIN form[c].valves : m < n => Item(c, m).pin # Item(c, n).pin
  <2> SUFFICES ASSUME NEW m \in DOMAIN form[c].valves, m < n,
                      Item(c, m).pin = Item(c, n).pin
               PROVE  FALSE
    OBVIOUS
  <2>1. m = n
    BY <1>1, <1>2, <1>3, PinsDiffer
  <2>2. DOMAIN form[c].valves = 1 .. Len(form[c].valves)
    BY <1>1, ClientTyped, ListTyped
  <2>3. n \in Nat
    BY <1>2, <2>2
  <2> QED BY <2>1, <2>3
<1>7. OldSchedules(c, n) = context[c].rows[i].schedules
  BY <1>1, <1>6, OldTyped DEF i
<1>8. /\ context[c].rows[i].id \in DOMAIN valves
      /\ valves[context[c].rows[i].id].pin = Item(c, n).pin
  BY <1>1, <1>2 DEF RowsInv
<1> QED BY <1>5, <1>7, <1>8 DEF i

(* A key of the form is that of a stored schedule of the same pin.         *)
LEMMA KeysStored ==
    ASSUME SettingsInv, NEW c \in Clients, Undisturbed(c),
           NEW n \in DOMAIN form[c].valves, NEW s \in Item(c, n).schedules,
           s.id # NoKey
    PROVE  /\ s.id \in DOMAIN schedules
           /\ schedules[s.id].valve \in DOMAIN valves
           /\ valves[schedules[s.id].valve].pin = Item(c, n).pin
<1>1. RowsTyped /\ FreshInv(c)
  BY InvOfClient
<1>2. Holds(c) /\ ~stale[c] /\ OneValvePerPin
  BY DEF Undisturbed, Saving, Holds
<1>3. /\ s.id \in DOMAIN schedules
      /\ valves[schedules[s.id].valve].pin = Item(c, n).pin
  BY <1>1, <1>2 DEF FreshInv
<1> QED BY <1>1, <1>3, SchedulesTyped

LEMMA DeletedIsStored ==
    ASSUME SettingsInv, NEW c \in Clients, Undisturbed(c), NEW k \in Deleted(c)
    PROVE  \E n \in Known(c) :
              /\ k \in DOMAIN schedules /\ k # NoKey
              /\ schedules[k].valve = context[c].rows[Entity(c, n)].id
              /\ schedules[k].valve \in DOMAIN valves
              /\ valves[schedules[k].valve].pin = Item(c, n).pin
              /\ \A s \in Item(c, n).schedules : s.id # k
<1>1. PICK n \in Known(c) : k \in Removed(c, n)
  BY DEF Deleted
<1>2. /\ k \in KeysOf(OldSchedules(c, n))
      /\ k \notin KeysOf(Item(c, n).schedules) \ {NoKey}
  BY <1>1 DEF Removed, deleteRemovedSchedulers
<1>3. LET valve == context[c].rows[Entity(c, n)].id IN
      /\ OldSchedules(c, n) = SchedulesOf(valve)
      /\ valve \in DOMAIN valves
      /\ valves[valve].pin = Item(c, n).pin
  BY OldIsStored
<1>4. PICK s \in SchedulesOf(context[c].rows[Entity(c, n)].id) : s.id = k
  BY <1>2, <1>3 DEF KeysOf
<1>5. /\ k \in DOMAIN schedules /\ k # NoKey
      /\ schedules[k].valve = context[c].rows[Entity(c, n)].id
  BY <1>4, InvOfClient, SchedulesOfProps
<1>6. \A t \in Item(c, n).schedules : t.id # k
  BY <1>2, <1>5 DEF KeysOf
<1> QED BY <1>3, <1>5, <1>6

LEMMA SavedWhenFresh ==
    ASSUME SettingsInv, NEW c \in Clients, Undisturbed(c)
    PROVE  Accepted(c)
<1>1. RowsTyped /\ CallsTyped /\ OneValvePerPin
  BY InvOfClient DEF Undisturbed
<1>2. ASSUME NEW n \in Known(c) PROVE updateValves(c, n)
  <2> DEFINE valve == context[c].rows[Entity(c, n)].id
  <2>1. /\ OldSchedules(c, n) = SchedulesOf(valve)
        /\ valve \in DOMAIN valves /\ valves[valve].pin = Item(c, n).pin
    BY OldIsStored
  <2>2. n \in DOMAIN form[c].valves
    BY <1>1, EntityProps
  <2> HIDE DEF valve
  <2>3. NoKey \notin Removed(c, n)
    BY <1>1, <2>1, SchedulesOfProps DEF Removed, deleteRemovedSchedulers, KeysOf
  <2>4. ASSUME NEW s \in Item(c, n).schedules, s.id # NoKey
        PROVE  s.id \in KeysOf(OldSchedules(c, n))
    <3>1. /\ s.id \in DOMAIN schedules
          /\ schedules[s.id].valve \in DOMAIN valves
          /\ valves[schedules[s.id].valve].pin = Item(c, n).pin
      BY <2>2, <2>4, KeysStored
    <3>2. schedules[s.id].valve = valve
      BY <1>1, <2>1, <3>1, SinglePins
    <3> QED BY <1>1, <2>1, <3>1, <3>2, SchedulesOfProps
  <2>5. updateSchedulerList(OldSchedules(c, n), Item(c, n).schedules)
    BY <2>4 DEF updateSchedulerList, KeysOf
  <2> QED BY <2>3, <2>5 DEF updateValves
<1>3. Deleted(c) \subseteq DOMAIN schedules
  BY DeletedIsStored
<1>4. KeysOf(Dirty(c)) \subseteq DOMAIN schedules
  <2> SUFFICES ASSUME NEW s \in Dirty(c) PROVE s.id \in DOMAIN schedules
    BY DEF KeysOf
  <2>1. PICK n \in Known(c) : s \in Item(c, n).schedules /\ s.id # NoKey
    BY <1>1, DirtyProps
  <2>2. n \in DOMAIN form[c].valves
    BY <1>1, EntityProps
  <2> QED BY <2>1, <2>2, KeysStored
<1> QED BY <1>2, <1>3, <1>4 DEF Accepted

-----------------------------------------------------------------------------
(* Commit *)

LEMMA CommitStep ==
    ASSUME SettingsInv, NEW c \in Clients, Commit(c)
    PROVE  SettingsInv'
<1>1. /\ RowsTyped /\ CallsTyped /\ RowsInv(c)
      /\ \A d \in Clients : RowsInv(d) /\ FormInv(d) /\ FreshInv(d)
  BY InvOfClient
<1>2. /\ Saving(c) /\ UNCHANGED <<call, form, saves>>
      /\ pc' = [pc EXCEPT ![c] = "form"]
      /\ context' = [context EXCEPT ![c] = NoContext]
      /\ stale' = [d \in Clients |-> d # c \/ stale[d]]
  BY DEF Commit, EndOfSave, Saving
<1>3. RowsTyped'
  BY <1>1, WrittenSchedulesProps
<1>4. CallsTyped'
  BY <1>1, <1>2, NothingTyped DEF CallsTyped
<1>5. \A v \in DOMAIN valves : v \in DOMAIN valves' /\ valves'[v].pin = valves[v].pin
  BY <1>1, WrittenValvesProps
<1>6. OneValvePerPin' => OneValvePerPin
  BY <1>5 DEF OneValvePerPin, OneRow
<1>7. /\ pc'[c] = "form" /\ context'[c].rows = <<>> /\ context'[c].loaded = 0
      /\ \A d \in Clients \ {c} : /\ pc'[d] = pc[d] /\ context'[d] = context[d]
                                  /\ stale'[d]
      /\ stale'[c] = stale[c]
  BY <1>1, <1>2 DEF NoContext, CallsTyped
<1>8. ASSUME NEW d \in Clients PROVE RowsInv(d)'
  <2>1. CASE d = c
    BY <1>7, <2>1, NothingLoaded
  <2>2. CASE d # c
    <3>1. RowsInv(d) /\ pc'[d] = pc[d] /\ context'[d] = context[d]
      BY <1>1, <1>7, <2>2
    <3> DEFINE rows == context[d].rows
    <3>2. \A i \in DOMAIN rows : /\ rows[i].id \in DOMAIN valves'
                                 /\ rows[i].pin = valves'[rows[i].id].pin
                                 /\ KeysUnique(rows[i].schedules)
      <4> TAKE i \in DOMAIN rows
      <4>1. /\ rows[i].id \in DOMAIN valves
            /\ rows[i].pin = valves[rows[i].id].pin
            /\ KeysUnique(rows[i].schedules)
        BY <3>1 DEF RowsInv
      <4> QED BY <1>5, <4>1
    <3>3. \A i, j \in DOMAIN rows : rows[i].id = rows[j].id => i = j
      BY <3>1 DEF RowsInv
    <3>4. /\ pc'[d] # "find schedules" => rows = <<>> /\ context'[d].loaded = 0
          /\ context'[d].loaded <= Len(rows)
      BY <3>1 DEF RowsInv
    <3> QED BY <3>1, <3>2, <3>3, <3>4 DEF RowsInv
  <2> QED BY <2>1, <2>2
<1>9. ASSUME NEW d \in Clients PROVE FormInv(d)'
  <2>1. Holds(d)' => Holds(d)
    BY <1>2, <1>7 DEF Holds, Saving
  <2> SUFFICES ASSUME Holds(d)' PROVE FormInv(d)'
    BY DEF FormInv
  <2>2. ASSUME NEW n \in DOMAIN form[d].valves,
               NEW s \in Item(d, n).schedules, s.id # NoKey
        PROVE  \E v \in DOMAIN valves' : valves'[v].pin = Item(d, n).pin
    BY <1>1, <1>5, <2>1, <2>2 DEF FormInv
  <2> QED BY <1>1, <1>2, <1>6, <2>1, <2>2 DEF FormInv, Item
<1>10. ASSUME NEW d \in Clients PROVE FreshInv(d)'
  <2>1. CASE d # c
    BY <1>7, <2>1 DEF FreshInv
  <2>2. CASE d = c
    <3> SUFFICES ASSUME ~stale[c], OneValvePerPin,
                        NEW n \in DOMAIN form[c].valves,
                        NEW s \in Item(c, n).schedules, s.id # NoKey
                 PROVE  /\ s.id \in DOMAIN schedules'
                        /\ valves'[schedules'[s.id].valve].pin = Item(c, n).pin
      BY <1>2, <1>6, <1>7, <2>2, NothingLoaded DEF FreshInv, Item
    <3>1. Undisturbed(c)
      BY <1>2 DEF Undisturbed
    <3>2. /\ s.id \in DOMAIN schedules
          /\ schedules[s.id].valve \in DOMAIN valves
          /\ valves[schedules[s.id].valve].pin = Item(c, n).pin
      BY <3>1, KeysStored
    <3>3. s.id \notin Deleted(c)
      <4> SUFFICES ASSUME s.id \in Deleted(c) PROVE FALSE
        OBVIOUS
      <4>1. PICK m \in Known(c) :
               /\ valves[schedules[s.id].valve].pin = Item(c, m).pin
               /\ \A t \in Item(c, m).schedules : t.id # s.id
        BY <3>1, DeletedIsStored
      <4>2. m \in DOMAIN form[c].valves /\ Holds(c)
        BY <1>1, <1>2, EntityProps DEF Saving, Holds
      <4>3. m = n
        BY <1>1, <3>2, <4>1, <4>2, PinsDiffer
      <4> QED BY <4>1, <4>3
    <3>4. /\ s.id \in DOMAIN schedules'
          /\ schedules'[s.id].valve = schedules[s.id].valve
      BY <1>1, <3>2, <3>3, WrittenSchedulesProps
    <3> QED BY <1>5, <3>2, <3>4
  <2> QED BY <2>1, <2>2
<1> QED BY <1>3, <1>4, <1>8, <1>9, <1>10, TypePartsNext DEF SettingsInv

-----------------------------------------------------------------------------
(* A save that nobody disturbs *)

(* A save that is about to be committed on exactly the rows that are       *)
(* stored: every valve has its row, and a pin has at most one.             *)
Alone(c) == Saving(c) /\ Accepted(c) /\ Current(c) /\ OneValvePerPin

LEMMA RowsCover ==
    ASSUME SettingsInv, NEW c \in Clients, Alone(c)
    PROVE  /\ \A v \in DOMAIN valves :
                 \E i \in DOMAIN context[c].rows : context[c].rows[i].id = v
           /\ \A i \in DOMAIN context[c].rows :
                 LET row == context[c].rows[i] IN
                 /\ row.id \in DOMAIN valves
                 /\ valves[row.id] = [pin |-> row.pin, output |-> row.output]
                 /\ valves[row.id].pin = row.pin
                 /\ row.schedules = SchedulesOf(row.id)
<1> DEFINE rows == context[c].rows
           ids == [i \in DOMAIN valves |-> rows[i].id]
<1>1. RowsTyped /\ CallsTyped /\ RowsInv(c) /\ Current(c)
  BY InvOfClient DEF Alone
<1>2. /\ Len(valves) \in Nat /\ DOMAIN valves = 1 .. Len(valves)
      /\ DOMAIN rows = 1 .. Len(rows) /\ Len(rows) = Len(valves)
  BY <1>1, ValvesTyped, ClientTyped, EntitiesTyped DEF Current
<1>3. /\ \A i \in DOMAIN valves : rows[i].id \in DOMAIN valves
      /\ \A i, j \in DOMAIN valves : rows[i].id = rows[j].id => i = j
  BY <1>1, <1>2 DEF RowsInv
<1>4. ids \in [DOMAIN valves -> DOMAIN valves]
      /\ \A i, j \in DOMAIN valves : ids[i] = ids[j] => i = j
  BY <1>3
<1>5. IsFiniteSet(DOMAIN valves)
  BY <1>2, CountTo
<1>6. \A v \in DOMAIN valves : \E i \in DOMAIN valves : ids[i] = v
  <2> HIDE DEF ids
  <2> QED BY <1>4, <1>5, Permutes
<1>7. \A i \in DOMAIN rows :
         /\ rows[i].id \in DOMAIN valves
         /\ valves[rows[i].id] = [pin |-> rows[i].pin, output |-> rows[i].output]
         /\ valves[rows[i].id].pin = rows[i].pin
         /\ rows[i].schedules = SchedulesOf(rows[i].id)
  BY <1>1 DEF Current, RowsInv
<1> QED BY <1>2, <1>6, <1>7

LEMMA AloneParts ==
    ASSUME SettingsInv, NEW c \in Clients, Alone(c)
    PROVE  /\ RowsTyped /\ CallsTyped /\ RowsInv(c) /\ FormInv(c)
           /\ Holds(c) /\ OneValvePerPin /\ Accepted(c)
           /\ DOMAIN form[c].valves = 1 .. Len(form[c].valves)
           /\ \A n \in DOMAIN form[c].valves :
                 /\ Item(c, n) \in ValveItem
                 /\ Item(c, n).schedules \in SUBSET ScheduleItem
                 /\ KeysUnique(Item(c, n).schedules)
<1>1. /\ RowsTyped /\ CallsTyped /\ RowsInv(c) /\ FormInv(c)
      /\ Holds(c) /\ OneValvePerPin /\ Accepted(c)
  BY InvOfClient DEF Alone, Saving, Holds
<1>2. /\ DOMAIN form[c].valves = 1 .. Len(form[c].valves)
      /\ \A n \in DOMAIN form[c].valves :
            /\ Item(c, n) \in ValveItem
            /\ Item(c, n).schedules \in SUBSET ScheduleItem
  BY <1>1, ClientTyped, ListTyped DEF Item
<1> QED BY <1>1, <1>2 DEF FormInv

(* An item that has a row meets the schedules of that row as they are      *)
(* stored, and is the only one for it.                                     *)
LEMMA KnownItem ==
    ASSUME SettingsInv, NEW c \in Clients, Alone(c), NEW n \in Known(c)
    PROVE  LET i == Entity(c, n)
               valve == context[c].rows[i].id IN
           /\ n \in DOMAIN form[c].valves
           /\ i \in DOMAIN context[c].rows
           /\ context[c].rows[i].pin = Item(c, n).pin
           /\ valve \in DOMAIN valves /\ valves[valve].pin = Item(c, n).pin
           /\ OldSchedules(c, n) = SchedulesOf(valve)
           /\ context[c].rows[i].schedules = SchedulesOf(valve)
           /\ \A s \in Item(c, n).schedules :
                 s.id # NoKey => /\ s.id \in DOMAIN schedules
                                 /\ schedules[s.id].valve = valve
           /\ \A m \in Known(c) : Entity(c, m) = i => m = n
           /\ Updated(c, i).output = Item(c, n).output
           /\ Updated(c, i).schedules = Item(c, n).schedules
<1> DEFINE i == Entity(c, n)
           row == context[c].rows[i]
<1>1. /\ RowsTyped /\ CallsTyped /\ RowsInv(c) /\ FormInv(c)
      /\ Holds(c) /\ OneValvePerPin /\ Accepted(c)
      /\ DOMAIN form[c].valves = 1 .. Len(form[c].valves)
  BY AloneParts
<1>2. /\ n \in DOMAIN form[c].valves /\ i \in DOMAIN context[c].rows
      /\ row.pin = Item(c, n).pin
  BY <1>1, EntityProps
<1> HIDE DEF i
<1>3. /\ row.id \in DOMAIN valves /\ valves[row.id].pin = Item(c, n).pin
      /\ row.schedules = SchedulesOf(row.id)
  BY <1>2, RowsCover
<1>4. ASSUME NEW m \in DOMAIN form[c].valves, Item(c, m).pin = Item(c, n).pin
      PROVE  m = n
  BY <1>1, <1>2, <1>4, PinsDiffer
<1>5. OldSchedules(c, n) = row.schedules
  <2>1. \A m \in DOMAIN form[c].valves : m < n => Item(c, m).pin # Item(c, n).pin
    <3>1. n \in Nat
      BY <1>1, <1>2
    <3> QED BY <1>4, <3>1
  <2> QED BY <1>1, <2>1, OldTyped DEF i
<1>6. ASSUME NEW m \in Known(c), Entity(c, m) = i PROVE m = n
  BY <1>1, <1>2, <1>4, <1>6, EntityProps
<1>7. /\ Updated(c, i).output = Item(c, n).output
      /\ Updated(c, i).schedules = Item(c, n).schedules
  <2>1. \E m \in Known(c) : /\ Entity(c, m) = i
                            /\ Updated(c, i).output = Item(c, m).output
                            /\ Updated(c, i).schedules = Item(c, m).schedules
    <3>1. ~ \A m \in Known(c) : Entity(c, m) # i
      BY DEF i
    <3> QED BY <1>1, <1>2, <3>1, UpdatedProps
  <2> QED BY <1>6, <2>1
<1>8. ASSUME NEW s \in Item(c, n).schedules, s.id # NoKey
      PROVE  s.id \in DOMAIN schedules /\ schedules[s.id].valve = row.id
  <2>1. s.id \in KeysOf(OldSchedules(c, n))
    BY <1>1, <1>8 DEF Accepted, updateValves, updateSchedulerList, KeysOf
  <2>2. PICK t \in SchedulesOf(row.id) : t.id = s.id
    BY <1>3, <1>5, <2>1 DEF KeysOf
  <2> QED BY <1>1, <2>2, SchedulesOfProps
<1> QED BY <1>2, <1>3, <1>5, <1>6, <1>7, <1>8 DEF i

(* Without a row an item has no keys: its entries are added as they are.   *)
LEMMA UnknownItem ==
    ASSUME SettingsInv, NEW c \in Clients, Alone(c),
           NEW n \in DOMAIN form[c].valves \ Known(c)
    PROVE  /\ \A v \in DOMAIN valves : valves[v].pin # Item(c, n).pin
           /\ \A s \in Item(c, n).schedules : s.id = NoKey
           /\ toSchedulerEntityList(Item(c, n).schedules) = Item(c, n).schedules
<1>1. FormInv(c) /\ Holds(c) /\ Item(c, n).schedules \in SUBSET ScheduleItem
  BY AloneParts
<1>2. ASSUME NEW v \in DOMAIN valves PROVE valves[v].pin # Item(c, n).pin
  <2>1. PICK i \in DOMAIN context[c].rows : context[c].rows[i].id = v
    BY RowsCover
  <2>2. valves[v].pin = context[c].rows[i].pin
    BY <2>1, RowsCover
  <2> QED BY <2>2 DEF Known, Matching
<1>3. \A s \in Item(c, n).schedules : s.id = NoKey
  BY <1>1, <1>2 DEF FormInv
<1>4. \A s \in Item(c, n).schedules : [s EXCEPT !.id = NoKey] = s
  BY <1>1, <1>3 DEF ScheduleItem
<1>5. toSchedulerEntityList(Item(c, n).schedules) = Item(c, n).schedules
  BY <1>4 DEF toSchedulerEntityList
<1> QED BY <1>2, <1>3, <1>5

(* After the save, v is the valve of item n and of no other pin's.         *)
HoldsItem(c, n, v) ==
    /\ v \in DOMAIN valves'
    /\ valves'[v] = [pin |-> Item(c, n).pin, output |-> Item(c, n).output]
    /\ \A w \in DOMAIN valves' : valves'[w].pin = Item(c, n).pin => w = v

LEMMA AddedPins ==
    ASSUME SettingsInv, NEW c \in Clients, Alone(c), Commit(c)
    PROVE  /\ Len(valves) \in Nat /\ DOMAIN valves = 1 .. Len(valves)
           /\ Len(Added(c)) \in Nat /\ DOMAIN Added(c) = 1 .. Len(Added(c))
           /\ \A w \in DOMAIN valves' :
                 \/ w \in DOMAIN valves /\ valves'[w].pin = valves[w].pin
                 \/ \E a \in DOMAIN Added(c) :
                       w = Len(valves) + a /\ valves'[w].pin = Added(c)[a].pin
<1>1. RowsTyped /\ CallsTyped
  BY AloneParts
<1>2. /\ Len(valves) \in Nat /\ DOMAIN valves = 1 .. Len(valves)
      /\ Len(Added(c)) \in Nat /\ DOMAIN Added(c) = 1 .. Len(Added(c))
  BY <1>1, ValvesTyped, AddedProps
<1>3. ASSUME NEW w \in DOMAIN valves'
      PROVE  \/ w \in DOMAIN valves /\ valves'[w].pin = valves[w].pin
             \/ \E a \in DOMAIN Added(c) :
                   w = Len(valves) + a /\ valves'[w].pin = Added(c)[a].pin
  <2>1. w \in 1 .. Len(valves) + Len(Added(c))
    BY <1>1, WrittenValvesProps
  <2>2. CASE w <= Len(valves)
    <3>1. w \in DOMAIN valves
      BY <1>2, <2>1, <2>2
    <3> QED BY <1>1, <3>1, WrittenValvesProps
  <2>3. CASE w > Len(valves)
    <3>1. /\ w - Len(valves) \in DOMAIN Added(c)
          /\ w = Len(valves) + (w - Len(valves))
      BY <1>2, <2>1, <2>3
    <3>2. valves'[w] = [pin |-> Added(c)[w - Len(valves)].pin,
                        output |-> Added(c)[w - Len(valves)].output]
      BY <1>1, <3>1, WrittenValvesProps
    <3> QED BY <3>1, <3>2
  <2> QED BY <1>2, <2>1, <2>2, <2>3
<1> QED BY <1>2, <1>3

LEMMA KnownHolds ==
    ASSUME SettingsInv, NEW c \in Clients, Alone(c), Commit(c), NEW n \in Known(c)
    PROVE  HoldsItem(c, n, context[c].rows[Entity(c, n)].id)
<1> DEFINE i == Entity(c, n)
           row == context[c].rows[i]
           v == row.id
<1>1. /\ RowsTyped /\ CallsTyped /\ RowsInv(c) /\ FormInv(c)
      /\ Holds(c) /\ OneValvePerPin
  BY AloneParts
<1>2. /\ n \in DOMAIN form[c].valves
      /\ i \in DOMAIN context[c].rows
      /\ v \in DOMAIN valves /\ valves[v].pin = Item(c, n).pin
      /\ row.pin = Item(c, n).pin
      /\ Updated(c, i).output = Item(c, n).output
  BY KnownItem
<1> HIDE DEF i
<1>3. valves[v] = [pin |-> row.pin, output |-> row.output]
  BY <1>2, RowsCover
<1>4. WrittenValve(c, v) = [pin |-> Item(c, n).pin, output |-> Item(c, n).output]
  <2> DEFINE changed == {j \in DOMAIN context[c].rows :
                            /\ context[c].rows[j].id = v
                            /\ Updated(c, j).output # context[c].rows[j].output}
  <2>1. \A j \in changed : j = i
    BY <1>1, <1>2 DEF RowsInv
  <2>2. CASE changed = {}
    <3>1. Updated(c, i).output = row.output
      BY <1>2, <2>2
    <3>2. WrittenValve(c, v) = valves[v]
      BY <2>2 DEF WrittenValve
    <3> QED BY <1>2, <1>3, <3>1, <3>2
  <2>3. CASE changed # {}
    <3>1. (CHOOSE j \in changed : TRUE) = i
      BY <2>1, <2>3
    <3>2. WrittenValve(c, v) = [valves[v] EXCEPT !.output =
                                  Updated(c, CHOOSE j \in changed : TRUE).output]
      BY <2>3 DEF WrittenValve
    <3>3. WrittenValve(c, v) = [valves[v] EXCEPT !.output = Item(c, n).output]
      BY <1>2, <3>1, <3>2
    <3> QED BY <1>2, <1>3, <3>3
  <2> QED BY <2>2, <2>3
<1> HIDE DEF v, row
<1>5. v \in DOMAIN valves' /\ valves'[v] = WrittenValve(c, v)
  BY <1>1, <1>2, WrittenValvesProps
<1>6. ASSUME NEW w \in DOMAIN valves', valves'[w].pin = Item(c, n).pin
      PROVE  w = v
  <2>1. CASE w \in DOMAIN valves /\ valves'[w].pin = valves[w].pin
    BY <1>1, <1>2, <1>6, <2>1, SinglePins
  <2>2. CASE \E a \in DOMAIN Added(c) : valves'[w].pin = Added(c)[a].pin
    <3>1. PICK a \in DOMAIN Added(c) : valves'[w].pin = Added(c)[a].pin
      BY <2>2
    <3>2. PICK m \in DOMAIN form[c].valves \ Known(c) :
             Added(c)[a].pin = Item(c, m).pin
      BY <1>1, AddedProps
    <3>3. m = n
      BY <1>1, <1>2, <1>6, <3>1, <3>2, PinsDiffer
    <3> QED BY <3>2, <3>3
  <2> QED BY <2>1, <2>2, AddedPins
<1> QED BY <1>4, <1>5, <1>6 DEF HoldsItem, v, row, i

LEMMA UnknownHolds ==
    ASSUME SettingsInv, NEW c \in Clients, Alone(c), Commit(c),
           NEW n \in DOMAIN form[c].valves \ Known(c)
    PROVE  \E a \in DOMAIN Added(c) :
              /\ HoldsItem(c, n, Len(valves) + a)
              /\ Added(c)[a].schedules = Item(c, n).schedules
<1>1. /\ RowsTyped /\ CallsTyped /\ FormInv(c) /\ Holds(c) /\ OneValvePerPin
  BY AloneParts
<1>2. PICK new \in [DOMAIN Added(c) -> DOMAIN form[c].valves \ Known(c)] :
         /\ \A a \in DOMAIN Added(c) :
               /\ Added(c)[a].pin = Item(c, new[a]).pin
               /\ Added(c)[a].output = Item(c, new[a]).output
               /\ Added(c)[a].schedules
                     = toSchedulerEntityList(Item(c, new[a]).schedules)
         /\ \A a, b \in DOMAIN Added(c) : new[a] = new[b] => a = b
         /\ \A m \in DOMAIN form[c].valves \ Known(c) :
               \E a \in DOMAIN Added(c) : new[a] = m
  BY <1>1, AddedProps
<1>3. PICK a \in DOMAIN Added(c) : new[a] = n
  BY <1>2
<1>4. Added(c)[a].schedules = Item(c, n).schedules
  BY <1>2, <1>3, UnknownItem
<1>5. /\ Len(valves) + a \in DOMAIN valves'
      /\ valves'[Len(valves) + a]
            = [pin |-> Item(c, n).pin, output |-> Item(c, n).output]
  BY <1>1, <1>2, <1>3, WrittenValvesProps
<1>6. ASSUME NEW w \in DOMAIN valves', valves'[w].pin = Item(c, n).pin
      PROVE  w = Len(valves) + a
  <2>1. CASE w \in DOMAIN valves /\ valves'[w].pin = valves[w].pin
    BY <1>6, <2>1, UnknownItem
  <2>2. CASE \E b \in DOMAIN Added(c) :
                w = Len(valves) + b /\ valves'[w].pin = Added(c)[b].pin
    <3>1. PICK b \in DOMAIN Added(c) :
             w = Len(valves) + b /\ valves'[w].pin = Added(c)[b].pin
      BY <2>2
    <3>2. new[b] = n
      BY <1>1, <1>2, <1>6, <3>1, PinsDiffer
    <3> QED BY <1>2, <1>3, <3>1, <3>2
  <2> QED BY <2>1, <2>2, AddedPins
<1> QED BY <1>4, <1>5, <1>6 DEF HoldsItem

(* After the save, the schedules of v are the entries of item n: those     *)
(* with a key have kept it, the others have got one above lastKey.         *)
KeyInForm(k) == IF k <= lastKey THEN k ELSE NoKey

EntriesSaved(c, n, v) ==
    /\ \A k \in DOMAIN schedules' : schedules'[k].valve = v =>
          [id |-> KeyInForm(k), time |-> schedules'[k].time] \in Item(c, n).schedules
    /\ \A s \in Item(c, n).schedules : \E k \in DOMAIN schedules' :
          /\ schedules'[k].valve = v /\ schedules'[k].time = s.time
          /\ KeyInForm(k) = s.id

LEMMA SavedKeys ==
    ASSUME SettingsInv, NEW c \in Clients, Alone(c), Commit(c)
    PROVE  /\ lastKey \in Nat
           /\ \A k \in DOMAIN schedules' :
                 \/ k \in DOMAIN schedules \ Deleted(c) /\ k <= lastKey
                 \/ \E i \in DOMAIN AddedSchedules(c) :
                       /\ k = lastKey + i /\ ~(k <= lastKey)
                       /\ schedules'[k] = AddedSchedules(c)[i]
                       /\ AddedSchedules(c)[i] \in AllNewSchedules(c)
           /\ \A r \in AllNewSchedules(c) : \E k \in DOMAIN schedules' :
                 ~(k <= lastKey) /\ schedules'[k] = r
           /\ \A k \in DOMAIN schedules \ Deleted(c) :
                 /\ k \in DOMAIN schedules' /\ k <= lastKey /\ k # NoKey
                 /\ schedules'[k].valve = schedules[k].valve
           /\ \A k, l \in DOMAIN schedules' :
                 ~(k <= lastKey) /\ ~(l <= lastKey)
                 /\ schedules'[k].valve = schedules'[l].valve
                 /\ schedules'[k].time = schedules'[l].time => k = l
<1> DEFINE added == AddedSchedules(c)
           Rows == [valve : 1 .. Len(valves) + Len(Added(c)), time : Times]
<1>1. RowsTyped /\ CallsTyped /\ RowsInv(c)
  BY AloneParts
<1>2. /\ added \in Seq(Rows)
      /\ \A i \in DOMAIN added : added[i] \in AllNewSchedules(c)
      /\ \A i, j \in DOMAIN added : added[i] = added[j] => i = j
      /\ \A r \in AllNewSchedules(c) : \E i \in DOMAIN added : added[i] = r
  BY <1>1, NewSchedulesProps
<1>3. /\ DOMAIN schedules' = (DOMAIN schedules \ Deleted(c))
            \cup {lastKey + i : i \in DOMAIN added}
      /\ \A k \in DOMAIN schedules \ Deleted(c) :
            schedules'[k].valve = schedules[k].valve
      /\ \A i \in DOMAIN added : schedules'[lastKey + i] = added[i]
  BY <1>1, WrittenSchedulesProps
<1> HIDE DEF added
<1>4. /\ DOMAIN added = 1 .. Len(added) /\ Len(added) \in Nat
      /\ \A i \in DOMAIN added :
            added[i] = [valve |-> added[i].valve, time |-> added[i].time]
  <2>1. /\ DOMAIN added = 1 .. Len(added) /\ Len(added) \in Nat
        /\ \A i \in DOMAIN added : added[i] \in Rows
    <3> HIDE DEF Rows
    <3> QED BY <1>2, LenProperties, ElementOfSeq
  <2> QED BY <2>1
<1>5. lastKey \in Nat /\ \A i \in DOMAIN added : ~(lastKey + i <= lastKey)
  BY <1>1, <1>4 DEF RowsTyped
<1>6. \A k \in DOMAIN schedules : k <= lastKey /\ k # NoKey
  BY <1>1, SchedulesTyped
<1>7. \A k \in DOMAIN schedules' :
         \/ k \in DOMAIN schedules \ Deleted(c) /\ k <= lastKey
         \/ \E i \in DOMAIN added :
               /\ k = lastKey + i /\ ~(k <= lastKey)
               /\ schedules'[k] = added[i] /\ added[i] \in AllNewSchedules(c)
  <2> TAKE k \in DOMAIN schedules'
  <2>1. CASE k \in DOMAIN schedules \ Deleted(c)
    BY <1>6, <2>1
  <2>2. CASE k \in {lastKey + i : i \in DOMAIN added}
    <3>1. PICK i \in DOMAIN added : k = lastKey + i
      BY <2>2
    <3>2. /\ added[i] \in AllNewSchedules(c)
          /\ schedules'[lastKey + i] = added[i]
          /\ ~(lastKey + i <= lastKey)
      BY <1>2, <1>3, <1>5
    <3> QED BY <3>1, <3>2
  <2> QED BY <1>3, <2>1, <2>2
<1>8. \A r \in AllNewSchedules(c) : \E k \in DOMAIN schedules' :
         ~(k <= lastKey) /\ schedules'[k] = r
  BY <1>2, <1>3, <1>5
<1>9. ASSUME NEW k \in DOMAIN schedules', NEW l \in DOMAIN schedules',
             ~(k <= lastKey), ~(l <= lastKey),
             schedules'[k].valve = schedules'[l].valve,
             schedules'[k].time = schedules'[l].time
      PROVE  k = l
  <2>1. PICK i \in DOMAIN added : k = lastKey + i /\ schedules'[k] = added[i]
    BY <1>7, <1>9
  <2>2. PICK j \in DOMAIN added : l = lastKey + j /\ schedules'[l] = added[j]
    BY <1>7, <1>9
  <2>3. added[i] = added[j]
    BY <1>4, <1>9, <2>1, <2>2
  <2> QED BY <1>2, <2>1, <2>2, <2>3
<1> QED BY <1>3, <1>5, <1>6, <1>7, <1>8, <1>9 DEF added

(* A changed or removed schedule belongs to the row of its item.           *)
LEMMA ChangedOfRow ==
    ASSUME SettingsInv, NEW c \in Clients, Alone(c), NEW n \in Known(c)
    PROVE  LET valve == context[c].rows[Entity(c, n)].id IN
           /\ \A s \in Dirty(c) : schedules[s.id].valve = valve =>
                 s \in Item(c, n).schedules
           /\ \A k \in Deleted(c) : schedules[k].valve = valve =>
                 \A s \in Item(c, n).schedules : s.id # k
<1> DEFINE rows == context[c].rows
           valve == rows[Entity(c, n)].id
<1>1. RowsTyped /\ CallsTyped /\ RowsInv(c)
  BY AloneParts
<1>2. Entity(c, n) \in DOMAIN rows
  BY KnownItem
<1>3. ASSUME NEW m \in Known(c), rows[Entity(c, m)].id = valve
      PROVE  m = n
  <2>1. Entity(c, m) \in DOMAIN rows
    BY KnownItem
  <2>2. Entity(c, m) = Entity(c, n)
    BY <1>1, <1>2, <1>3, <2>1 DEF RowsInv
  <2> QED BY <2>2, KnownItem
<1>4. ASSUME NEW s \in Dirty(c), schedules[s.id].valve = valve
      PROVE  s \in Item(c, n).schedules
  <2>1. PICK i \in DOMAIN rows : /\ s \in Updated(c, i).schedules
                                 /\ s.id # NoKey /\ s \notin rows[i].schedules
    BY DEF Dirty
  <2>2. PICK m \in Known(c) : /\ Entity(c, m) = i
                              /\ Updated(c, i).schedules = Item(c, m).schedules
    BY <1>1, <2>1, UpdatedProps
  <2>3. schedules[s.id].valve = rows[Entity(c, m)].id
    BY <2>1, <2>2, KnownItem
  <2>4. m = n
    BY <1>3, <1>4, <2>3
  <2> QED BY <2>1, <2>2, <2>4
<1>5. ASSUME NEW k \in Deleted(c), schedules[k].valve = valve,
             NEW s \in Item(c, n).schedules
      PROVE  s.id # k
  <2>1. PICK m \in Known(c) : k \in Removed(c, m)
    BY DEF Deleted
  <2>2. /\ k \in KeysOf(OldSchedules(c, m))
        /\ k \notin KeysOf(Item(c, m).schedules) \ {NoKey}
    BY <2>1 DEF Removed, deleteRemovedSchedulers
  <2>3. PICK t \in SchedulesOf(rows[Entity(c, m)].id) : t.id = k
    BY <2>2, KnownItem DEF KeysOf
  <2>4. schedules[k].valve = rows[Entity(c, m)].id /\ k # NoKey
    BY <1>1, <2>3, SchedulesOfProps
  <2>5. m = n
    BY <1>3, <1>5, <2>4
  <2> QED BY <2>2, <2>4, <2>5 DEF KeysOf
<1> QED BY <1>4, <1>5

LEMMA KnownEntries ==
    ASSUME SettingsInv, NEW c \in Clients, Alone(c), Commit(c), NEW n \in Known(c)
    PROVE  EntriesSaved(c, n, context[c].rows[Entity(c, n)].id)
<1> DEFINE rows == context[c].rows
           i == Entity(c, n)
           v == rows[i].id
           items == Item(c, n).schedules
<1>1. /\ RowsTyped /\ CallsTyped /\ RowsInv(c)
      /\ items \in SUBSET ScheduleItem /\ KeysUnique(items)
  BY AloneParts, KnownItem
<1>2. /\ i \in DOMAIN rows /\ v \in DOMAIN valves
      /\ OldSchedules(c, n) = SchedulesOf(v) /\ rows[i].schedules = SchedulesOf(v)
      /\ Updated(c, i).schedules = items
      /\ \A s \in items : s.id # NoKey =>
            s.id \in DOMAIN schedules /\ schedules[s.id].valve = v
  BY KnownItem
<1>3. \A s \in items : s = [id |-> s.id, time |-> s.time]
  BY <1>1 DEF ScheduleItem
<1>4. /\ \A s \in Dirty(c) : schedules[s.id].valve = v => s \in items
      /\ \A k \in Deleted(c) : schedules[k].valve = v => \A s \in items : s.id # k
  BY ChangedOfRow
<1> HIDE DEF rows, i, v, items
<1>5. ASSUME NEW k \in DOMAIN schedules \ Deleted(c), schedules[k].valve = v
      PROVE  [id |-> k, time |-> schedules'[k].time] \in items
  <2>1. k \in KeysOf(SchedulesOf(v)) /\ k # NoKey
    BY <1>1, <1>5, SchedulesOfProps, SchedulesTyped
  <2>2. k \notin Removed(c, n)
    BY DEF Deleted
  <2>3. PICK s \in items : s.id = k
    BY <1>2, <2>1, <2>2 DEF Removed, deleteRemovedSchedulers, KeysOf, items
  <2>4. CASE schedules'[k] = schedules[k] /\ \A d \in Dirty(c) : d.id # k
    <3>1. s \notin Dirty(c)
      BY <2>3, <2>4
    <3>2. s \in SchedulesOf(v)
      BY <1>2, <2>1, <2>3, <3>1 DEF Dirty, rows
    <3>3. s = [id |-> k, time |-> schedules[k].time]
      BY <1>1, <2>3, <3>2, SchedulesOfProps
    <3> QED BY <2>3, <2>4, <3>3
  <2>5. CASE \E d \in Dirty(c) : d.id = k /\ schedules'[k].time = d.time
    <3>1. PICK d \in Dirty(c) : d.id = k /\ schedules'[k].time = d.time
      BY <2>5
    <3>2. d \in items
      BY <1>4, <1>5, <3>1
    <3> QED BY <1>3, <3>1, <3>2
  <2> QED BY <1>1, <2>4, <2>5, WrittenSchedulesProps
<1>6. ASSUME NEW k \in DOMAIN schedules', schedules'[k].valve = v
      PROVE  [id |-> KeyInForm(k), time |-> schedules'[k].time] \in items
  <2>1. CASE k \in DOMAIN schedules \ Deleted(c) /\ k <= lastKey
    <3>1. schedules[k].valve = v
      BY <1>6, <2>1, SavedKeys
    <3> QED BY <1>5, <2>1, <3>1 DEF KeyInForm
  <2>2. CASE ~(k <= lastKey) /\ schedules'[k] \in AllNewSchedules(c)
    <3>1. CASE \E j \in DOMAIN rows :
                  schedules'[k] \in NewSchedules(rows[j].id, Updated(c, j).schedules)
      <4>1. PICK j \in DOMAIN rows :
               schedules'[k] \in NewSchedules(rows[j].id, Updated(c, j).schedules)
        BY <3>1
      <4>2. PICK s \in Updated(c, j).schedules :
               s.id = NoKey /\ schedules'[k] = [valve |-> rows[j].id, time |-> s.time]
        BY <4>1 DEF NewSchedules
      <4>3. rows[j].id = v /\ schedules'[k].time = s.time
        BY <1>6, <4>2
      <4>4. j = i
        BY <1>1, <1>2, <4>3 DEF RowsInv, rows, v
      <4> QED BY <1>2, <1>3, <2>2, <4>2, <4>3, <4>4 DEF KeyInForm
    <3>2. CASE \E a \in DOMAIN Added(c) :
                  schedules'[k] \in NewSchedules(Len(valves) + a, Added(c)[a].schedules)
      <4>1. PICK a \in DOMAIN Added(c) :
               schedules'[k] \in NewSchedules(Len(valves) + a, Added(c)[a].schedules)
        BY <3>2
      <4>2. v = Len(valves) + a
        BY <1>6, <4>1 DEF NewSchedules
      <4> QED BY <1>1, <1>2, <4>2, AddedPins
    <3> QED BY <2>2, <3>1, <3>2 DEF AllNewSchedules, rows
  <2> QED BY <2>1, <2>2, SavedKeys
<1>7. ASSUME NEW s \in items
      PROVE  \E k \in DOMAIN schedules' :
                /\ schedules'[k].valve = v /\ schedules'[k].time = s.time
                /\ KeyInForm(k) = s.id
  <2>1. CASE s.id # NoKey
    <3>1. s.id \in DOMAIN schedules \ Deleted(c) /\ schedules[s.id].valve = v
      BY <1>2, <1>4, <2>1
    <3>2. /\ s.id \in DOMAIN schedules' /\ s.id <= lastKey
          /\ schedules'[s.id].valve = v
      BY <3>1, SavedKeys
    <3>3. [id |-> s.id, time |-> schedules'[s.id].time] \in items
      BY <1>5, <3>1
    <3>4. s = [id |-> s.id, time |-> schedules'[s.id].time]
      BY <1>1, <2>1, <3>3 DEF KeysUnique
    <3>5. schedules'[s.id].time = s.time
      BY <3>4
    <3> QED BY <3>2, <3>5 DEF KeyInForm
  <2>2. CASE s.id = NoKey
    <3>1. [valve |-> v, time |-> s.time] \in NewSchedules(v, items)
      BY <2>2 DEF NewSchedules
    <3>2. [valve |-> v, time |-> s.time] \in AllNewSchedules(c)
      BY <1>2, <3>1 DEF AllNewSchedules, rows, v
    <3>3. PICK k \in DOMAIN schedules' :
             ~(k <= lastKey) /\ schedules'[k] = [valve |-> v, time |-> s.time]
      BY <3>2, SavedKeys
    <3> QED BY <2>2, <3>3 DEF KeyInForm
  <2> QED BY <2>1, <2>2
<1> QED BY <1>6, <1>7 DEF EntriesSaved, items, v, rows, i

LEMMA UnknownEntries ==
    ASSUME SettingsInv, NEW c \in Clients, Alone(c), Commit(c),
           NEW n \in DOMAIN form[c].valves \ Known(c), NEW a \in DOMAIN Added(c),
           Added(c)[a].schedules = Item(c, n).schedules
    PROVE  EntriesSaved(c, n, Len(valves) + a)
<1> DEFINE v == Len(valves) + a
           items == Item(c, n).schedules
           rows == context[c].rows
<1>1. /\ RowsTyped /\ items \in SUBSET ScheduleItem
      /\ \A s \in items : s.id = NoKey
  BY AloneParts, UnknownItem
<1>2. \A s \in items : s = [id |-> NoKey, time |-> s.time]
  BY <1>1 DEF ScheduleItem
<1>3. /\ v \notin DOMAIN valves
      /\ \A b \in DOMAIN Added(c) : Len(valves) + b = v => b = a
  BY AddedPins
<1> HIDE DEF v, items, rows
<1>4. ASSUME NEW k \in DOMAIN schedules', schedules'[k].valve = v
      PROVE  [id |-> KeyInForm(k), time |-> schedules'[k].time] \in items
  <2>1. CASE k \in DOMAIN schedules \ Deleted(c) /\ k <= lastKey
    <3>1. schedules'[k].valve \in DOMAIN valves
      BY <1>1, <2>1, SavedKeys, SchedulesTyped
    <3> QED BY <1>3, <1>4, <3>1
  <2>2. CASE ~(k <= lastKey) /\ schedules'[k] \in AllNewSchedules(c)
    <3>1. CASE \E j \in DOMAIN rows :
                  schedules'[k] \in NewSchedules(rows[j].id, Updated(c, j).schedules)
      <4>1. PICK j \in DOMAIN rows :
               schedules'[k] \in NewSchedules(rows[j].id, Updated(c, j).schedules)
        BY <3>1
      <4>2. rows[j].id = v
        BY <1>4, <4>1 DEF NewSchedules
      <4>3. rows[j].id \in DOMAIN valves
        BY RowsCover DEF rows
      <4> QED BY <1>3, <4>2, <4>3
    <3>2. CASE \E b \in DOMAIN Added(c) :
                  schedules'[k] \in NewSchedules(Len(valves) + b, Added(c)[b].schedules)
      <4>1. PICK b \in DOMAIN Added(c) :
               schedules'[k] \in NewSchedules(Len(valves) + b, Added(c)[b].schedules)
        BY <3>2
      <4>2. PICK s \in Added(c)[b].schedules :
               schedules'[k] = [valve |-> Len(valves) + b, time |-> s.time]
        BY <4>1 DEF NewSchedules
      <4>3. Len(valves) + b = v /\ schedules'[k].time = s.time
        BY <1>4, <4>2
      <4>4. s \in items
        BY <1>3, <4>2, <4>3 DEF items
      <4> QED BY <1>2, <2>2, <4>3, <4>4 DEF KeyInForm
    <3> QED BY <2>2, <3>1, <3>2 DEF AllNewSchedules, rows
  <2> QED BY <2>1, <2>2, SavedKeys
<1>5. ASSUME NEW s \in items
      PROVE  \E k \in DOMAIN schedules' :
                /\ schedules'[k].valve = v /\ schedules'[k].time = s.time
                /\ KeyInForm(k) = s.id
  <2>1. [valve |-> v, time |-> s.time] \in NewSchedules(v, items)
    BY <1>1 DEF NewSchedules
  <2>2. [valve |-> v, time |-> s.time] \in AllNewSchedules(c)
    BY <2>1 DEF AllNewSchedules, v, items
  <2>3. PICK k \in DOMAIN schedules' :
           ~(k <= lastKey) /\ schedules'[k] = [valve |-> v, time |-> s.time]
    BY <2>2, SavedKeys
  <2> QED BY <1>1, <2>3 DEF KeyInForm
<1> QED BY <1>4, <1>5 DEF EntriesSaved, items, v

(* Entries and schedules correspond one to one.                            *)
SameAsEntries(c, n, v) ==
    LET keys == {k \in DOMAIN schedules' : schedules'[k].valve = v} IN
    /\ {schedules'[k].time : k \in keys}
          = {s.time : s \in Item(c, n).schedules}
    /\ Cardinality(keys) = Cardinality(Item(c, n).schedules)

LEMMA SameEntries ==
    ASSUME SettingsInv, NEW c \in Clients, Alone(c), Commit(c), RowsTyped',
           NEW n \in DOMAIN form[c].valves, NEW v, EntriesSaved(c, n, v)
    PROVE  SameAsEntries(c, n, v)
<1> DEFINE keys == {k \in DOMAIN schedules' : schedules'[k].valve = v}
           items == Item(c, n).schedules
           entry == [k \in keys |-> [id |-> KeyInForm(k),
                                     time |-> schedules'[k].time]]
<1>1. \A s \in items : s = [id |-> s.id, time |-> s.time]
  BY AloneParts DEF ScheduleItem
<1>2. /\ \A k \in keys : entry[k] \in items
      /\ \A k \in keys : entry[k].time = schedules'[k].time
                         /\ entry[k].id = KeyInForm(k)
  BY DEF EntriesSaved
<1>3. \A s \in items : \E k \in keys : entry[k] = s
  <2> TAKE s \in items
  <2>1. PICK k \in DOMAIN schedules' :
           /\ schedules'[k].valve = v /\ schedules'[k].time = s.time
           /\ KeyInForm(k) = s.id
    BY DEF EntriesSaved
  <2> QED BY <1>1, <2>1
<1>4. ASSUME NEW k \in keys, NEW l \in keys, entry[k] = entry[l]
      PROVE  k = l
  <2>1. /\ KeyInForm(k) = KeyInForm(l)
        /\ schedules'[k].time = schedules'[l].time
    BY <1>2, <1>4
  <2>2. k # NoKey /\ l # NoKey
    BY DEF RowsTyped, NoKey
  <2>3. CASE k <= lastKey \/ l <= lastKey
    BY <2>1, <2>2, <2>3 DEF KeyInForm
  <2>4. CASE ~(k <= lastKey) /\ ~(l <= lastKey)
    BY <2>1, <2>4, SavedKeys
  <2> QED BY <2>3, <2>4
<1>5. IsFiniteSet(keys)
  <2>1. lastKey' \in Nat /\ keys \in SUBSET (1 .. lastKey')
    BY DEF RowsTyped
  <2> HIDE DEF keys
  <2> QED BY <2>1, FiniteIndices
<1>6. entry \in [keys -> items]
  BY <1>2
<1> HIDE DEF entry, items, keys
<1>7. ExistsBijection(keys, items)
  BY <1>3, <1>4, <1>6 DEF ExistsBijection, Bijection, Injection, Surjection,
                           IsInjective
<1>8. Cardinality(keys) = Cardinality(items)
  BY <1>5, <1>7, FS_Bijection
<1>9. {schedules'[k].time : k \in keys} = {s.time : s \in items}
  BY <1>2, <1>3
<1> QED BY <1>8, <1>9 DEF SameAsEntries, keys, items

LEMMA SavedStep ==
    ASSUME SettingsInv, NEW c \in Clients, Commit(c), Current(c), OneValvePerPin
    PROVE  StoredAs(form[c])'
<1>1. /\ form' = form /\ Alone(c)
      /\ station' = IF form[c].station # context[c].station
                    THEN form[c].station ELSE station
      /\ context[c].station = station
  BY DEF Commit, EndOfSave, Alone, Saving, Current
<1>2. RowsTyped'
  BY <1>1, AloneParts, WrittenSchedulesProps
<1>3. station' = form[c].station
  BY <1>1
<1>4. ASSUME NEW n \in DOMAIN form[c].valves
      PROVE  LET item == form[c].valves[n] IN
             /\ \E v \in DOMAIN valves' :
                   valves'[v] = [pin |-> item.pin, output |-> item.output]
             /\ TimesOf(item.pin)' = {s.time : s \in item.schedules}
             /\ Cardinality({k \in DOMAIN schedules' :
                                valves'[schedules'[k].valve].pin = item.pin})
                   = Cardinality(item.schedules)
  <2>1. PICK v : HoldsItem(c, n, v) /\ EntriesSaved(c, n, v)
    <3>1. CASE n \in Known(c)
      BY <1>1, <3>1, KnownHolds, KnownEntries
    <3>2. CASE n \notin Known(c)
      BY <1>1, <3>2, UnknownHolds, UnknownEntries
    <3> QED BY <3>1, <3>2
  <2> DEFINE keys == {k \in DOMAIN schedules' : schedules'[k].valve = v}
             item == form[c].valves[n]
  <2>2. /\ {schedules'[k].time : k \in keys} = {s.time : s \in item.schedules}
        /\ Cardinality(keys) = Cardinality(item.schedules)
    <3>1. SameAsEntries(c, n, v)
      BY <1>1, <1>2, <2>1, SameEntries
    <3> QED BY <3>1 DEF SameAsEntries, Item
  <2>3. /\ v \in DOMAIN valves'
        /\ valves'[v] = [pin |-> item.pin, output |-> item.output]
        /\ \A w \in DOMAIN valves' : valves'[w].pin = item.pin => w = v
    BY <2>1 DEF HoldsItem, Item
  <2>4. \A k \in DOMAIN schedules' : schedules'[k].valve \in DOMAIN valves'
    BY <1>2 DEF RowsTyped
  <2>5. {k \in DOMAIN schedules' : valves'[schedules'[k].valve].pin = item.pin} = keys
    BY <2>3, <2>4
  <2>6. TimesOf(item.pin)' = {schedules'[k].time : k \in keys}
    <3>1. TimesOf(item.pin)' = {schedules'[k].time : k \in
             {j \in DOMAIN schedules' : valves'[schedules'[j].valve].pin = item.pin}}
      BY <1>1 DEF TimesOf
    <3> QED BY <2>5, <3>1
  <2> QED BY <2>2, <2>3, <2>5, <2>6
<1> QED BY <1>1, <1>3, <1>4 DEF StoredAs

-----------------------------------------------------------------------------
(* The theorems *)

LEMMA InitSettings == Init => SettingsInv
<1> SUFFICES ASSUME Init PROVE SettingsInv
  OBVIOUS
<1> USE SettingsAssumption
<1>1. valves \in Seq([pin : Pins, output : Outputs])
  <2> DEFINE first == [i \in Pins |-> [pin |-> i, output |-> DefaultOutput]]
  <2>1. first \in [1 .. LastPin -> [pin : Pins, output : Outputs]]
    BY DEF Pins
  <2>2. LastPin \in Nat
    OBVIOUS
  <2>3. valves = <<>> \/ valves = first
    BY DEF Init
  <2> HIDE DEF first
  <2>4. first \in Seq([pin : Pins, output : Outputs])
    BY <2>1, <2>2, SeqOfFunction
  <2> QED BY <2>3, <2>4, EmptySeq
<1>2. PICK n \in 0 .. MaxFirst :
         schedules \in [1 .. n -> [valve : DOMAIN valves, time : Times]]
  BY DEF Init
<1>3. lastKey = n /\ n \in Nat
  <2>1. Len(schedules) = n
    BY <1>2, SeqOfFunction
  <2> QED BY <2>1 DEF Init
<1>4. RowsTyped
  BY <1>1, <1>2, <1>3 DEF Init, RowsTyped
<1>5. CallsTyped
  BY NothingTyped DEF Init, CallsTyped
<1>6. ASSUME NEW c \in Clients PROVE ClientInv(c)
  <2>1. /\ pc[c] = "away" /\ call[c] = "get" /\ context[c] = NoContext
        /\ context[c].rows = <<>> /\ context[c].loaded = 0
    BY DEF Init, NoContext
  <2>2. RowsInv(c)
    BY <2>1, Nothing DEF RowsInv
  <2>3. \A i \in 1 .. context[c].loaded : FALSE
    BY <2>1, Nothing
  <2> QED BY <2>1, <2>2, <2>3 DEF ClientInv, FormInv, FreshInv, Holds
<1> QED BY <1>4, <1>5, <1>6, TypeParts DEF SettingsInv, ClientInv

LEMMA NextSettings == SettingsInv /\ [Next]_vars => SettingsInv'
<1> SUFFICES ASSUME SettingsInv, [Next]_vars PROVE SettingsInv'
  OBVIOUS
<1>1. ASSUME NEW c \in Clients,
             \/ Get(c) \/ Save(c) \/ findAllByStationId(c) \/ FindSchedules(c)
             \/ AnswerGet(c) \/ Commit(c) \/ Rollback(c)
      PROVE  SettingsInv'
  BY <1>1, GetStep, SaveStep, FindValvesStep, FindSchedulesStep, AnswerGetStep,
     CommitStep, RollbackStep
<1>2. CASE UNCHANGED vars
  <2>1. RowsTyped' /\ CallsTyped'
    BY <1>2, TypeParts DEF SettingsInv, RowsTyped, CallsTyped, vars, stored
  <2>2. ASSUME NEW c \in Clients PROVE ClientInv(c)'
    <3>1. RowsInv(c) /\ FormInv(c) /\ FreshInv(c)
      BY InvOfClient
    <3>2. RowsInv(c)'
      BY <1>2, <3>1 DEF RowsInv, vars, stored
    <3>3. (OneValvePerPin' <=> OneValvePerPin) /\ (Holds(c)' <=> Holds(c))
      BY <1>2 DEF OneValvePerPin, OneRow, Holds, vars, stored
    <3>4. FormInv(c)'
      BY <1>2, <3>1, <3>3 DEF FormInv, Item, vars, stored
    <3>5. FreshInv(c)'
      BY <1>2, <3>1, <3>3 DEF FreshInv, Item, SchedulesOf, vars, stored
    <3> QED BY <3>2, <3>4, <3>5 DEF ClientInv
  <2> QED BY <2>1, <2>2, TypePartsNext DEF SettingsInv, ClientInv
<1> QED BY <1>1, <1>2 DEF Next

LEMMA SettingsInvariant == Spec => []SettingsInv
BY InitSettings, NextSettings, PTL DEF Spec

(* The rows, the forms and what the calls have loaded stay of their types: *)
(* a schedule always belongs to a stored valve (SchedulesEntity,           *)
(* ValvesEntity).                                                          *)
THEOREM SettingsTyped == Spec => []TypeOK
<1>1. SettingsInv => TypeOK
  BY DEF SettingsInv
<1> QED BY <1>1, SettingsInvariant, PTL

(* A form shows every pin once and in order (toValvesList).                *)
THEOREM FormsTheorem == Spec => []FormsComplete
<1>1. ASSUME SettingsInv, NEW c \in Clients, pc[c] = "form"
      PROVE  LET list == form[c].valves IN
             /\ {list[i].pin : i \in DOMAIN list} = Pins
             /\ \A i \in 1 .. Len(list) - 1 : list[i].pin <= list[i + 1].pin
             /\ OneValvePerPin => Len(list) = LastPin
  <2> DEFINE list == form[c].valves
             pins == [n \in 1 .. Len(list) |-> list[n].pin]
  <2>1. RowsTyped /\ CallsTyped /\ FormInv(c) /\ Holds(c)
    BY <1>1, InvOfClient DEF Holds
  <2>2. /\ Len(list) \in Nat /\ DOMAIN list = 1 .. Len(list)
        /\ \A n \in DOMAIN list : list[n].pin \in Nat
    BY <2>1, ClientTyped, ListTyped
  <2>3. {list[i].pin : i \in DOMAIN list} = Pins
    BY <2>1 DEF FormInv
  <2>4. ASSUME NEW i \in 1 .. Len(list) - 1
        PROVE  list[i].pin <= list[i + 1].pin
    <3>1. i \in DOMAIN list /\ i + 1 \in DOMAIN list /\ i < i + 1
      BY <2>2
    <3>2. Item(c, i).pin < Item(c, i + 1).pin \/ Item(c, i).pin = Item(c, i + 1).pin
      BY <2>1, <3>1 DEF FormInv
    <3> QED BY <2>2, <3>1, <3>2 DEF Item
  <2>5. ASSUME OneValvePerPin PROVE Len(list) = LastPin
    <3>1. /\ IsFiniteSet(1 .. Len(list)) /\ Cardinality(1 .. Len(list)) = Len(list)
          /\ IsFiniteSet(Pins) /\ Cardinality(Pins) = LastPin
      BY <2>2, CountTo, SettingsAssumption DEF Pins
    <3>2. pins \in [1 .. Len(list) -> Pins]
      BY <2>2, <2>3
    <3>3. \A m, n \in 1 .. Len(list) : pins[m] = pins[n] => m = n
      BY <2>1, <2>2, <2>5, PinsDiffer DEF Item
    <3>4. \A pin \in Pins : \E n \in 1 .. Len(list) : pins[n] = pin
      BY <2>2, <2>3
    <3>5. pins \in Injection(1 .. Len(list), Pins)
      BY <3>2, <3>3 DEF Injection, IsInjective
    <3>6. pins \in Surjection(1 .. Len(list), Pins)
      BY <3>2, <3>4 DEF Surjection
    <3> HIDE DEF pins, list
    <3> QED BY <3>1, <3>5, <3>6, FS_Injection
  <2> QED BY <2>3, <2>4, <2>5
<1>2. SettingsInv => FormsComplete
  BY <1>1 DEF FormsComplete
<1> QED BY <1>2, SettingsInvariant, PTL

(* Nobody is refused what he was given to edit: a save is accepted if no   *)
(* other client's save is newer than the form and the station has no pin   *)
(* twice (saveStationSettings, StationInvokerUpdater).                     *)
THEOREM AcceptedTheorem == Spec => []SaveAccepted
<1>1. SettingsInv => SaveAccepted
  BY SavedWhenFresh DEF SaveAccepted, Undisturbed, Saving
<1> QED BY <1>1, SettingsInvariant, PTL

(* A save that nobody disturbs stores the form, entry by entry, and        *)
(* nothing else of a pin (saveStationSettings, StationInvokerUpdater).     *)
THEOREM SavedTheorem == Spec => SavedAsRequested
<1> DEFINE Saved == \A c \in Clients :
                       Commit(c) /\ Current(c) /\ OneValvePerPin => StoredAs(form[c])'
<1>1. SettingsInv /\ [Next]_vars => [Saved]_vars
  BY SavedStep
<1> QED BY <1>1, SettingsInvariant, PTL DEF Spec, SavedAsRequested
=============================================================================
