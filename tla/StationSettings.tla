---------------------------- MODULE StationSettings ----------------------------
(***************************************************************************)
(* The settings of one station on the server: getStationSettings and       *)
(* saveStationSettings of StationServiceImpl with StationInvokerUpdater,   *)
(* called by several clients at once.                                      *)
(*                                                                         *)
(* Each call reads station, valves and schedules in separate statements of *)
(* a database that shows what is committed (READ COMMITTED). Nothing is    *)
(* written before the end of a transaction: keys come from sequences, so   *)
(* that Hibernate inserts, updates and deletes at the commit only. Rows    *)
(* written there are locked, and the writes look at no other row, so that  *)
(* they take effect in one step. Stations and valves are never deleted.    *)
(*                                                                         *)
(* Operation mode and active level of a valve are one value (output), name *)
(* and measurement period of the station another; the five numbers of a    *)
(* schedule are its time. No client is part of the repository: one reads   *)
(* the settings, edits what it was given and sends it back, again if it    *)
(* likes, since the answer to a save is empty.                             *)
(***************************************************************************)
EXTENDS Naturals, Sequences, SequencesExt

CONSTANTS
    Clients,
    LastPin,         \* the site shows pins 1 .. LastPin (16 in the code)
    Outputs,         \* operation modes and active levels
    DefaultOutput,   \* off, as defaultValvesForWWW has it
    Times,
    Names,           \* names and measurement periods
    FirstName,       \* what the registration stores
    MaxFirst,        \* bound: schedules stored at first
    MaxSaves         \* bound: calls of saveStationSettings

ASSUME SettingsAssumption ==
    /\ LastPin \in Nat \ {0}
    /\ DefaultOutput \in Outputs
    /\ FirstName \in Names
    /\ IsFiniteSet(Times)
    /\ MaxFirst \in Nat /\ MaxSaves \in Nat

VARIABLES
    station,     \* the row of the station
    valves,      \* the rows of its valves; the key is the index
    schedules,   \* the rows of their schedules, by key
    lastKey,     \* of schedules
    pc,          \* where a client, or the call it waits for, is
    call,        \* the call it made last
    form,        \* the settings a client holds
    context,     \* the entities a call has loaded so far
    stale,       \* another client's save is newer than the form
    saves        \* counts calls behind the bound

stored == <<station, valves, schedules, lastKey>>
vars == <<stored, pc, call, form, context, stale, saves>>

Pins == 1 .. LastPin
NoKey == 0
Keys == Nat \ {NoKey}

(* ScheduleItem and ValveItem are what the site sends, without a key for   *)
(* what is new; a ValvesEntity has the key of its row in addition.         *)
ScheduleItem == [id : Nat, time : Times]
ValveItem == [pin : Pins, output : Outputs, schedules : SUBSET ScheduleItem]
ValvesEntity == [id : Keys, pin : Pins, output : Outputs,
                 schedules : SUBSET ScheduleItem]

NoContext == [station |-> FirstName, rows |-> <<>>, loaded |-> 0]
NoForm == [station |-> FirstName, valves |-> <<>>]

KeysOf(items) == {s.id : s \in items}

-----------------------------------------------------------------------------
(* Loading, in the statements Hibernate makes of it. *)

getStationById(c) ==
    context' = [context EXCEPT ![c] = [NoContext EXCEPT !.station = station]]

(* The rows come in any order, which matters among the rows of one pin.    *)
findAllByStationId(c) ==
    /\ pc[c] = "find valves"
    /\ \E order \in SetToSeqs(DOMAIN valves) :
          /\ \A i, j \in DOMAIN order :
                i < j => valves[order[i]].pin <= valves[order[j]].pin
          /\ context' = [context EXCEPT ![c].rows =
                [i \in DOMAIN order |->
                    [id |-> order[i], pin |-> valves[order[i]].pin,
                     output |-> valves[order[i]].output, schedules |-> {}]]]
    /\ pc' = [pc EXCEPT ![c] = "find schedules"]
    /\ UNCHANGED <<stored, call, form, stale, saves>>

SchedulesOf(valve) ==
    {[id |-> k, time |-> schedules[k].time] :
        k \in {j \in DOMAIN schedules : schedules[j].valve = valve}}

Loaded(c) ==
    pc[c] = "find schedules" /\ context[c].loaded = Len(context[c].rows)

(* FetchType.EAGER: one more statement for every valve.                    *)
FindSchedules(c) ==
    /\ pc[c] = "find schedules"
    /\ ~Loaded(c)
    /\ LET i == context[c].loaded + 1
       IN  context' = [context EXCEPT
               ![c].loaded = i,
               ![c].rows[i].schedules = SchedulesOf(context[c].rows[i].id)]
    /\ UNCHANGED <<stored, pc, call, form, stale, saves>>

-----------------------------------------------------------------------------
(* getStationSettings *)

Get(c) ==
    /\ pc[c] \in {"away", "form"}
    /\ getStationById(c)
    /\ pc' = [pc EXCEPT ![c] = "find valves"]
    /\ call' = [call EXCEPT ![c] = "get"]
    /\ stale' = [stale EXCEPT ![c] = FALSE]
    /\ form' = [form EXCEPT ![c] = NoForm]
    /\ UNCHANGED <<stored, saves>>

toValves(entity) ==
    [pin |-> entity.pin, output |-> entity.output,
     schedules |-> entity.schedules]

(* Mutant: the default carries the number of the next pin.                 *)
defaultValvesForWWW_next(pin) ==
    [pin |-> pin + 1, output |-> DefaultOutput, schedules |-> {}]

defaultValvesForWWW(pin) ==
    [pin |-> pin, output |-> DefaultOutput, schedules |-> {}]

(* Mutant: the loop ends one pin early.                                    *)
Missing_short(rows) ==
    {pin \in 1 .. LastPin - 1 : \A i \in DOMAIN rows : rows[i].pin # pin}

Missing(rows) == {pin \in Pins : \A i \in DOMAIN rows : rows[i].pin # pin}

(* The place of an element in the list sorted by pin; the sort is stable.  *)
Place(list, i) ==
    Cardinality({j \in DOMAIN list : \/ list[j].pin < list[i].pin
                                     \/ list[j].pin = list[i].pin /\ j <= i})

SortedByPin(list) ==
    [k \in DOMAIN list |-> list[CHOOSE i \in DOMAIN list : Place(list, i) = k]]

(* The stored valves and a default for every other pin.                    *)
Listed(rows) ==
    LET missing == SetToSeq(Missing(rows))
    IN  [i \in DOMAIN rows |-> toValves(rows[i])]
            \o [i \in DOMAIN missing |-> defaultValvesForWWW(missing[i])]

toValvesList(rows) == SortedByPin(Listed(rows))

AnswerGet(c) ==
    /\ Loaded(c)
    /\ call[c] = "get"
    /\ form' = [form EXCEPT ![c] =
           [station |-> context[c].station,
            valves |-> toValvesList(context[c].rows)]]
    /\ pc' = [pc EXCEPT ![c] = "form"]
    /\ context' = [context EXCEPT ![c] = NoContext]
    /\ UNCHANGED <<stored, call, stale, saves>>

-----------------------------------------------------------------------------
(* saveStationSettings *)

(* What a client may make of one valve of its form.                        *)
Edited(item) ==
    {[item EXCEPT !.output = o] : o \in Outputs}
    \cup {[item EXCEPT !.schedules = @ \cup {[id |-> NoKey, time |-> t]}] :
            t \in Times}
    \cup {[item EXCEPT !.schedules = @ \ {s}] : s \in item.schedules}
    \cup {[item EXCEPT !.schedules = (@ \ {s}) \cup {[s EXCEPT !.time = t]}] :
            s \in item.schedules, t \in Times}

(* A form is sent as it is or with one change.                             *)
Requests(f) ==
    {[f EXCEPT !.station = name] : name \in Names}
    \cup UNION {{[f EXCEPT !.valves[i] = item] : item \in Edited(f.valves[i])} :
                i \in DOMAIN f.valves}

Save(c) ==
    /\ pc[c] = "form"
    /\ saves < MaxSaves
    /\ saves' = saves + 1
    /\ form' \in {[form EXCEPT ![c] = request] : request \in Requests(form[c])}
    /\ getStationById(c)
    /\ pc' = [pc EXCEPT ![c] = "find valves"]
    /\ call' = [call EXCEPT ![c] = "save"]
    /\ UNCHANGED <<stored, stale>>

(* Mutant: what the request no longer has is not deleted.                  *)
deleteRemovedSchedulers_none(old, requested) == {}

deleteRemovedSchedulers(old, requested) ==
    KeysOf(old) \ (KeysOf(requested) \ {NoKey})

(* Mutant: a schedule without a key is looked for like any other.          *)
updateSchedulerList_strict(old, requested) ==
    KeysOf(requested) \subseteq KeysOf(old)

(* Optional.get throws for a key the valve has no schedule of.             *)
updateSchedulerList(old, requested) ==
    KeysOf(requested) \ {NoKey} \subseteq KeysOf(old)

toSchedulerEntityList(requested) ==
    {[s EXCEPT !.id = NoKey] : s \in requested}

(* updateValves, item by item: an item overwrites the first entity of its  *)
(* pin, and finds the schedules that an earlier item of the pin has put    *)
(* there; without an entity it adds one, which later items do not see.     *)
Item(c, n) == form[c].valves[n]

Matching(c, n) ==
    {i \in DOMAIN context[c].rows : context[c].rows[i].pin = Item(c, n).pin}

Known(c) == {n \in DOMAIN form[c].valves : Matching(c, n) # {}}

Entity(c, n) == Min(Matching(c, n))

OldSchedules(c, n) ==
    LET earlier == {m \in 1 .. n - 1 : Item(c, m).pin = Item(c, n).pin}
    IN  IF earlier = {} THEN context[c].rows[Entity(c, n)].schedules
                        ELSE Item(c, Max(earlier)).schedules

Removed(c, n) == deleteRemovedSchedulers(OldSchedules(c, n), Item(c, n).schedules)

(* A schedule that an earlier item has added has no key to be deleted by.  *)
updateValves(c, n) ==
    /\ NoKey \notin Removed(c, n)
    /\ updateSchedulerList(OldSchedules(c, n), Item(c, n).schedules)

Deleted(c) == UNION {Removed(c, n) : n \in Known(c)}

Updated(c, i) ==
    LET items == {n \in Known(c) : Entity(c, n) = i}
        last == Item(c, Max(items))
    IN  IF items = {} THEN context[c].rows[i]
        ELSE [context[c].rows[i] EXCEPT !.output = last.output,
                                        !.schedules = last.schedules]

Added(c) ==
    LET new == SetToSeq(DOMAIN form[c].valves \ Known(c))
    IN  [a \in DOMAIN new |->
            [Item(c, new[a]) EXCEPT !.schedules = toSchedulerEntityList(@)]]

(* Schedules of which Hibernate finds that they differ from what it loaded *)
Dirty(c) ==
    UNION {{s \in Updated(c, i).schedules :
                s.id # NoKey /\ s \notin context[c].rows[i].schedules} :
            i \in DOMAIN context[c].rows}

(* No item throws; the commit fails when a row to be updated or deleted is *)
(* gone.                                                                   *)
Accepted(c) ==
    /\ \A n \in Known(c) : updateValves(c, n)
    /\ Deleted(c) \cup KeysOf(Dirty(c)) \subseteq DOMAIN schedules

(* A row is written, with all its columns, if the entity has changed.      *)
WrittenValve(c, id) ==
    LET changed == {i \in DOMAIN context[c].rows :
                        /\ context[c].rows[i].id = id
                        /\ Updated(c, i).output # context[c].rows[i].output}
    IN  IF changed = {} THEN valves[id]
        ELSE [valves[id] EXCEPT
                !.output = Updated(c, CHOOSE i \in changed : TRUE).output]

AddedValves(c) ==
    [a \in DOMAIN Added(c) |->
        [pin |-> Added(c)[a].pin, output |-> Added(c)[a].output]]

(* New schedules, with the key of the valve each belongs to.               *)
NewSchedules(valve, items) ==
    {[valve |-> valve, time |-> s.time] : s \in {r \in items : r.id = NoKey}}

AllNewSchedules(c) ==
    (UNION {NewSchedules(context[c].rows[i].id, Updated(c, i).schedules) :
            i \in DOMAIN context[c].rows})
    \cup (UNION {NewSchedules(Len(valves) + a, Added(c)[a].schedules) :
                 a \in DOMAIN Added(c)})

AddedSchedules(c) == SetToSeq(AllNewSchedules(c))

WrittenSchedules(c) ==
    LET added == AddedSchedules(c)
        kept == DOMAIN schedules \ Deleted(c)
        time(k) == IF k \in KeysOf(Dirty(c))
                   THEN (CHOOSE s \in Dirty(c) : s.id = k).time
                   ELSE schedules[k].time
    IN  [k \in kept \cup {lastKey + i : i \in DOMAIN added} |->
            IF k \in kept THEN [schedules[k] EXCEPT !.time = time(k)]
                          ELSE added[k - lastKey]]

EndOfSave(c) ==
    /\ Loaded(c)
    /\ call[c] = "save"
    /\ pc' = [pc EXCEPT ![c] = "form"]
    /\ context' = [context EXCEPT ![c] = NoContext]
    /\ UNCHANGED <<call, form, saves>>

Commit(c) ==
    /\ EndOfSave(c)
    /\ Accepted(c)
    /\ station' = IF form[c].station # context[c].station
                  THEN form[c].station ELSE station
    /\ valves' = [id \in DOMAIN valves |-> WrittenValve(c, id)] \o AddedValves(c)
    /\ schedules' = WrittenSchedules(c)
    /\ lastKey' = lastKey + Len(AddedSchedules(c))
    /\ stale' = [d \in Clients |-> d # c \/ stale[d]]

(* An exception, or the database, ends the transaction without a trace.    *)
Rollback(c) == EndOfSave(c) /\ UNCHANGED <<stored, stale>>

-----------------------------------------------------------------------------
(* A new station, or one for which every valve has been saved before.      *)
Init ==
    /\ station = FirstName
    /\ valves \in {<<>>, [i \in Pins |-> [pin |-> i, output |-> DefaultOutput]]}
    /\ schedules \in UNION {[1 .. n -> [valve : DOMAIN valves, time : Times]] :
                            n \in 0 .. MaxFirst}
    /\ lastKey = Len(schedules)
    /\ pc = [c \in Clients |-> "away"]
    /\ call = [c \in Clients |-> "get"]
    /\ form = [c \in Clients |-> NoForm]
    /\ context = [c \in Clients |-> NoContext]
    /\ stale = [c \in Clients |-> FALSE]
    /\ saves = 0

Next ==
    \E c \in Clients :
        \/ Get(c) \/ Save(c)
        \/ findAllByStationId(c) \/ FindSchedules(c)
        \/ AnswerGet(c) \/ Commit(c) \/ Rollback(c)

Spec == Init /\ [][Next]_vars

-----------------------------------------------------------------------------
(* Every schedule belongs to a stored valve and has a key that the         *)
(* sequence has given out; forms and loaded entities are as in the         *)
(* classes.                                                                *)
TypeOK ==
    /\ station \in Names
    /\ valves \in Seq([pin : Pins, output : Outputs])
    /\ lastKey \in Nat
    /\ DOMAIN schedules \subseteq 1 .. lastKey
    /\ \A k \in DOMAIN schedules :
          schedules[k] \in [valve : DOMAIN valves, time : Times]
    /\ pc \in [Clients -> {"away", "find valves", "find schedules", "form"}]
    /\ call \in [Clients -> {"get", "save"}]
    /\ form \in [Clients -> [station : Names, valves : Seq(ValveItem)]]
    /\ context \in [Clients -> [station : Names, rows : Seq(ValvesEntity),
                                loaded : Nat]]
    /\ stale \in [Clients -> BOOLEAN]
    /\ saves \in 0 .. MaxSaves

OneRow(pin) == \A i, j \in DOMAIN valves :
                  valves[i].pin = pin /\ valves[j].pin = pin => i = j

(* db.sql has UNIQUE(pin, station_id) for the valves.                      *)
OneValvePerPin == \A pin \in Pins : OneRow(pin)

(* A form shows every pin of the site, in order, and as often as there are *)
(* rows for it when no other client's save is newer.                       *)
FormsComplete ==
    \A c \in Clients : pc[c] = "form" =>
        LET list == form[c].valves IN
        /\ {list[i].pin : i \in DOMAIN list} = Pins
        /\ \A i \in 1 .. Len(list) - 1 : list[i].pin <= list[i + 1].pin
        /\ OneValvePerPin => Len(list) = LastPin

(* Nobody is refused what he was given to edit: a save fails only if       *)
(* another client's save is newer than the form, or the station already    *)
(* has two rows for a pin.                                                 *)
SaveAccepted ==
    \A c \in Clients :
        Loaded(c) /\ call[c] = "save" /\ ~stale[c] /\ OneValvePerPin
            => Accepted(c)

(* What a call loaded is what is stored. *)
Current(c) ==
    /\ context[c].station = station
    /\ Len(context[c].rows) = Len(valves)
    /\ \A i \in DOMAIN context[c].rows :
          LET row == context[c].rows[i] IN
          /\ valves[row.id] = [pin |-> row.pin, output |-> row.output]
          /\ row.schedules = SchedulesOf(row.id)

TimesOf(pin) == {schedules[k].time :
                    k \in {j \in DOMAIN schedules :
                              valves[schedules[j].valve].pin = pin}}

StoredAs(f) ==
    /\ station = f.station
    /\ \A i \in DOMAIN f.valves :
          LET item == f.valves[i] IN
          /\ \E v \in DOMAIN valves :
                valves[v] = [pin |-> item.pin, output |-> item.output]
          /\ TimesOf(item.pin) = {s.time : s \in item.schedules}
          /\ Cardinality({k \in DOMAIN schedules :
                             valves[schedules[k].valve].pin = item.pin})
                = Cardinality(item.schedules)

(* A save that nobody disturbs stores the form and nothing else: entries   *)
(* are kept, changed, added and removed as in the form, also if the form   *)
(* is old, or is sent a second time.                                       *)
SavedAsRequested ==
    [][ \A c \in Clients :
          Commit(c) /\ Current(c) /\ OneValvePerPin => StoredAs(form[c])' ]_vars
=============================================================================
