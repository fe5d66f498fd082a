---------------------------- MODULE Configuration ----------------------------
(***************************************************************************)
(* The way of a configuration through the station: the chunks of an MQTT   *)
(* message are assembled in a static buffer by mqtt_event_handler, the     *)
(* parsed tree is handed to configuration_receiver_task_code as the value  *)
(* of a task notification, the receiver takes over the measuring period    *)
(* and frees the tree, and period_timer_callback counts minutes against    *)
(* that period. What "valves" does is in Watering.                         *)
(***************************************************************************)
EXTENDS Naturals, Sequences

CONSTANTS
    Messages,        \* what the server may publish
    Periods,         \* "period" of a message the units of another one complete
    MaxDeliveries,   \* bound: messages the broker begins to deliver
    Nothing          \* a null pointer, a missing property, memory unwritten

(* A message of so many units of length: "json" is one complete object,    *)
(* and perhaps spaces; "open" begins one and ends before it is complete;   *)
(* "garbage" has a unit on which cJSON fails; what has no length is        *)
(* "empty".                                                                *)
Message == [size : Nat, form : {"json", "open", "garbage", "empty"},
            period : Nat \cup {Nothing}]

ASSUME ConfigurationAssumption ==
    /\ Messages \subseteq Message
    /\ \A m \in Messages : m.size = 0 <=> m.form = "empty"
    /\ Periods \subseteq Nat \cup {Nothing}
    /\ MaxDeliveries \in Nat
    /\ Nothing \notin Nat
    /\ Nothing \notin [id : Nat, of : Messages, at : Nat]
    /\ Nothing \notin [id : Nat, of : Messages, period : Nat \cup {Nothing}]

DEFAULT_MEASUREMENT_PERIOD == 1

VARIABLES
    deliveries,          \* messages begun, each one's number is its identity
    incoming, offset,    \* the message on the wire and current_data_offset
    buffer, buffer_size, \* statics of mqtt_event_handler
    note,                \* the receiver's notification: pending and value
    heap,                \* trees parsed and not freed
    json, rpc,           \* the receiver
    measurement_period,
    received,            \* EVT_CONFIG_RECEIVED is set
    minutes_elapsed,     \* static of the timer's callback
    parsed, applied      \* history: last message parsed, those applied

wireVars  == <<deliveries, incoming, offset, buffer, buffer_size>>
recvVars  == <<json, rpc, measurement_period, received>>
timerVars == <<minutes_elapsed>>
vars == <<wireVars, note, heap, recvVars, timerVars, parsed, applied>>

(* A tree has a period, or none, and remembers the message the text it was *)
(* parsed from begins with.                                                *)
Tree == [id : 1 .. MaxDeliveries, of : Messages, period : Nat \cup {Nothing}]

Unit == [id : 1 .. MaxDeliveries, of : Messages, at : Nat] \cup {Nothing}

-----------------------------------------------------------------------------
(* The broker and the connection. *)

BeginDelivery ==
    /\ incoming = Nothing
    /\ deliveries < MaxDeliveries
    /\ deliveries' = deliveries + 1
    /\ incoming' \in Messages
    /\ offset' = 0
    /\ UNCHANGED <<buffer, buffer_size, note, heap, recvVars, timerVars, parsed,
                   applied>>

(* The connection is lost; the rest of the message never comes.            *)
CutDelivery ==
    /\ incoming # Nothing
    /\ incoming' = Nothing
    /\ UNCHANGED <<deliveries, offset, buffer, buffer_size, note, heap, recvVars,
                   timerVars, parsed, applied>>

-----------------------------------------------------------------------------
(* MQTT_EVENT_DATA. *)

Reallocated(cells, n) ==
    [k \in 1 .. n |-> IF k <= Len(cells) THEN cells[k] ELSE Nothing]

(* Mutant: every chunk is written at the start of the buffer.              *)
Received_atStart(cells, n) ==
    [k \in 1 .. Len(cells) |->
        IF k <= n THEN [id |-> deliveries, of |-> incoming, at |-> k]
                  ELSE cells[k]]

Received(cells, n) ==
    [k \in 1 .. Len(cells) |->
        IF offset < k /\ k <= offset + n
        THEN [id |-> deliveries, of |-> incoming, at |-> k] ELSE cells[k]]

(* The block begins with a whole message.                                  *)
Whole(cells) ==
    \A k \in 1 .. cells[1].of.size :
        k <= Len(cells) /\ cells[k] = [cells[1] EXCEPT !.at = k]

(* What cJSON_ParseWithLength may make of the whole block. It parses the   *)
(* value the block begins with and ignores what follows; but a message     *)
(* that is not complete goes on in whatever follows it, the tail of longer *)
(* messages before, and the two may or may not make one value.             *)
Parses(cells) ==
    IF cells = <<>> \/ cells[1] = Nothing THEN {Nothing}
    ELSE LET first == cells[1]
             tree(period) == [id |-> first.id, of |-> first.of, period |-> period]
         IN  IF Whole(cells) /\ first.of.form = "json"
             THEN {tree(first.of.period)}
             ELSE IF Whole(cells) /\ (\/ first.of.form = "garbage"
                                     \/ first.of.size = Len(cells))
             THEN {Nothing}
             ELSE {tree(period) : period \in Periods} \cup {Nothing}

(* Mutant: eSetValueWithoutOverwrite.                                      *)
Notified_withoutOverwrite(tree) ==
    IF note.pending THEN note ELSE [pending |-> TRUE, value |-> tree]

(* xTaskNotify with eSetValueWithOverwrite: what is pending is replaced.   *)
Notified(tree) == [pending |-> TRUE, value |-> tree]

mqtt_last_chunk_of_message(n) == offset + n = incoming.size

DataEvent(n) ==
    LET total == incoming.size
        block == Received(IF total > buffer_size THEN Reallocated(buffer, total)
                                                 ELSE buffer, n)
    IN
    /\ offset + n <= total
    /\ buffer' = block
    /\ buffer_size' = IF total > buffer_size THEN total ELSE buffer_size
    /\ IF mqtt_last_chunk_of_message(n)
       THEN /\ \E tree \in Parses(block) :
                  /\ note' = Notified(tree)
                  /\ heap' = heap \cup ({tree} \ {Nothing})
                  /\ parsed' = tree
            /\ incoming' = Nothing
            /\ offset' = 0
       ELSE /\ offset' = offset + n
            /\ UNCHANGED <<note, heap, parsed, incoming>>
    /\ UNCHANGED <<deliveries, recvVars, timerVars, applied>>

Data ==
    /\ incoming # Nothing
    /\ \E n \in 0 .. incoming.size : (n = 0 <=> incoming.size = 0) /\ DataEvent(n)

-----------------------------------------------------------------------------
(* configuration_receiver_task_code. *)

(* Mutant: the notification stays pending.                                 *)
Wait_repeats ==
    /\ rpc = "wait"
    /\ note.pending
    /\ UNCHANGED note
    /\ json' = note.value
    /\ rpc' = IF note.value = Nothing THEN "wait" ELSE "period"
    /\ UNCHANGED <<wireVars, heap, measurement_period, received, timerVars,
                   parsed, applied>>

(* Mutant: a null pointer leaves the previous tree in place.               *)
Wait_keeps ==
    /\ rpc = "wait"
    /\ note.pending
    /\ note' = [note EXCEPT !.pending = FALSE]
    /\ json' = IF note.value = Nothing THEN json ELSE note.value
    /\ rpc' = IF json' = Nothing THEN "wait" ELSE "period"
    /\ UNCHANGED <<wireVars, heap, measurement_period, received, timerVars,
                   parsed, applied>>

(* A message that could not be parsed notifies a null pointer.             *)
Wait ==
    /\ rpc = "wait"
    /\ note.pending
    /\ note' = [note EXCEPT !.pending = FALSE]
    /\ json' = note.value
    /\ rpc' = IF note.value = Nothing THEN "wait" ELSE "period"
    /\ UNCHANGED <<wireVars, heap, measurement_period, received, timerVars,
                   parsed, applied>>

(* Mutant: the period keeps all its bits.                                  *)
ToUint8_wide(number) == number

(* double to uint8_t: beyond the range this is undefined in C; the build's *)
(* conversion goes through 32 bits and keeps the low eight.                *)
ToUint8(number) == number % 256

SetPeriod ==
    /\ rpc = "period"
    /\ IF json.period = Nothing
       THEN UNCHANGED measurement_period
       ELSE measurement_period' = ToUint8(json.period)
    /\ rpc' = "valves"
    /\ UNCHANGED <<wireVars, note, heap, json, received, timerVars, parsed,
                   applied>>

Configure ==
    /\ rpc = "valves"
    /\ applied' = Append(applied, json)
    /\ rpc' = "delete"
    /\ UNCHANGED <<wireVars, note, heap, json, measurement_period, received,
                   timerVars, parsed>>

Delete ==
    /\ rpc = "delete"
    /\ heap' = heap \ {json}
    /\ received' = TRUE
    /\ rpc' = "wait"
    /\ UNCHANGED <<wireVars, note, json, measurement_period, timerVars, parsed,
                   applied>>

Receiver == Wait \/ SetPeriod \/ Configure \/ Delete

-----------------------------------------------------------------------------
(* Mutant: the counter is compared for equality; past every period of the  *)
(* run it need not be counted any more.                                    *)
PeriodTimer_equal ==
    /\ received
    /\ minutes_elapsed' = IF minutes_elapsed + 1 = measurement_period THEN 0
                          ELSE IF minutes_elapsed < 4 THEN minutes_elapsed + 1
                          ELSE minutes_elapsed
    /\ UNCHANGED <<wireVars, note, heap, recvVars, parsed, applied>>

(* The period timer runs once the first configuration was received.        *)
PeriodTimer ==
    /\ received
    /\ minutes_elapsed' = IF minutes_elapsed + 1 >= measurement_period
                          THEN 0 ELSE minutes_elapsed + 1
    /\ UNCHANGED <<wireVars, note, heap, recvVars, parsed, applied>>

Init ==
    /\ deliveries = 0 /\ incoming = Nothing /\ offset = 0
    /\ buffer = <<>> /\ buffer_size = 0
    /\ note = [pending |-> FALSE, value |-> Nothing]
    /\ heap = {}
    /\ json = Nothing /\ rpc = "wait"
    /\ measurement_period = DEFAULT_MEASUREMENT_PERIOD
    /\ received = FALSE
    /\ minutes_elapsed = 0
    /\ parsed = Nothing /\ applied = <<>>

Next == BeginDelivery \/ CutDelivery \/ Data \/ Receiver \/ PeriodTimer

Spec == Init /\ [][Next]_vars

(* The receiver runs whenever it can and the timer is auto-reloading; no   *)
(* message has to come, and one that began need not be completed.          *)
FairSpec == Spec /\ WF_vars(Receiver) /\ WF_vars(PeriodTimer)

-----------------------------------------------------------------------------
(* Buffer, slot and heap hold what mqtt_event_handler and the two tasks    *)
(* put there; the period stays within its eight bits.                      *)
TypeOK ==
    /\ deliveries \in 0 .. MaxDeliveries
    /\ incoming \in Messages \cup {Nothing} /\ offset \in Nat
    /\ buffer \in Seq(Unit) /\ buffer_size = Len(buffer)
    /\ note \in [pending : BOOLEAN, value : Tree \cup {Nothing}]
    /\ heap \subseteq Tree
    /\ json \in Tree \cup {Nothing}
    /\ rpc \in {"wait", "period", "valves", "delete"}
    /\ measurement_period \in 0 .. 255
    /\ received \in BOOLEAN
    /\ minutes_elapsed \in 0 .. 255
    /\ parsed \in Tree \cup {Nothing} /\ applied \in Seq(Tree)

(* A tree is handed over by its bare address: while the receiver works on  *)
(* one, or one waits to be taken, it is allocated, and the two are not the *)
(* same, so that none is used after, or freed twice by, a cJSON_Delete.    *)
NoDanglingTree ==
    /\ rpc # "wait" => json \in heap
    /\ note.pending /\ note.value # Nothing => note.value \in heap
    /\ rpc # "wait" /\ note.pending => json # note.value

(* What is parsed begins with the message whose last chunk has just        *)
(* arrived, in spite of older and longer messages, and of messages cut     *)
(* short, in the same buffer, which is parsed to its end and not to the    *)
(* message's (station.c:506). A complete configuration is read as it was   *)
(* sent, and what cJSON fails on is given up. A message that ends too      *)
(* early is given up too, unless the buffer is longer than the message:    *)
(* what older messages left there may complete it, and it is then applied. *)
(* It takes that every message has something to overwrite the buffer with. *)
ParsesWhatArrived ==
    [][note' # note /\ note'.pending =>
          /\ note'.value # Nothing =>
                note'.value.id = deliveries /\ note'.value.of = incoming
          /\ incoming.form = "json" =>
                note'.value # Nothing /\ note'.value.period = incoming.period
          /\ incoming.form = "garbage" => note'.value = Nothing
          /\ incoming.form = "open" /\ note'.value # Nothing =>
                buffer_size > incoming.size]_vars

(* Notifications overwrite each other, yet configurations are never        *)
(* applied out of order, nor one twice.                                    *)
AppliedInOrder ==
    \A i \in 1 .. Len(applied) - 1 : applied[i].id < applied[i + 1].id

(* If the last message of all that arrive whole can be parsed, it is the   *)
(* configuration in force in the end, whatever it overtook on the way.     *)
LastIsApplied ==
    <>[](parsed # Nothing => applied # <<>> /\ applied[Len(applied)] = parsed)

(* Once configured the station measures again and again: for a period that *)
(* was shortened below the minutes already elapsed, for the period 0 and   *)
(* for one that does not fit the eight bits it is kept in.                 *)
MeasuresForever == received ~> []<>(minutes_elapsed = 0)
=============================================================================
