---------------------------- MODULE Measurements ----------------------------
(***************************************************************************)
(* The measuring round of the station: measurements_task_code in station.c *)
(* (the master) and its three workers in components/measurements. The      *)
(* master walks the lines of the multiplexer; on every line the analog and *)
(* the DHT11 worker read what is connected there, while the 1-Wire worker  *)
(* searches and reads its own bus. They synchronise with FreeRTOS task     *)
(* notifications only: the workers hand the master a pointer each, and     *)
(* the periodic timer wakes the master on the index that also carries the  *)
(* analog worker's pointer.                                                *)
(*                                                                         *)
(* What is measured is abstracted to where and when it was measured.       *)
(***************************************************************************)
EXTENDS Naturals, Sequences

CONSTANTS
    LINES,             \* lines of the multiplexer
    CHANNELS,          \* channels of the ADC, each on its own multiplexer
    Probes,            \* DS18B20 probes that may be on the 1-Wire bus
    ONE_WIRE_MAX_SENSORS_COUNT,
    MaxTriggers,       \* bound: expiries of the measuring period
    Bounds,            \* surroundings of a behaviour, one of which holds
    Garbage            \* the content of memory nobody wrote

Line == 0 .. LINES - 1
Channel == 0 .. CHANNELS - 1
Round == 1 .. MaxTriggers

(* What surrounds a behaviour: the expiries of the period, the ROM searches *)
(* a bus error breaks, the transactions with a sensor that fail, the probes *)
(* on the bus and what may be on a line of a DHT11 (see Callback).          *)
Surroundings == [triggers : 0 .. MaxTriggers, search : Nat, read : Nat,
                 probes : SUBSET Probes,
                 answers : SUBSET {"answers", "absent", "silent"}]

(* What was sampled: where and when. A temperature comes from the memory   *)
(* of a probe, a reading of it is listed with the address of a probe.      *)
Sample == [line : Line, round : Round] \cup {Garbage}
Temperature == [address : Probes, round : 0 .. MaxTriggers] \cup {Garbage}
Reading == [address : Probes, temperature : Temperature]
Result == [available : BOOLEAN, reading : Sample]

ASSUME MeasurementsAssumption ==
    /\ LINES \in Nat \ {0}
    /\ CHANNELS \in Nat \ {0}
    /\ ONE_WIRE_MAX_SENSORS_COUNT \in Nat \ {0}
    /\ MaxTriggers \in Nat
    /\ Bounds \subseteq Surroundings
    /\ Garbage \notin Reading

VARIABLES
    bounds,                        \* one of Bounds, constant
    triggers, errors,              \* what has happened of it
    swallowed,                     \* history: expiries cleared with a pointer
    overlong,                      \* the search of this round was broken
    late,                          \* this round began between two expiries
    failed,                        \* history: what failed in this round
    note,                          \* the master's notification slots 0, 1, 2
    wakes,                         \* workers whose slot 0 is not zero
    mpc, line, round,              \* the master: place, index i, timestamp
    mux,                           \* the line the multiplexer selects
    analog_readings, dht11_results, message,
    apc, channel, reg, values,     \* the analog worker and its result
    dpc, rmt_note, num_symbols, capture, dht11_result,     \* DHT11 worker
    opc, found, measured, temperature, readings, num_readings, scratchpad
                                   \* the 1-Wire worker and the probes' memory

expiryVars == <<bounds, triggers, swallowed, overlong, late>>
envVars    == <<expiryVars, errors, failed>>
masterVars == <<mpc, line, round, mux, analog_readings, dht11_results, message>>
analogVars == <<apc, channel, reg, values>>
dht11Vars  == <<dpc, rmt_note, num_symbols, capture, dht11_result>>
owVars     == <<opc, found, measured, temperature, readings, num_readings,
                scratchpad>>
vars == <<envVars, note, wakes, masterVars, analogVars, dht11Vars, owVars>>

-----------------------------------------------------------------------------
(* A notification slot. Its value is a pointer, to which xTaskNotifyGive   *)
(* may have added; eSetValueWithoutOverwrite does nothing to a slot that   *)
(* is still pending, and a successful wait clears the slot.                *)
Slot == [pending : BOOLEAN, pointer : BOOLEAN, gives : 0 .. MaxTriggers]

Empty == [pending |-> FALSE, pointer |-> FALSE, gives |-> 0]

Given(slot) == [slot EXCEPT !.pending = TRUE, !.gives = @ + 1]

WithPointer(slot) ==
    IF slot.pending THEN slot
                    ELSE [pending |-> TRUE, pointer |-> TRUE, gives |-> 0]

IsPointer(slot) == slot.pointer

ANALOG_MEASUREMENTS_NOTIFICATION_INDEX == 0
DHT11_MEASUREMENTS_NOTIFICATION_INDEX == 1
(* Mutant: the 1-Wire worker shares the slot of the DHT11 worker.          *)
ONE_WIRE_INDEX_shared == 1

ONE_WIRE_MEASUREMENTS_NOTIFICATION_INDEX == 2

(* Mutant: the wait is not repeated after its timeout.                     *)
Waits_timeout(slot) == note' = [note EXCEPT ![slot] = Empty]

Waits(slot) == note[slot].pending /\ note' = [note EXCEPT ![slot] = Empty]

HandsOver(slot) == note' = [note EXCEPT ![slot] = WithPointer(@)]

(* What the ADC or the DHT11 sees now.                                     *)
Here == [line |-> mux, round |-> round]

NoMessage == [round |-> 0]

(* A transaction with a sensor succeeds, or it fails and changes nothing;  *)
(* the tasks look at no result.                                            *)
Transaction(sensor, Success, Nothing) ==
    \/ Success /\ UNCHANGED <<errors, failed>>
    \/ /\ errors.read < bounds.read
       /\ errors' = [errors EXCEPT !.read = @ + 1]
       /\ failed' = failed \cup {sensor}
       /\ Nothing

-----------------------------------------------------------------------------
(* The timer. A round takes seconds and a period at least a minute, so     *)
(* the master is back at its first wait when the timer expires -- unless   *)
(* a ROM search was broken and repeated, which has no limit of time: the   *)
(* timer then expires while the master waits for the 1-Wire worker, and    *)
(* the round that follows begins at any moment between two expiries.       *)
Waiting == mpc = "take" /\ ~note[0].pending

Trigger ==
    /\ triggers < bounds.triggers
    /\ mpc # "halted"
    /\ Waiting \/ late \/ (overlong /\ mpc = "line" /\ line = LINES)
    /\ triggers' = triggers + 1
    /\ late' = ~Waiting
    /\ note' = [note EXCEPT ![0] = Given(@)]
    /\ UNCHANGED <<bounds, swallowed, overlong, errors, failed, wakes,
                   masterVars, analogVars, dht11Vars, owVars>>

-----------------------------------------------------------------------------
(* The master. *)

BeginRound ==
    /\ mpc = "take"
    /\ Waits(0)
    /\ round' = triggers
    /\ overlong' = FALSE
    /\ failed' = {}
    /\ wakes' = wakes \cup {"onewire"}
    /\ line' = 0
    /\ mpc' = "line"
    /\ UNCHANGED <<bounds, triggers, swallowed, late, errors, mux,
                   analog_readings, dht11_results, message, analogVars,
                   dht11Vars, owVars>>

SelectLine ==
    /\ mpc = "line"
    /\ line < LINES
    /\ mux' = line
    /\ wakes' = wakes \cup {"dht11", "analog"}
    /\ mpc' = "analog"
    /\ UNCHANGED <<envVars, note, line, round, analog_readings, dht11_results,
                   message, analogVars, dht11Vars, owVars>>

(* The values the master reads through the pointer when it has moved by a  *)
(* number of bytes: the ESP32 loads a word from any address of its DRAM.   *)
(* Bytes of two neighbours, or of what lies behind them, are Garbage.      *)
Through(moved) ==
    [c \in Channel |->
        IF moved % 4 = 0 /\ c + moved \div 4 < CHANNELS
        THEN values[c + moved \div 4] ELSE Garbage]

(* Mutant: the pointer of the first wait is kept and not waited for again. *)
CopyAnalog_unsynchronised ==
    /\ mpc = "analog"
    /\ UNCHANGED note
    /\ analog_readings' = [analog_readings EXCEPT ![line] = values]
    /\ mpc' = "dht11"
    /\ UNCHANGED <<envVars, wakes, line, round, mux, dht11_results, message,
                   analogVars, dht11Vars, owVars>>

(* The wait takes the worker's pointer. Every expiry that came after it    *)
(* has moved it on by a byte, and is cleared together with it.             *)
CopyAnalog ==
    /\ mpc = "analog"
    /\ IsPointer(note[ANALOG_MEASUREMENTS_NOTIFICATION_INDEX])
    /\ Waits(ANALOG_MEASUREMENTS_NOTIFICATION_INDEX)
    /\ LET moved == note[ANALOG_MEASUREMENTS_NOTIFICATION_INDEX].gives IN
       /\ analog_readings' = [analog_readings EXCEPT ![line] = Through(moved)]
       /\ swallowed' = swallowed \cup (triggers - moved + 1 .. triggers)
       /\ failed' = IF moved = 0 THEN failed
                               ELSE failed \cup {<<"pointer", line>>}
    /\ mpc' = "dht11"
    /\ UNCHANGED <<bounds, triggers, overlong, late, errors, wakes, line,
                   round, mux, dht11_results, message, analogVars, dht11Vars,
                   owVars>>

(* An expiry came before the worker's pointer, which is then not stored:   *)
(* the value of the slot is a small number. Nothing is mapped there, and   *)
(* the exception of the load halts the CPU (sdkconfig:786).                *)
Panic ==
    /\ mpc = "analog"
    /\ ~IsPointer(note[ANALOG_MEASUREMENTS_NOTIFICATION_INDEX])
    /\ Waits(ANALOG_MEASUREMENTS_NOTIFICATION_INDEX)
    /\ mpc' = "halted" /\ apc' = "halted" /\ dpc' = "halted" /\ opc' = "halted"
    /\ UNCHANGED <<envVars, wakes, line, round, mux, analog_readings,
                   dht11_results, message, channel, reg, values, rmt_note,
                   num_symbols, capture, dht11_result, found, measured,
                   temperature, readings, num_readings, scratchpad>>

CopyDht11 ==
    /\ mpc = "dht11"
    /\ Waits(DHT11_MEASUREMENTS_NOTIFICATION_INDEX)
    /\ dht11_results' = [dht11_results EXCEPT ![line] = dht11_result]
    /\ line' = line + 1
    /\ mpc' = "line"
    /\ UNCHANGED <<envVars, wakes, round, mux, analog_readings, message,
                   analogVars, dht11Vars, owVars>>

(* Mutant: all of the block is formatted, not only this round's readings.  *)
create_measurement_message_block ==
    [round   |-> round,
     analog  |-> analog_readings,
     dht11   |-> [l \in {k \in Line : dht11_results[k].available} |->
                     dht11_results[l].reading],
     ds18b20 |-> readings,
     failed  |-> failed]

(* Only the DHT11 readings that are available go into the message. The     *)
(* sensors that failed are history, the message does not name them.        *)
create_measurement_message ==
    [round   |-> round,
     analog  |-> analog_readings,
     dht11   |-> [l \in {k \in Line : dht11_results[k].available} |->
                     dht11_results[l].reading],
     ds18b20 |-> SubSeq(readings, 1, num_readings),
     failed  |-> failed]

Send ==
    /\ mpc = "line"
    /\ line = LINES
    /\ Waits(ONE_WIRE_MEASUREMENTS_NOTIFICATION_INDEX)
    /\ message' = create_measurement_message
    /\ mpc' = "take"
    /\ UNCHANGED <<envVars, wakes, line, round, mux, analog_readings,
                   dht11_results, analogVars, dht11Vars, owVars>>

Master == BeginRound \/ SelectLine \/ CopyAnalog \/ Panic \/ CopyDht11 \/ Send

-----------------------------------------------------------------------------
(* The analog worker: one conversion after the other, then its pointer.    *)

AnalogTake ==
    /\ apc = "take"
    /\ "analog" \in wakes
    /\ wakes' = wakes \ {"analog"}
    /\ channel' = 0
    /\ apc' = "sample"
    /\ UNCHANGED <<envVars, note, masterVars, reg, values, dht11Vars, owVars>>

(* Mutant: one channel too many is sampled.                                *)
AnalogSample_overrun ==
    /\ apc = "sample"
    /\ channel <= CHANNELS
    /\ Transaction(<<"analog", mux>>, reg' = Here, UNCHANGED reg)
    /\ values' = [values EXCEPT ![channel] = reg']
    /\ channel' = channel + 1
    /\ UNCHANGED <<expiryVars, note, wakes, masterVars, apc,
                   dht11Vars, owVars>>

(* A failed ADS1115_ReadRegister leaves reg as it was, and the value is    *)
(* made from it all the same.                                              *)
AnalogSample ==
    /\ apc = "sample"
    /\ channel < CHANNELS
    /\ Transaction(<<"analog", mux>>, reg' = Here, UNCHANGED reg)
    /\ values' = [values EXCEPT ![channel] = reg']
    /\ channel' = channel + 1
    /\ UNCHANGED <<expiryVars, note, wakes, masterVars, apc,
                   dht11Vars, owVars>>

AnalogNotify ==
    /\ apc = "sample"
    /\ channel = CHANNELS
    /\ HandsOver(ANALOG_MEASUREMENTS_NOTIFICATION_INDEX)
    /\ apc' = "take"
    /\ UNCHANGED <<envVars, wakes, masterVars, channel, reg, values, dht11Vars,
                   owVars>>

Analog == AnalogTake \/ AnalogSample \/ AnalogNotify

-----------------------------------------------------------------------------
(* The DHT11 worker. *)

STRAY == 1      \* symbols of the start pulse alone

(* Mutant: any reception counts as an answer.                              *)
FRAME_any == STRAY

FRAME == 43     \* symbols of a complete answer

(* DHT11_Read: the receiver is armed and the start pulse is sent.          *)
Dht11Read ==
    /\ dpc = "take"
    /\ "dht11" \in wakes
    /\ wakes' = wakes \ {"dht11"}
    /\ dpc' = "listen"
    /\ UNCHANGED <<envVars, note, masterVars, analogVars, rmt_note, num_symbols,
                   capture, dht11_result, owVars>>

(* The interrupt at the end of a reception: the sensor "answers", or it is *)
(* "absent" and only the start pulse was seen. A line that is "silent"     *)
(* shows no edge at all and there is no interrupt.                         *)
Callback ==
    /\ dpc = "listen"
    /\ ~rmt_note
    /\ rmt_note' = TRUE
    /\ \/ /\ "answers" \in bounds.answers
          /\ num_symbols' = FRAME
          /\ capture' = Here
       \/ /\ "absent" \in bounds.answers
          /\ num_symbols' = STRAY
          /\ UNCHANGED capture
    /\ UNCHANGED <<envVars, note, wakes, masterVars, analogVars, dpc,
                   dht11_result, owVars>>

(* The wait ends with the interrupt, or after 60 ms without one.           *)
Dht11Parse ==
    /\ dpc = "listen"
    /\ \/ rmt_note /\ UNCHANGED failed
       \/ /\ ~rmt_note /\ "silent" \in bounds.answers
          /\ failed' = failed \cup {<<"dht11", mux>>}
    /\ rmt_note' = FALSE
    /\ dht11_result' = [available |-> num_symbols = FRAME,
                        reading   |-> IF num_symbols = FRAME
                                      THEN capture ELSE dht11_result.reading]
    /\ dpc' = "notify"
    /\ UNCHANGED <<expiryVars, errors, note, wakes, masterVars, analogVars,
                   num_symbols, capture, owVars>>

Dht11Notify ==
    /\ dpc = "notify"
    /\ HandsOver(DHT11_MEASUREMENTS_NOTIFICATION_INDEX)
    /\ dpc' = "take"
    /\ UNCHANGED <<envVars, wakes, masterVars, analogVars, rmt_note, num_symbols,
                   capture, dht11_result, owVars>>

Dht11 == Dht11Read \/ Dht11Parse \/ Dht11Notify

-----------------------------------------------------------------------------
(* The 1-Wire worker. *)

OneWireTake ==
    /\ opc = "take"
    /\ "onewire" \in wakes
    /\ wakes' = wakes \ {"onewire"}
    /\ found' = <<>>
    /\ opc' = "search"
    /\ UNCHANGED <<envVars, note, masterVars, analogVars, dht11Vars, measured,
                   temperature, readings, num_readings, scratchpad>>

Room == Len(found) < ONE_WIRE_MAX_SENSORS_COUNT

FoundAlready(p) == \E i \in 1 .. Len(found) : found[i] = p

SearchNext ==
    /\ opc = "search"
    /\ Room
    /\ \E p \in bounds.probes : ~FoundAlready(p) /\ found' = Append(found, p)
    /\ UNCHANGED <<envVars, note, wakes, masterVars, analogVars, dht11Vars, opc,
                   measured, temperature, readings, num_readings, scratchpad>>

(* Any error but ESP_ERR_NOT_FOUND: the search is tried again.             *)
SearchError ==
    /\ opc = "search"
    /\ Room
    /\ errors.search < bounds.search
    /\ errors' = [errors EXCEPT !.search = @ + 1]
    /\ overlong' = TRUE
    /\ UNCHANGED <<bounds, triggers, swallowed, late, failed, note, wakes,
                   masterVars, analogVars, dht11Vars, opc, found, measured,
                   temperature, readings, num_readings, scratchpad>>

(* Mutant: one probe more than last time is taken to fit.                  *)
Enlarged_offByOne(block, n, before) ==
    IF n > before + 1
    THEN [i \in 1 .. n |-> IF i <= Len(block) THEN block[i] ELSE Garbage]
    ELSE block

(* realloc to the number of probes, if that is more than last time.        *)
Enlarged(block, n, before) ==
    IF n > before
    THEN [i \in 1 .. n |-> IF i <= Len(block) THEN block[i] ELSE Garbage]
    ELSE block

(* No probe is left, or none of those left takes part, or there are enough.*)
SearchEnd ==
    /\ opc = "search"
    /\ readings' = Enlarged(readings, Len(found), num_readings)
    /\ num_readings' = Len(found)
    /\ measured' = 0
    /\ opc' = "convert"
    /\ UNCHANGED <<envVars, note, wakes, masterVars, analogVars, dht11Vars, found,
                   temperature, scratchpad>>

Probe == found[measured + 1]

(* Both functions return early when a reset, a write or a read fails.      *)
Convert ==
    /\ opc = "convert"
    /\ measured < num_readings
    /\ Transaction(<<"ds18b20", Probe>>,
                   scratchpad' = [scratchpad EXCEPT ![Probe] = round],
                   UNCHANGED scratchpad)
    /\ opc' = "get"
    /\ UNCHANGED <<expiryVars, note, wakes, masterVars, analogVars,
                   dht11Vars, found, measured, temperature, readings,
                   num_readings>>

(* A failed ds18b20_get_temperature leaves the local variable as it was,   *)
(* and the reading is made from it all the same.                           *)
GetTemperature ==
    /\ opc = "get"
    /\ Transaction(<<"ds18b20", Probe>>,
                   temperature' = [address |-> Probe, round |-> scratchpad[Probe]],
                   UNCHANGED temperature)
    /\ readings' = [readings EXCEPT ![measured + 1] =
                       [address |-> Probe, temperature |-> temperature']]
    /\ measured' = measured + 1
    /\ opc' = "convert"
    /\ UNCHANGED <<expiryVars, note, wakes, masterVars, analogVars,
                   dht11Vars, found, num_readings, scratchpad>>

OneWireNotify ==
    /\ opc = "convert"
    /\ measured = num_readings
    /\ HandsOver(ONE_WIRE_MEASUREMENTS_NOTIFICATION_INDEX)
    /\ opc' = "take"
    /\ UNCHANGED <<envVars, wakes, masterVars, analogVars, dht11Vars, found,
                   measured, temperature, readings, num_readings, scratchpad>>

OneWire ==
    \/ OneWireTake \/ SearchNext \/ SearchError \/ SearchEnd
    \/ Convert \/ GetTemperature \/ OneWireNotify

-----------------------------------------------------------------------------
Init ==
    /\ bounds \in Bounds
    /\ triggers = 0 /\ swallowed = {} /\ errors = [search |-> 0, read |-> 0]
    /\ overlong = FALSE /\ late = FALSE /\ failed = {}
    /\ note = [slot \in 0 .. 2 |-> Empty]
    /\ wakes = {}
    /\ mpc = "take" /\ line = 0 /\ round = 0 /\ mux = 0
    /\ analog_readings = [l \in Line |-> Garbage]
    /\ dht11_results = [l \in Line |-> Garbage]
    /\ message = NoMessage
    /\ apc = "take" /\ channel = 0 /\ reg = Garbage
    /\ values = [c \in Channel |-> Garbage]
    /\ dpc = "take" /\ rmt_note = FALSE /\ num_symbols = 0 /\ capture = Garbage
    /\ dht11_result = [available |-> FALSE, reading |-> Garbage]
    /\ opc = "take" /\ found = <<>> /\ measured = 0 /\ temperature = Garbage
    /\ readings = <<>> /\ num_readings = 0
    /\ scratchpad = [p \in Probes |-> 0]

Next == Trigger \/ Master \/ Analog \/ Callback \/ Dht11 \/ OneWire

Spec == Init /\ [][Next]_vars

(* No task spins or holds anything another one needs, every wait of the    *)
(* master is repeated until it succeeds, and an armed receiver interrupts. *)
(* A search that never ends and a timer that stops are not excluded.       *)
FairSpec ==
    /\ Spec
    /\ WF_vars(Master) /\ WF_vars(Analog) /\ WF_vars(Callback)
    /\ WF_vars(Dht11) /\ WF_vars(OneWire)

-----------------------------------------------------------------------------
(* Program counters, the readings of the master and the results its        *)
(* workers lend it have the types of the C structures.                     *)
TypeOK ==
    /\ triggers \in 0 .. MaxTriggers /\ swallowed \subseteq Round
    /\ overlong \in BOOLEAN /\ late \in BOOLEAN
    /\ bounds \in Bounds
    /\ errors \in [search : 0 .. bounds.search, read : 0 .. bounds.read]
    /\ note \in [0 .. 2 -> Slot]
    /\ wakes \subseteq {"analog", "dht11", "onewire"}
    /\ mpc \in {"take", "line", "analog", "dht11", "halted"}
    /\ line \in 0 .. LINES /\ round \in 0 .. MaxTriggers /\ mux \in Line
    /\ analog_readings \in [Line -> [Channel -> Sample] \cup {Garbage}]
    /\ dht11_results \in [Line -> Result \cup {Garbage}]
    /\ message.round \in 0 .. MaxTriggers
    /\ failed \subseteq ({"analog", "dht11", "pointer"} \X Line)
                     \cup ({"ds18b20"} \X Probes)
    /\ apc \in {"take", "sample", "halted"} /\ channel \in 0 .. CHANNELS
    /\ reg \in Sample /\ values \in [Channel -> Sample]
    /\ dpc \in {"take", "listen", "notify", "halted"} /\ rmt_note \in BOOLEAN
    /\ num_symbols \in {0, STRAY, FRAME}
    /\ capture \in Sample /\ dht11_result \in Result
    /\ opc \in {"take", "search", "convert", "get", "halted"}
    /\ found \in Seq(Probes) /\ readings \in Seq(Reading \cup {Garbage})
    /\ measured \in 0 .. ONE_WIRE_MAX_SENSORS_COUNT
    /\ num_readings \in 0 .. ONE_WIRE_MAX_SENSORS_COUNT
    /\ temperature \in Temperature /\ scratchpad \in [Probes -> 0 .. MaxTriggers]

Sent == message # NoMessage

(* "analog" of a message holds, at every index, what was measured on that  *)
(* line in the round of the message's timestamp, although the worker fills *)
(* its one result over and over while the master walks the lines. A line   *)
(* with a failed conversion may show another value, and so may one whose   *)
(* pointer was waiting when the period expired: it is read some bytes      *)
(* further on (station.c:545, 628-639). That takes a search that was       *)
(* broken, in this round or an earlier one.                                *)
AnalogOwn ==
    Sent => \A l \in Line :
        /\ {<<"analog", l>>, <<"pointer", l>>} \cap message.failed = {} =>
              \A c \in Channel :
                  message.analog[l][c] = [line |-> l, round |-> message.round]
        /\ <<"pointer", l>> \in message.failed => errors.search > 0

(* A DHT11 reading in a message was received from the line it is listed    *)
(* under and in the round of the message (pomiary.json: "Numer linii       *)
(* wejściowej"), unless that line showed no edge at all.                   *)
Dht11Own ==
    Sent => \A l \in DOMAIN message.dht11 :
        <<"dht11", l>> \notin message.failed =>
            message.dht11[l] = [line |-> l, round |-> message.round]

(* A temperature in a message was measured by the probe whose address it   *)
(* is listed under and in the round of the message: failures of other      *)
(* probes do not touch it.                                                 *)
TemperatureOwn ==
    Sent => \A i \in 1 .. Len(message.ds18b20) :
        LET reading == message.ds18b20[i] IN
        <<"ds18b20", reading.address>> \notin message.failed =>
            reading.temperature =
                [address |-> reading.address, round |-> message.round]

(* pomiary.json describes "temp" as the temperature measured by the sensor *)
(* with the address next to it, whatever failed.                           *)
TemperatureAsDocumented ==
    Sent => \A i \in 1 .. Len(message.ds18b20) :
        message.ds18b20[i].temperature # Garbage =>
            message.ds18b20[i].temperature.address = message.ds18b20[i].address

(* The block of readings shrinks and grows with the probes found, but its  *)
(* capacity is not recorded: every reading the worker writes or the master *)
(* formats lies inside, and none that is formatted is uninitialised.       *)
ReadingsInBlock ==
    /\ num_readings <= Len(readings)
    /\ note[2].pending => \A i \in 1 .. num_readings : readings[i] # Garbage

(* The multiplexer is never switched under a worker that is reading, nor   *)
(* under one that is still to start.                                       *)
MuxStable ==
    [][mux' # mux => /\ apc = "take" /\ dpc = "take"
                     /\ wakes \cap {"analog", "dht11"} = {}]_vars

(* Every expiry of the period is followed by a message of that round or a  *)
(* later one, whatever sensors fail. The exceptions need an expiry while   *)
(* the master waits for the analog worker, whose index the timer shares:   *)
(* before the worker's pointer it halts the CPU, after it the expiry is    *)
(* cleared with the pointer and no message need follow it, although that   *)
(* round itself goes on to its message (station.c:545, 628-634).           *)
RoundsComplete ==
    \A k \in Round :
        (triggers >= k) ~> \/ message.round >= k
                           \/ mpc = "halted"
                           \/ k \in swallowed
=============================================================================
