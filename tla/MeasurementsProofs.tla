-------------------------- MODULE MeasurementsProofs --------------------------
(***************************************************************************)
(* The measuring round, for any number of lines, channels, probes and      *)
(* expiries of the period. The timing that guards Trigger is used in one   *)
(* place (Timed): to show that an expiry meets the pointer of the analog   *)
(* worker only after a search that was broken.                             *)
(*                                                                         *)
(* What the master may read rests on who is idle (Control): a slot that    *)
(* holds a worker's pointer tells that the worker is done and that the     *)
(* master has not taken the pointer yet. The rest follows each reading     *)
(* from the sensor to the message: in the worker's own result (Sampled,    *)
(* Received, Measured), in the master's copies (Copied), in the message.   *)
(*                                                                         *)
(* The last part is about the drivers the workers read with.               *)
(***************************************************************************)
EXTENDS Measurements, Sensors, TLAPS

AnalogIdle == apc = "take" /\ "analog" \notin wakes
Dht11Idle == dpc = "take" /\ "dht11" \notin wakes
OneWireIdle == opc = "take" /\ "onewire" \notin wakes

Running == mpc # "halted"
InRound == mpc \in {"line", "analog", "dht11"}
AtLine == mpc \in {"analog", "dht11"}

-----------------------------------------------------------------------------
(* TypeOK in parts, each with what it needs to be inductive. *)

Happened ==
    /\ bounds \in Bounds
    /\ triggers \in 0 .. bounds.triggers
    /\ swallowed \subseteq Round
    /\ overlong \in BOOLEAN /\ late \in BOOLEAN
    /\ errors \in [search : 0 .. bounds.search, read : 0 .. bounds.read]
    /\ failed \subseteq ({"analog", "dht11", "pointer"} \X Line)
                     \cup ({"ds18b20"} \X Probes)

Slots ==
    /\ note \in [0 .. 2 -> Slot]
    /\ \A slot \in 0 .. 2 : note[slot].gives <= triggers
    /\ wakes \subseteq {"analog", "dht11", "onewire"}

Places ==
    /\ mpc \in {"take", "line", "analog", "dht11", "halted"}
    /\ line \in 0 .. LINES /\ mux \in Line
    /\ AtLine => line < LINES /\ mux = line
    /\ round \in 0 .. triggers
    /\ InRound => round >= 1
    /\ note[0].pending /\ ~note[0].pointer => triggers >= 1
    /\ apc \in {"take", "sample", "halted"} /\ channel \in 0 .. CHANNELS
    /\ dpc \in {"take", "listen", "notify", "halted"} /\ rmt_note \in BOOLEAN
    /\ num_symbols \in {0, STRAY, FRAME}
    /\ opc \in {"take", "search", "convert", "get", "halted"}

Samples ==
    /\ reg \in Sample /\ values \in [Channel -> Sample]
    /\ capture \in Sample /\ dht11_result \in Result

Copies ==
    /\ analog_readings \in [Line -> [Channel -> Sample] \cup {Garbage}]
    /\ dht11_results \in [Line -> Result \cup {Garbage}]
    /\ message.round \in 0 .. triggers

Block ==
    /\ found \in Seq(Probes) /\ Len(found) <= ONE_WIRE_MAX_SENSORS_COUNT
    /\ readings \in Seq(Reading \cup {Garbage})
    /\ num_readings \in 0 .. ONE_WIRE_MAX_SENSORS_COUNT
    /\ num_readings <= Len(readings)
    /\ measured \in 0 .. num_readings
    /\ opc \in {"convert", "get"} => num_readings = Len(found)
    /\ opc = "get" => measured < num_readings
    /\ temperature \in Temperature
    /\ scratchpad \in [Probes -> 0 .. MaxTriggers]

-----------------------------------------------------------------------------
(* Who is idle, and what the slots tell of it. *)
Control ==
    /\ mpc \in {"take", "line", "dht11"} => AnalogIdle
    /\ mpc \in {"take", "line"} => Dht11Idle /\ ~note[1].pending
    /\ mpc = "take" => OneWireIdle /\ ~note[2].pending
    /\ Running /\ note[0].pointer => mpc = "analog" /\ AnalogIdle
    /\ Running /\ note[1].pending => AtLine /\ Dht11Idle
    /\ Running /\ note[2].pending => OneWireIdle
    /\ mpc = "halted" => apc = "halted" /\ dpc = "halted" /\ opc = "halted"
    /\ \A slot \in 0 .. 2 : note[slot].pointer => note[slot].pending

(* Of the channels the worker has sampled, and of all when it is done.     *)
OwnAnalog(block, l) ==
    {<<"analog", l>>, <<"pointer", l>>} \cap failed = {} =>
        \A c \in Channel : block[c] = [line |-> l, round |-> round]

Sampled ==
    /\ apc = "sample" /\ {<<"analog", line>>, <<"pointer", line>>} \cap failed = {}
          => \A c \in Channel : c < channel =>
                values[c] = [line |-> line, round |-> round]
    /\ Running /\ note[0].pointer => OwnAnalog(values, line)

(* A frame is received while the worker listens, unless the line failed.   *)
OwnDht11(result, l) ==
    result.available /\ <<"dht11", l>> \notin failed =>
        result.reading = [line |-> l, round |-> round]

Received ==
    /\ dpc \in {"take", "notify"} => ~rmt_note
    /\ dpc = "listen" /\ rmt_note /\ num_symbols = FRAME => capture = Here
    /\ dpc = "notify" => OwnDht11(dht11_result, line)
    /\ Running /\ note[1].pending => OwnDht11(dht11_result, line)

Copied ==
    /\ InRound => \A l \in Line :
          l < line \/ (mpc = "dht11" /\ l = line) =>
              OwnAnalog(analog_readings[l], l)
    /\ InRound => \A l \in Line : l < line => OwnDht11(dht11_results[l], l)

(* A reading that the worker has made in this round.                       *)
OwnTemperature(reading) ==
    /\ reading # Garbage
    /\ <<"ds18b20", reading.address>> \notin failed =>
          reading.temperature = [address |-> reading.address, round |-> round]

Measured ==
    /\ opc \in {"convert", "get"} =>
          \A i \in 1 .. measured : OwnTemperature(readings[i])
    /\ opc = "get" /\ <<"ds18b20", Probe>> \notin failed =>
          scratchpad[Probe] = round
    /\ Running /\ note[2].pending =>
          \A i \in 1 .. num_readings : OwnTemperature(readings[i])
    /\ note[2].pending => \A i \in 1 .. num_readings : readings[i] # Garbage

(* An expiry comes amid a round only when a search was broken.             *)
Timed ==
    /\ overlong \/ late => errors.search > 0
    /\ note[0].pointer /\ note[0].gives > 0 => errors.search > 0
    /\ \A l \in Line : <<"pointer", l>> \in failed => errors.search > 0

Types == Happened /\ Slots /\ Places /\ Samples /\ Copies /\ Block

IInv ==
    /\ Types /\ Control /\ Sampled /\ Received /\ Copied /\ Measured /\ Timed
    /\ AnalogOwn /\ Dht11Own /\ TemperatureOwn

-----------------------------------------------------------------------------
LEMMA SeqOfFunction ==
    ASSUME NEW S, NEW n \in Nat, NEW f \in [1 .. n -> S]
    PROVE  f \in Seq(S) /\ Len(f) = n
OBVIOUS

LEMMA BoundsTyped ==
    ASSUME MeasurementsAssumption, Happened
    PROVE  /\ bounds.triggers \in 0 .. MaxTriggers /\ bounds.search \in Nat
           /\ bounds.read \in Nat /\ bounds.probes \subseteq Probes
           /\ MaxTriggers \in Nat
  BY DEF MeasurementsAssumption, Happened, Surroundings

(* The steps are proved once for each part, over all actions.              *)
USE DEF Next, vars, envVars, expiryVars, masterVars, analogVars, dht11Vars, owVars,
        Trigger, Master, BeginRound, SelectLine, CopyAnalog, Panic, CopyDht11,
        Send, Analog, AnalogTake, AnalogSample, AnalogNotify, Callback, Dht11,
        Dht11Read, Dht11Parse, Dht11Notify, OneWire, OneWireTake, SearchNext,
        SearchError, SearchEnd, Convert, GetTemperature, OneWireNotify,
        Transaction
USE DEF ANALOG_MEASUREMENTS_NOTIFICATION_INDEX,
        DHT11_MEASUREMENTS_NOTIFICATION_INDEX,
        ONE_WIRE_MEASUREMENTS_NOTIFICATION_INDEX

(* What a step does to the counters and to the slots.                      *)
LEMMA Counting ==
    ASSUME [Next]_vars
    PROVE  /\ bounds' = bounds
           /\ \/ triggers' = triggers
              \/ /\ triggers < bounds.triggers /\ triggers' = triggers + 1
                 /\ note' = [note EXCEPT ![0] = Given(@)]
           /\ \/ errors' = errors
              \/ /\ errors.search < bounds.search
                 /\ errors' = [errors EXCEPT !.search = @ + 1]
              \/ /\ errors.read < bounds.read
                 /\ errors' = [errors EXCEPT !.read = @ + 1]
  OBVIOUS

LEMMA Notes ==
    ASSUME [Next]_vars
    PROVE  \/ note' = note
           \/ \E slot \in 0 .. 2 : note' = [note EXCEPT ![slot] = Empty]
           \/ \E slot \in 0 .. 2 : note' = [note EXCEPT ![slot] = WithPointer(@)]
           \/ note' = [note EXCEPT ![0] = Given(@)] /\ triggers' = triggers + 1
  BY DEF Waits, HandsOver

LEMMA Counted ==
    ASSUME MeasurementsAssumption, Happened, [Next]_vars
    PROVE  /\ triggers \in 0 .. MaxTriggers /\ triggers' \in 0 .. bounds.triggers
           /\ triggers' \in 0 .. MaxTriggers /\ triggers' >= triggers
           /\ errors' \in [search : 0 .. bounds.search, read : 0 .. bounds.read]
           /\ MaxTriggers \in Nat
<1> HIDE DEF Next, vars
<1>1. MaxTriggers \in Nat /\ bounds.search \in Nat /\ bounds.read \in Nat
      /\ bounds.triggers \in 0 .. MaxTriggers /\ triggers \in 0 .. bounds.triggers
      /\ errors \in [search : 0 .. bounds.search, read : 0 .. bounds.read]
  BY BoundsTyped DEF Happened
<1> QED BY <1>1, Counting

LEMMA HappenedStep ==
    ASSUME MeasurementsAssumption, Happened, Slots, Places, Block, [Next]_vars
    PROVE  Happened'
<1>2. overlong' \in BOOLEAN /\ late' \in BOOLEAN
  BY DEF Happened
<1>3. swallowed' \subseteq Round
  <2>1. /\ triggers \in 0 .. MaxTriggers /\ MaxTriggers \in Nat
        /\ note[0].gives \in 0 .. triggers
    <3> HIDE DEF Next, vars
    <3> QED BY Counted DEF Slots, Slot
  <2>2. triggers - note[0].gives + 1 .. triggers \subseteq Round
    BY <2>1 DEF Round
  <2>3. \/ swallowed' = swallowed
        \/ swallowed' = swallowed \cup (triggers - note[0].gives + 1 .. triggers)
    OBVIOUS
  <2> HIDE DEF Next, vars
  <2> QED BY <2>2, <2>3 DEF Happened
<1>4. opc \in {"convert", "get"} /\ measured < num_readings => Probe \in Probes
  BY DEF Block, Probe
<1>5. failed' \subseteq ({"analog", "dht11", "pointer"} \X Line)
                      \cup ({"ds18b20"} \X Probes)
  <2>1. mpc = "analog" => line \in Line
    BY DEF Places, AtLine, Line, MeasurementsAssumption
  <2> QED BY <1>4, <2>1 DEF Happened, Places, Block
<1> HIDE DEF Next, vars
<1> QED BY <1>2, <1>3, <1>5, Counting, Counted DEF Happened

LEMMA GivenTyped ==
    ASSUME MaxTriggers \in Nat, NEW slot \in Slot, slot.gives + 1 <= MaxTriggers
    PROVE  Given(slot) \in Slot /\ Given(slot).gives = slot.gives + 1
<1>1. Given(slot) = [[slot EXCEPT !.pending = TRUE] EXCEPT !.gives = slot.gives + 1]
  BY DEF Given, Slot
<1>2. [slot EXCEPT !.pending = TRUE] \in Slot
  BY DEF Slot
<1>3. slot.gives + 1 \in 0 .. MaxTriggers
  BY DEF Slot
<1> QED BY <1>1, <1>2, <1>3 DEF Slot

LEMMA SlotsStep ==
    ASSUME MeasurementsAssumption, Happened, Slots, [Next]_vars
    PROVE  Slots'
<1>1. wakes' \subseteq {"analog", "dht11", "onewire"}
  BY DEF Slots
<1> HIDE DEF Next, vars
<1>2. triggers \in Nat /\ triggers' \in Nat /\ triggers' >= triggers
      /\ triggers <= MaxTriggers /\ triggers' <= MaxTriggers
      /\ MaxTriggers \in Nat
  BY Counted
<1>3. CASE note' = note
  BY <1>1, <1>2, <1>3 DEF Slots, Slot
<1>4. CASE \E slot \in 0 .. 2 : note' = [note EXCEPT ![slot] = Empty]
  BY <1>1, <1>2, <1>4 DEF Slots, Slot, Empty
<1>5. CASE \E slot \in 0 .. 2 : note' = [note EXCEPT ![slot] = WithPointer(@)]
  BY <1>1, <1>2, <1>5 DEF Slots, Slot, WithPointer
<1>6. CASE note' = [note EXCEPT ![0] = Given(@)] /\ triggers' = triggers + 1
  <2>1. note[0].gives \in 0 .. triggers /\ note[0] \in Slot
    BY <1>2 DEF Slots, Slot
  <2>2. Given(note[0]) \in Slot /\ Given(note[0]).gives <= triggers'
    BY <1>2, <1>6, <2>1, GivenTyped
  <2>3. note' \in [0 .. 2 -> Slot]
    BY <1>6, <2>2 DEF Slots
  <2>4. \A slot \in 0 .. 2 : note'[slot].gives <= triggers'
    BY <1>2, <1>6, <2>2 DEF Slots, Slot
  <2> QED BY <1>1, <2>3, <2>4 DEF Slots
<1> QED BY <1>3, <1>4, <1>5, <1>6, Notes

LEMMA PlacesStep ==
    ASSUME MeasurementsAssumption, Happened, Slots, Places, Control,
           [Next]_vars
    PROVE  Places'
<1>1. triggers \in Nat /\ triggers' \in Nat /\ triggers' >= triggers
  <2> HIDE DEF Next, vars
  <2> QED BY Counted
<1>2. LINES \in Nat \ {0} /\ CHANNELS \in Nat \ {0}
  BY DEF MeasurementsAssumption
<1> USE DEF Places, AtLine, InRound, Running
<1>3. /\ mpc' \in {"take", "line", "analog", "dht11", "halted"}
      /\ apc' \in {"take", "sample", "halted"}
      /\ dpc' \in {"take", "listen", "notify", "halted"}
      /\ opc' \in {"take", "search", "convert", "get", "halted"}
  OBVIOUS
<1>8. num_symbols' \in {0, STRAY, FRAME} /\ rmt_note' \in BOOLEAN
  OBVIOUS
<1>4. line' \in 0 .. LINES /\ mux' \in Line /\ channel' \in 0 .. CHANNELS
  BY <1>2 DEF Line
<1>5. (mpc \in {"analog", "dht11"} => line < LINES /\ mux = line)'
  BY <1>2
<1>6. /\ round' \in 0 .. triggers'
      /\ (mpc \in {"line", "analog", "dht11"} => round >= 1)'
  BY <1>1 DEF Waits, Control
<1>7. (note[0].pending /\ ~note[0].pointer => triggers >= 1)'
  <2>1. CASE note' = note
    BY <1>1, <2>1
  <2>2. CASE \E slot \in 0 .. 2 : note' = [note EXCEPT ![slot] = Empty]
    BY <1>1, <2>2 DEF Slots, Slot, Empty
  <2>3. CASE \E slot \in 0 .. 2 : note' = [note EXCEPT ![slot] = WithPointer(@)]
    BY <1>1, <2>3 DEF Slots, Slot, WithPointer
  <2>4. CASE triggers' = triggers + 1
    BY <1>1, <2>4
  <2> QED BY <2>1, <2>2, <2>3, <2>4 DEF Waits, HandsOver
<1> HIDE DEF Next, vars
<1> QED BY <1>3, <1>4, <1>5, <1>6, <1>7, <1>8

LEMMA ControlStep ==
    ASSUME Slots, Places, Control, [Next]_vars
    PROVE  Control'
<1> USE DEF Slots, Slot, Places, Control, Waits, HandsOver, Given, WithPointer,
            Empty, AtLine, Running, AnalogIdle, Dht11Idle, OneWireIdle, IsPointer
<1>1. CASE CopyAnalog
  <2>1. /\ mpc = "analog" /\ mpc' = "dht11" /\ note[0].pointer
        /\ note' = [note EXCEPT ![0] = Empty]
        /\ UNCHANGED <<wakes, apc, dpc, opc, line>>
    BY <1>1
  <2> HIDE DEF Next, vars
  <2> QED BY <2>1
<1>2. CASE Trigger \/ BeginRound \/ SelectLine \/ Panic \/ CopyDht11 \/ Send
  BY <1>2
<1>3. CASE Analog \/ UNCHANGED vars
  <2>1. CASE AnalogTake \/ AnalogNotify
    BY <2>1
  <2>2. CASE AnalogSample \/ UNCHANGED vars
    <3>1. UNCHANGED <<note, wakes, apc, dpc, opc, mpc>>
      BY <2>2
    <3> HIDE DEF Next, vars
    <3> QED BY <3>1
  <2> QED BY <1>3, <2>1, <2>2
<1>4. CASE Callback \/ Dht11
  BY <1>4
<1>5. CASE OneWire
  BY <1>5
<1> QED BY <1>1, <1>2, <1>3, <1>4, <1>5

(* The workers read only in a round, so that Here is a sample.             *)
LEMMA HereIsSample ==
    ASSUME MeasurementsAssumption, Happened, Places, Control,
           apc = "sample" \/ dpc = "listen"
    PROVE  Here \in Sample
<1>1. InRound
  BY DEF Places, Control, AnalogIdle, Dht11Idle, InRound
<1>2. MaxTriggers \in Nat /\ triggers \in 0 .. MaxTriggers
  BY BoundsTyped DEF Happened
<1> QED BY <1>1, <1>2 DEF Here, Sample, Places, Round

LEMMA SamplesStep ==
    ASSUME MeasurementsAssumption, Happened, Places, Control, Samples,
           [Next]_vars
    PROVE  Samples'
<1> USE HereIsSample DEF Samples
<1>1. reg' \in Sample /\ capture' \in Sample
  OBVIOUS
<1>2. values' \in [Channel -> Sample]
  BY <1>1 DEF Places, Channel
<1>3. dht11_result' \in Result
  <2>1. \/ dht11_result' = dht11_result
        \/ \E b \in BOOLEAN, r \in {capture, dht11_result.reading} :
              dht11_result' = [available |-> b, reading |-> r]
    OBVIOUS
  <2> HIDE DEF Next, vars
  <2> QED BY <2>1 DEF Result
<1> QED BY <1>1, <1>2, <1>3

LEMMA CopiesStep ==
    ASSUME MeasurementsAssumption, Happened, Slots, Places, Samples, Copies,
           [Next]_vars
    PROVE  Copies'
<1>1. triggers \in Nat /\ triggers' \in Nat /\ triggers' >= triggers
  <2> HIDE DEF Next, vars
  <2> QED BY Counted
<1>2. analog_readings' \in [Line -> [Channel -> Sample] \cup {Garbage}]
  <2>1. \A moved \in Nat : Through(moved) \in [Channel -> Sample]
    <3>1. \A c \in Nat, n \in Nat : c + n < CHANNELS => c + n \in Channel
      BY DEF Channel, MeasurementsAssumption
    <3> QED BY <3>1 DEF Through, Channel, Samples, Sample
  <2>2. note[0].gives \in Nat
    <3> HIDE DEF Next, vars
    <3> QED BY BoundsTyped DEF Slots, Slot
  <2>3. \/ analog_readings' = analog_readings
        \/ analog_readings' = [analog_readings EXCEPT ![line] = Through(note[0].gives)]
    OBVIOUS
  <2> HIDE DEF Next, vars
  <2> QED BY <2>1, <2>2, <2>3 DEF Copies
<1>3. dht11_results' \in [Line -> Result \cup {Garbage}]
  BY DEF Copies, Samples
<1>4. message' = message \/ message'.round = round
  BY DEF create_measurement_message
<1> HIDE DEF Next, vars
<1>5. message'.round \in 0 .. triggers'
  BY <1>1, <1>4 DEF Copies, Places
<1> QED BY <1>2, <1>3, <1>5 DEF Copies

-----------------------------------------------------------------------------
(* The block of readings: found grows only while there is room, and the    *)
(* block is never shorter than the number of readings.                     *)
LEMMA EnlargedProps ==
    ASSUME NEW S, NEW block \in Seq(S \cup {Garbage}), NEW n \in Nat,
           NEW before \in Nat, before <= Len(block)
    PROVE  /\ Enlarged(block, n, before) \in Seq(S \cup {Garbage})
           /\ n <= Len(Enlarged(block, n, before))
<1>1. CASE n > before
  <2> DEFINE new == [i \in 1 .. n |-> IF i <= Len(block) THEN block[i] ELSE Garbage]
  <2>1. new \in [1 .. n -> S \cup {Garbage}]
    OBVIOUS
  <2>2. new \in Seq(S \cup {Garbage}) /\ Len(new) = n
    BY <2>1, SeqOfFunction
  <2> QED BY <1>1, <2>2 DEF Enlarged
<1>2. CASE ~(n > before)
  BY <1>2 DEF Enlarged
<1> QED BY <1>1, <1>2

LEMMA BlockStep ==
    ASSUME MeasurementsAssumption, Happened, Places, Block, [Next]_vars
    PROVE  Block'
<1> DEFINE Quiet == UNCHANGED <<opc, found, measured, temperature, readings,
                                num_readings, scratchpad>>
<1>1. \/ Quiet \/ Panic \/ OneWire
  OBVIOUS
<1>2. /\ ONE_WIRE_MAX_SENSORS_COUNT \in Nat /\ bounds.probes \subseteq Probes
      /\ round \in 0 .. MaxTriggers
  BY BoundsTyped DEF MeasurementsAssumption, Happened, Places
<1> HIDE DEF Next, vars
<1>3. CASE Quiet
  BY <1>3 DEF Block, Probe
<1>4. CASE Panic
  BY <1>4 DEF Block
<1>5. CASE OneWireTake
  BY <1>2, <1>5 DEF Block
<1>6. CASE SearchNext
  BY <1>2, <1>6 DEF Block, Room
<1>7. CASE SearchError
  BY <1>7 DEF Block
<1>8. CASE SearchEnd
  <2>1. readings' = Enlarged(readings, Len(found), num_readings)
    BY <1>8
  <2>2. /\ readings \in Seq(Reading \cup {Garbage}) /\ num_readings \in Nat
        /\ num_readings <= Len(readings) /\ Len(found) \in Nat
    BY <1>2 DEF Block
  <2>3. /\ readings' \in Seq(Reading \cup {Garbage})
        /\ Len(found) <= Len(readings')
    BY <2>1, <2>2, EnlargedProps
  <2> QED BY <1>2, <1>8, <2>3 DEF Block
<1>9. CASE Convert
  BY <1>2, <1>9 DEF Block, Probe
<1>10. CASE GetTemperature
  BY <1>2, <1>10 DEF Block, Probe, Temperature, Reading
<1>11. CASE OneWireNotify
  BY <1>11 DEF Block
<1> QED BY <1>1, <1>3, <1>4, <1>5, <1>6, <1>7, <1>8, <1>9, <1>10, <1>11

-----------------------------------------------------------------------------
(* What is known to have failed stays known for the round, and the round   *)
(* ends only at the next wait for the timer.                               *)
LEMMA Meanwhile ==
    ASSUME Places, Control, [Next]_vars, mpc # "take"
    PROVE  failed \subseteq failed' /\ round' = round
  BY DEF Waits

(* Each slot is filled by its worker and emptied by the master.            *)
LEMMA Filling ==
    ASSUME Slots, [Next]_vars
    PROVE  /\ note'[0].pointer => note[0].pointer \/ AnalogNotify
           /\ note'[1].pending => note[1].pending \/ Dht11Notify
           /\ note'[2].pending => note[2].pending \/ OneWireNotify
<1>1. \/ note' = note \/ AnalogNotify \/ Dht11Notify \/ OneWireNotify
      \/ \E slot \in 0 .. 2 : note' = [note EXCEPT ![slot] = Empty]
      \/ note' = [note EXCEPT ![0] = Given(@)]
  BY DEF Waits
<1>2. note \in [0 .. 2 -> Slot] /\ Given(note[0]).pointer = note[0].pointer
  BY DEF Slots, Slot, Given
<1>3. /\ Dht11Notify => note'[0] = note[0] /\ note'[2] = note[2]
      /\ AnalogNotify => note'[1] = note[1] /\ note'[2] = note[2]
      /\ OneWireNotify => note'[0] = note[0] /\ note'[1] = note[1]
  BY <1>2 DEF HandsOver
<1> HIDE DEF Next, vars, AnalogNotify, Dht11Notify, OneWireNotify
<1> QED BY <1>1, <1>2, <1>3 DEF Empty

LEMMA SampledStep ==
    ASSUME MeasurementsAssumption, Slots, Places, Control, Samples, Sampled,
           [Next]_vars
    PROVE  Sampled'
<1>1. /\ CHANNELS \in Nat /\ channel \in 0 .. CHANNELS
      /\ values \in [Channel -> Sample] /\ note \in [0 .. 2 -> Slot]
  BY DEF MeasurementsAssumption, Places, Samples, Slots
<1>2. (apc = "sample" => mpc = "analog")
      /\ (apc = "sample" => mux = line /\ ~note[0].pointer)
  BY DEF Places, Control, AnalogIdle, AtLine, Running
<1>3. (apc = "sample" /\ {<<"analog", line>>, <<"pointer", line>>} \cap failed = {}
          => \A c \in Channel : c < channel =>
                values[c] = [line |-> line, round |-> round])'
  <2>1. CASE AnalogTake
    BY <2>1 DEF Channel
  <2>2. CASE AnalogSample
    <3>1. \A c \in Channel : c < channel + 1 => c < channel \/ c = channel
      BY <1>1 DEF Channel
    <3> HIDE DEF Next, vars
    <3> QED BY <1>1, <1>2, <2>2, <3>1 DEF Sampled, Here, Channel
  <2>3. CASE ~AnalogTake /\ ~AnalogSample
    <3>1. apc' = "sample" => UNCHANGED <<apc, values, channel, line, mpc>>
      BY <1>2, <2>3 DEF IsPointer
    <3>2. apc' = "sample" => failed \subseteq failed' /\ round' = round
      <4> HIDE DEF Next, vars
      <4> QED BY <1>2, <3>1, Meanwhile
    <3> HIDE DEF Next, vars
    <3> QED BY <3>1, <3>2 DEF Sampled
  <2> QED BY <2>1, <2>2, <2>3
<1>4. (Running /\ note[0].pointer => OwnAnalog(values, line))'
  <2>1. CASE AnalogNotify
    BY <1>1, <1>2, <2>1 DEF Sampled, Channel, OwnAnalog, Running, Control,
       HandsOver, WithPointer
  <2>2. CASE ~AnalogNotify
    <3>1. Running' /\ note'[0].pointer => Running /\ note[0].pointer
      <4>1. Running' => Running
        BY DEF Running
      <4> HIDE DEF Next, vars, AnalogNotify
      <4> QED BY <2>2, <4>1, Filling
    <3>2. Running /\ note[0].pointer => mpc = "analog" /\ apc = "take"
      BY DEF Control, Running, AnalogIdle
    <3>5. mpc = "analog" /\ apc = "take" => UNCHANGED <<values, line>>
      OBVIOUS
    <3> HIDE DEF Next, vars
    <3>3. Running /\ note[0].pointer => failed \subseteq failed' /\ round' = round
      BY Meanwhile DEF Control, Running
    <3> QED BY <3>1, <3>2, <3>3, <3>5 DEF Sampled, OwnAnalog
  <2> QED BY <2>1, <2>2
<1> QED BY <1>3, <1>4 DEF Sampled

LEMMA ReceivedStep ==
    ASSUME Slots, Places, Control, Samples, Received, [Next]_vars
    PROVE  Received'
<1>1. note \in [0 .. 2 -> Slot] /\ dht11_result \in Result
  BY DEF Samples, Slots
<1>2. /\ dpc \in {"listen", "notify"} => AtLine /\ mux = line
      /\ Running /\ note[1].pending => AtLine /\ mux = line
  BY DEF Places, Control, Dht11Idle, AtLine
<1>3. (dpc \in {"take", "notify"} => ~rmt_note)'
  BY DEF Received, Places
<1>4. (dpc = "listen" /\ rmt_note /\ num_symbols = FRAME => capture = Here)'
  <2>1. CASE Callback
    BY <2>1 DEF Here, STRAY, FRAME
  <2>2. CASE Dht11Read
    BY <2>2 DEF Received
  <2>3. CASE ~Callback /\ ~Dht11Read
    <3>1. dpc' = "listen" => UNCHANGED <<dpc, rmt_note, num_symbols, capture>>
      BY <2>3
    <3>2. dpc' = "listen" => UNCHANGED <<mux, round>>
      BY <1>2, <2>3 DEF AtLine
    <3> HIDE DEF Next, vars
    <3> QED BY <3>1, <3>2 DEF Received, Here
  <2> QED BY <2>1, <2>2, <2>3
<1>5. (dpc = "notify" => OwnDht11(dht11_result, line))'
  <2>1. CASE Dht11Parse
    BY <1>1, <1>2, <2>1 DEF Received, OwnDht11, Here
  <2>2. CASE ~Dht11Parse
    <3>1. dpc' = "notify" => UNCHANGED <<dpc, dht11_result, line>> /\ mpc # "take"
      BY <1>2, <2>2 DEF AtLine, Control, Running, Dht11Idle, Waits
    <3> HIDE DEF Next, vars
    <3> QED BY <3>1, Meanwhile DEF Received, OwnDht11
  <2> QED BY <2>1, <2>2
<1>6. (Running /\ note[1].pending => OwnDht11(dht11_result, line))'
  <2>1. CASE Dht11Notify
    BY <1>1, <1>2, <2>1 DEF Received, OwnDht11
  <2>2. CASE ~Dht11Notify
    <3>1. Running' /\ note'[1].pending => Running /\ note[1].pending
      BY <1>1, <2>2 DEF Running, HandsOver, WithPointer, Waits, Given, Empty
    <3>2. Running /\ note[1].pending /\ note'[1].pending =>
             UNCHANGED <<dht11_result, line>> /\ mpc # "take"
      BY <1>1, <2>2 DEF Running, Control, Dht11Idle, AtLine, Waits, Empty
    <3> HIDE DEF Next, vars
    <3> QED BY <3>1, <3>2, Meanwhile DEF Received, OwnDht11
  <2> QED BY <2>1, <2>2
<1> QED BY <1>3, <1>4, <1>5, <1>6 DEF Received

LEMMA CopiedStep ==
    ASSUME MeasurementsAssumption, Slots, Places, Control, Samples, Copies,
           Sampled, Received, Copied, [Next]_vars
    PROVE  Copied'
<1>1. /\ line \in Nat /\ Line \subseteq Nat /\ LINES \in Nat
      /\ analog_readings \in [Line -> [Channel -> Sample] \cup {Garbage}]
      /\ dht11_results \in [Line -> Result \cup {Garbage}]
  BY DEF MeasurementsAssumption, Places, Line, Copies
<1>2. CASE BeginRound
  BY <1>1, <1>2 DEF Copied, Line
<1>3. CASE CopyAnalog
  <2>1. OwnAnalog(values, line) /\ line \in Line
    BY <1>3 DEF Sampled, IsPointer, Running, Places, AtLine, Line
  <2>2. /\ analog_readings' = [analog_readings EXCEPT ![line] = Through(note[0].gives)]
        /\ failed' = IF note[0].gives = 0 THEN failed
                                          ELSE failed \cup {<<"pointer", line>>}
        /\ mpc = "analog" /\ mpc' = "dht11"
        /\ UNCHANGED <<round, line, dht11_results>>
    BY <1>3
  <2> HIDE DEF Next, vars
  <2>3. {<<"analog", line>>, <<"pointer", line>>} \cap failed' = {} =>
          \A c \in Channel : Through(note[0].gives)[c] = [line |-> line, round |-> round]
    <3>1. CASE note[0].gives = 0
      <4>1. \A c \in Channel : Through(0)[c] = values[c]
        <5>1. 0 % 4 = 0 /\ 0 \div 4 = 0
          OBVIOUS
        <5> HIDE DEF Next, vars
        <5> QED BY <5>1 DEF Through, Channel, MeasurementsAssumption
      <4>2. failed' = failed
        BY <2>2, <3>1
      <4> QED BY <2>1, <3>1, <4>1, <4>2 DEF OwnAnalog
    <3>2. CASE note[0].gives # 0
      BY <2>2, <3>2
    <3> QED BY <3>1, <3>2
  <2>4. analog_readings'[line] = Through(note[0].gives)
        /\ \A l \in Line : l # line => analog_readings'[l] = analog_readings[l]
    BY <1>1, <2>1, <2>2
  <2> QED BY <1>1, <2>1, <2>2, <2>3, <2>4 DEF Copied, OwnAnalog, OwnDht11, InRound
<1>4. CASE CopyDht11
  <2>1. OwnDht11(dht11_result, line) /\ line \in Line
    BY <1>4 DEF Received, Waits, Running, Places, AtLine, Line
  <2>2. dht11_results' = [dht11_results EXCEPT ![line] = dht11_result]
        /\ mpc = "dht11" /\ mpc' = "line" /\ line' = line + 1
        /\ UNCHANGED <<failed, round, analog_readings>>
    BY <1>4
  <2>3. \A l \in Line : l < line + 1 => l < line \/ l = line
    BY <1>1
  <2> HIDE DEF Next, vars
  <2> QED BY <1>1, <2>1, <2>2, <2>3 DEF Copied, OwnAnalog, OwnDht11, InRound
<1>5. CASE ~BeginRound /\ ~CopyAnalog /\ ~CopyDht11
  <2>1. UNCHANGED <<line, analog_readings, dht11_results>>
    BY <1>5
  <2>2. InRound' => InRound /\ (mpc' = "dht11" => mpc = "dht11") /\ mpc # "take"
    BY <1>5 DEF InRound, Places
  <2> HIDE DEF Next, vars
  <2> QED BY <2>1, <2>2, Meanwhile DEF Copied, OwnAnalog, OwnDht11
<1> QED BY <1>2, <1>3, <1>4, <1>5

LEMMA TimedStep ==
    ASSUME MeasurementsAssumption, Happened, Slots, Control, Timed, [Next]_vars
    PROVE  Timed'
<1>1. /\ errors \in [search : Nat, read : Nat] /\ bounds.search \in Nat
      /\ bounds.read \in Nat /\ note \in [0 .. 2 -> Slot]
  <2> HIDE DEF Next, vars
  <2> QED BY BoundsTyped DEF Happened, Slots
<1>2. errors.search > 0 => errors'.search > 0
  <2> HIDE DEF Next, vars
  <2> QED BY <1>1, Counting
<1>3. (overlong \/ late => errors.search > 0)'
  <2>1. CASE SearchError
    <3>1. errors'.search = errors.search + 1
      BY <1>1, <2>1
    <3> HIDE DEF Next, vars
    <3> QED BY <1>1, <3>1
  <2>2. CASE ~SearchError
    <3>1. overlong' \/ late' => overlong \/ late
      BY <2>2 DEF Waiting
    <3> HIDE DEF Next, vars
    <3> QED BY <1>2, <3>1 DEF Timed
  <2> QED BY <2>1, <2>2
<1>4. (note[0].pointer /\ note[0].gives > 0 => errors.search > 0)'
  <2>1. CASE Trigger
    BY <1>1, <2>1 DEF Timed, Waiting, Given, Slot, Control
  <2>2. CASE ~Trigger
    <3>1. note'[0].pointer /\ note'[0].gives > 0
              => note[0].pointer /\ note[0].gives > 0
      BY <1>1, <2>2 DEF Waits, HandsOver, Empty, WithPointer, Slot
    <3> HIDE DEF Next, vars
    <3> QED BY <1>2, <3>1 DEF Timed
  <2> QED BY <2>1, <2>2
<1>5. (\A l \in Line : <<"pointer", l>> \in failed => errors.search > 0)'
  <2>1. CASE CopyAnalog
    BY <1>1, <2>1 DEF Timed, IsPointer, Slot
  <2>2. CASE ~CopyAnalog
    <3>1. \A l \in Line : <<"pointer", l>> \in failed' => <<"pointer", l>> \in failed
      BY <2>2
    <3> HIDE DEF Next, vars
    <3> QED BY <1>2, <3>1 DEF Timed
  <2> QED BY <2>1, <2>2
<1> QED BY <1>3, <1>4, <1>5 DEF Timed

LEMMA MeasuredStep ==
    ASSUME MeasurementsAssumption, Happened, Slots, Places, Control, Block,
           Measured, [Next]_vars
    PROVE  Measured'
<1> DEFINE Kept == /\ failed \subseteq failed' /\ round' = round
                   /\ UNCHANGED <<found, readings, num_readings>>
<1>1. /\ Garbage \notin Reading
      /\ found \in Seq(Probes) /\ readings \in Seq(Reading \cup {Garbage})
      /\ num_readings \in Nat /\ measured \in 0 .. num_readings
      /\ num_readings <= Len(readings) /\ note \in [0 .. 2 -> Slot]
  BY DEF MeasurementsAssumption, Block, Slots
<1>2. opc \in {"search", "convert", "get"} => mpc # "take" /\ ~note[2].pending
  BY DEF Control, OneWireIdle, Running
<1>3. CASE Convert
  <2>1. Kept
    BY <1>2, <1>3, Meanwhile
  <2>2. measured' = measured /\ opc' = "get" /\ opc = "convert"
        /\ measured < num_readings /\ note' = note
        /\ (scratchpad' = [scratchpad EXCEPT ![Probe] = round]
              \/ <<"ds18b20", Probe>> \in failed')
    BY <1>3
  <2>3. Probe' = Probe /\ (opc = "convert" => num_readings = Len(found))
    BY <2>1, <2>2 DEF Probe, Block
  <2>4. Probe \in Probes /\ scratchpad \in [Probes -> 0 .. MaxTriggers]
    BY <1>1, <2>2, <2>3 DEF Probe, Block
  <2> HIDE DEF Next, vars, Convert
  <2> QED BY <1>2, <2>1, <2>2, <2>3, <2>4 DEF Measured, OwnTemperature
<1>4. CASE GetTemperature
  <2> DEFINE new == [address |-> Probe, temperature |-> temperature']
  <2>1. /\ failed \subseteq failed' /\ round' = round /\ note' = note
        /\ num_readings' = num_readings
    BY <1>2, <1>4, Meanwhile
  <2>2. /\ readings' = [readings EXCEPT ![measured + 1] = new]
        /\ measured' = measured + 1 /\ opc = "get" /\ opc' = "convert"
        /\ (temperature' = [address |-> Probe, round |-> scratchpad[Probe]]
              \/ <<"ds18b20", Probe>> \in failed')
        /\ temperature' \in {temperature,
                             [address |-> Probe, round |-> scratchpad[Probe]]}
    BY <1>4
  <2> HIDE DEF Next, vars, GetTemperature
  <2>3. measured + 1 \in 1 .. Len(readings) /\ Probe \in Probes
    BY <1>1, <2>2 DEF Block, Probe
  <2>4. new \in Reading
    BY <2>2, <2>3 DEF Block, Temperature, Reading
  <2>5. <<"ds18b20", Probe>> \notin failed' =>
           temperature' = [address |-> Probe, round |-> round]
    BY <2>1, <2>2 DEF Measured
  <2>6. \A i : i = measured + 1 => OwnTemperature(readings[i])'
    <3>1. readings'[measured + 1] = new /\ new # Garbage
      BY <1>1, <2>2, <2>3, <2>4
    <3>2. new.address = Probe /\ new.temperature = temperature'
      OBVIOUS
    <3> HIDE DEF new
    <3> QED BY <2>1, <2>5, <3>1, <3>2 DEF OwnTemperature
  <2>7. \A i \in 1 .. measured : OwnTemperature(readings[i])'
    <3>1. \A i \in 1 .. measured : readings'[i] = readings[i]
      BY <1>1, <2>2, <2>3
    <3> QED BY <2>1, <2>2, <3>1 DEF Measured, OwnTemperature
  <2>8. \A i \in 1 .. measured' : i \in 1 .. measured \/ i = measured + 1
    BY <1>1, <2>2
  <2>9. \A i \in 1 .. measured' : OwnTemperature(readings[i])'
    BY <2>6, <2>7, <2>8
  <2> QED BY <1>2, <2>1, <2>2, <2>9 DEF Measured
<1>5. CASE SearchEnd
  BY <1>2, <1>5 DEF Measured
<1>6. CASE OneWireNotify
  <2>1. Kept
    BY <1>2, <1>6, Meanwhile
  <2>2. measured = num_readings /\ opc = "convert" /\ opc' = "take"
    BY <1>6
  <2> HIDE DEF Next, vars, OneWireNotify
  <2>3. \A i \in 1 .. num_readings : OwnTemperature(readings[i])'
    BY <2>1, <2>2 DEF Measured, OwnTemperature
  <2>4. \A i \in 1 .. num_readings : readings'[i] # Garbage
    BY <2>3 DEF OwnTemperature
  <2> QED BY <2>1, <2>2, <2>3, <2>4 DEF Measured
<1>7. CASE ~Convert /\ ~GetTemperature /\ ~SearchEnd /\ ~OneWireNotify
  <2>1. UNCHANGED <<measured, readings, num_readings, scratchpad>>
    BY <1>7
  <2>2. opc' \in {"convert", "get"} => opc' = opc /\ found' = found
    BY <1>7
  <2>3. Running' => Running
    BY DEF Running
  <2>4. Running /\ note[2].pending => mpc # "take"
    BY DEF Control, Running
  <2>5. note'[2].pending => note[2].pending
    <3> HIDE DEF Next, vars, OneWireNotify
    <3> QED BY <1>7, Filling
  <2> HIDE DEF Next, vars
  <2>6. (opc \in {"convert", "get"} => \A i \in 1 .. measured : OwnTemperature(readings[i]))'
    BY <1>2, <2>1, <2>2, Meanwhile DEF Measured, OwnTemperature
  <2>7. (opc = "get" /\ <<"ds18b20", Probe>> \notin failed => scratchpad[Probe] = round)'
    BY <1>2, <2>1, <2>2, Meanwhile DEF Measured, Probe
  <2>8. (Running /\ note[2].pending => \A i \in 1 .. num_readings : OwnTemperature(readings[i]))'
    BY <2>1, <2>3, <2>4, <2>5, Meanwhile DEF Measured, OwnTemperature
  <2>9. (note[2].pending => \A i \in 1 .. num_readings : readings[i] # Garbage)'
    BY <2>1, <2>5 DEF Measured
  <2> QED BY <2>6, <2>7, <2>8, <2>9 DEF Measured
<1> QED BY <1>3, <1>4, <1>5, <1>6, <1>7

-----------------------------------------------------------------------------
(* What is sent is what was copied, with the failures known by then.       *)
LEMMA MessageStep ==
    ASSUME MeasurementsAssumption, Happened, Slots, Places, Control, Copies,
           Block, Copied, Measured, Timed, AnalogOwn, Dht11Own, TemperatureOwn,
           [Next]_vars
    PROVE  (AnalogOwn /\ Dht11Own /\ TemperatureOwn)'
<1>1. CASE ~Send
  <2>1. message' = message
    BY <1>1
  <2> HIDE DEF Next, vars
  <2>2. errors.search > 0 => errors'.search > 0
    BY Counting, BoundsTyped DEF Happened
  <2> QED BY <2>1, <2>2 DEF AnalogOwn, Dht11Own, TemperatureOwn, Sent
<1>2. CASE Send
  <2>1. message' = create_measurement_message /\ InRound /\ line = LINES
        /\ Running /\ note[2].pending /\ errors' = errors
    BY <1>2 DEF Waits, InRound, Running
  <2> HIDE DEF Next, vars, Send
  <2>2. /\ message'.round = round /\ message'.failed = failed
        /\ message'.analog = analog_readings
        /\ message'.dht11 = [l \in {k \in Line : dht11_results[k].available} |->
                                dht11_results[l].reading]
        /\ message'.ds18b20 = SubSeq(readings, 1, num_readings)
    BY <2>1 DEF create_measurement_message
  <2>3. \A l \in Line : l < LINES
    BY DEF MeasurementsAssumption, Line
  <2>4. AnalogOwn'
    BY <2>1, <2>2, <2>3 DEF AnalogOwn, Copied, OwnAnalog, Timed
  <2>5. Dht11Own'
    BY <2>1, <2>2, <2>3 DEF Dht11Own, Copied, OwnDht11
  <2>6. \A i \in 1 .. Len(message'.ds18b20) :
           i \in 1 .. num_readings /\ message'.ds18b20[i] = readings[i]
    BY <2>2 DEF Block
  <2>7. TemperatureOwn'
    BY <2>1, <2>2, <2>6 DEF TemperatureOwn, Measured, OwnTemperature
  <2> QED BY <2>4, <2>5, <2>7
<1> QED BY <1>1, <1>2

HIDE DEF Next, vars

LEMMA InitInv == ASSUME MeasurementsAssumption, Init PROVE IInv
<1> USE DEF Init
<1>1. /\ bounds \in Bounds /\ bounds.triggers \in Nat /\ bounds.search \in Nat
      /\ bounds.read \in Nat
  BY DEF MeasurementsAssumption, Surroundings
<1>2. 0 \in Line /\ LINES \in Nat /\ CHANNELS \in Nat /\ MaxTriggers \in Nat
      /\ ONE_WIRE_MAX_SENSORS_COUNT \in Nat
  BY DEF MeasurementsAssumption, Line
<1>3. Empty \in Slot
  BY <1>2 DEF Empty, Slot
<1>4. Happened
  <2>1. triggers \in 0 .. bounds.triggers
    BY <1>1
  <2>2. errors \in [search : 0 .. bounds.search, read : 0 .. bounds.read]
    BY <1>1
  <2> QED BY <1>1, <2>1, <2>2 DEF Happened
<1>5. Slots
  BY <1>3 DEF Slots, Empty
<1>6. Places
  BY <1>2 DEF Places, AtLine, InRound, Empty
<1>7. Samples
  BY DEF Samples, Sample, Result
<1>8. Copies
  BY DEF Copies, NoMessage
<1>9. Block
  BY <1>2 DEF Block, Temperature
<1>10. Control
  BY DEF Control, AnalogIdle, Dht11Idle, OneWireIdle, Running, Empty
<1>11. Sampled /\ Received /\ Measured /\ Timed
  BY DEF Sampled, Received, Measured, Timed, Running, Empty
<1>12. Copied
  BY DEF Copied, InRound
<1>13. AnalogOwn /\ Dht11Own /\ TemperatureOwn
  BY DEF AnalogOwn, Dht11Own, TemperatureOwn, Sent
<1> QED BY <1>4, <1>5, <1>6, <1>7, <1>8, <1>9, <1>10, <1>11, <1>12, <1>13
        DEF IInv, Types

LEMMA NextInv ==
    ASSUME MeasurementsAssumption, IInv, [Next]_vars PROVE IInv'
<1> USE DEF IInv, Types
<1>1. Happened' BY HappenedStep
<1>2. Slots' BY SlotsStep
<1>3. Places' BY PlacesStep
<1>4. Samples' BY SamplesStep
<1>5. Copies' BY CopiesStep
<1>6. Block' BY BlockStep
<1>7. Control' BY ControlStep
<1>8. Sampled' BY SampledStep
<1>9. Received' BY ReceivedStep
<1>10. Copied' BY CopiedStep
<1>11. Measured' BY MeasuredStep
<1>12. (AnalogOwn /\ Dht11Own /\ TemperatureOwn)' BY MessageStep
<1>13. Timed' BY TimedStep
<1> QED BY <1>1, <1>2, <1>3, <1>4, <1>5, <1>6, <1>7, <1>8, <1>9, <1>10, <1>11,
           <1>12, <1>13

LEMMA MeasurementsInvariant == Spec => []IInv
<1>1. Init => IInv
  BY InitInv, MeasurementsAssumption
<1>2. IInv /\ [Next]_vars => IInv'
  BY NextInv, MeasurementsAssumption
<1> QED BY <1>1, <1>2, PTL DEF Spec

(* Type correctness, for every number of lines, channels and probes.       *)
THEOREM MeasurementsTyped == Spec => []TypeOK
<1>1. IInv => TypeOK
  <2>1. ASSUME IInv PROVE TypeOK
    <3>1. Happened /\ Slots /\ Places /\ Samples /\ Copies /\ Block
      BY <2>1 DEF IInv, Types
    <3>2. triggers \in 0 .. MaxTriggers /\ bounds.triggers \in 0 .. MaxTriggers
      BY <3>1, BoundsTyped, MeasurementsAssumption DEF Happened
    <3>3. /\ round \in 0 .. MaxTriggers /\ message.round \in 0 .. MaxTriggers
          /\ measured \in 0 .. ONE_WIRE_MAX_SENSORS_COUNT
      BY <3>1, <3>2, MeasurementsAssumption
         DEF Places, Copies, Block, MeasurementsAssumption
    <3> QED BY <3>1, <3>2, <3>3
            DEF TypeOK, Happened, Slots, Places, Samples, Copies, Block
  <2> QED BY <2>1
<1> QED BY <1>1, MeasurementsInvariant, PTL

(* What a message says of the analog inputs was measured on those lines in *)
(* the round of the message, also when the timer expires amid the round:   *)
(* only the line whose pointer the expiry met is read further on, and that *)
(* needs a search that was broken.                                         *)
THEOREM AnalogTheorem == Spec => []AnalogOwn
  BY MeasurementsInvariant, PTL DEF IInv

(* The same of the DHT11 sensors.                                          *)
THEOREM Dht11Theorem == Spec => []Dht11Own
  BY MeasurementsInvariant, PTL DEF IInv

(* The same of the probes on the 1-Wire bus, each by its address.          *)
THEOREM TemperatureTheorem == Spec => []TemperatureOwn
  BY MeasurementsInvariant, PTL DEF IInv

(* No reading is written or formatted outside the block, or uninitialised. *)
THEOREM BlockTheorem == Spec => []ReadingsInBlock
<1>1. IInv => ReadingsInBlock
  BY DEF IInv, Types, Block, Measured, ReadingsInBlock
<1> QED BY <1>1, MeasurementsInvariant, PTL

(* The multiplexer is never switched under a worker.                       *)
THEOREM MuxTheorem == Spec => MuxStable
<1> DEFINE Stable == mux' # mux => /\ apc = "take" /\ dpc = "take"
                                   /\ wakes \cap {"analog", "dht11"} = {}
<1>1. ASSUME IInv, [Next]_vars PROVE [Stable]_vars
  <2>1. mux' # mux => mpc = "line"
    BY <1>1 DEF Next, vars, envVars, expiryVars, masterVars, analogVars, dht11Vars, owVars,
       Trigger, Master, BeginRound, SelectLine, CopyAnalog, Panic, CopyDht11,
       Send, Analog, AnalogTake, AnalogSample, AnalogNotify, Callback, Dht11,
       Dht11Read, Dht11Parse, Dht11Notify, OneWire, OneWireTake, SearchNext,
       SearchError, SearchEnd, Convert, GetTemperature, OneWireNotify
  <2> QED BY <1>1, <2>1 DEF IInv, Control, AnalogIdle, Dht11Idle
<1>2. IInv /\ [Next]_vars => [Stable]_vars
  BY <1>1
<1> HIDE DEF Stable
<1>3. [][IInv]_vars /\ [][Next]_vars => [][Stable]_vars
  BY <1>2, PTL
<1> QED BY <1>3, MeasurementsInvariant, PTL DEF Spec, MuxStable, Stable

-----------------------------------------------------------------------------
(* What the drivers of the sensors compute, for every register, frame and  *)
(* temperature.                                                            *)

Uint8 == {n \in Nat : n < 256}
Uint16 == {n \in Nat : n < 65536}
Int16 == {n \in Int : -32768 <= n /\ n < 32768}

-----------------------------------------------------------------------------
(* The multiplexer *)

Levels == [pin32 : 0 .. 1, pin33 : 0 .. 1, pin5 : 0 .. 1]

(* mux_address(i) of a round connects line i (mux.c:19-29).                *)
THEOREM ConnectionTheorem ==
    ASSUME NEW levels \in Levels, NEW address \in Nat
    PROVE  MuxConnects(levels, address)
<1>1. CASE address > 7
  BY <1>1 DEF MuxConnects, mux_address, Address
<1>2. CASE ~(address > 7)
  <2>1. address \in Address
    BY <1>2 DEF Address
  <2>2. \/ address = 0 \/ address = 1 \/ address = 2 \/ address = 3
        \/ address = 4 \/ address = 5 \/ address = 6 \/ address = 7
    BY <2>1 DEF Address
  <2>. QED
    BY <1>2, <2>1, <2>2 DEF MuxConnects, mux_address, Connected, High
<1>. QED
  BY <1>1, <1>2

-----------------------------------------------------------------------------
(* The ADS1115 *)

(* The configuration of the driver stays among those listed, and with each *)
(* of them the word written for a channel is the same (ads1115.c:45-59,    *)
(* analog_measurements.c:15-38).                                           *)
THEOREM ChannelTheorem ==
    ASSUME NEW configuration \in Configurations, NEW input \in 0 .. 3
    PROVE  /\ WordForChannel(configuration, input)
           /\ AddressMux(configuration, MuxOf(input)) \in Configurations
<1>1. InitialConfiguration = 387
  BY DEF InitialConfiguration, SetPGA, Pga, ADS1115_DEFAULT_CONFIG, PGA_6_144V
<1>2. PICK field \in {0, 4, 5, 6, 7} : configuration = 4096 * field + 387
  BY <1>1 DEF Configurations
<1>3. Mux(configuration) = field
  BY <1>2 DEF Mux
<1>4. AddressMux(configuration, MuxOf(input)) = 4096 * (4 + input) + 387
  BY <1>2, <1>3 DEF AddressMux, MuxOf, MUX_ADDR_A0
<1>5. WordForChannel(configuration, input)
  <2>1. /\ ADS1115_DEFAULT_CONFIG % 512 = 387 /\ OS_BIT = 32768
        /\ 4096 * (4 + input) + 387 < OS_BIT
    BY DEF ADS1115_DEFAULT_CONFIG, OS_BIT
  <2>2. StartConversion(4096 * (4 + input) + 387)
            = 4096 * (4 + input) + 387 + OS_BIT
    BY <2>1 DEF StartConversion
  <2>. QED
    BY <1>4, <2>1, <2>2 DEF WordForChannel
<1>. QED
  BY <1>1, <1>4, <1>5 DEF Configurations

(* The two bytes on the bus are the register, in both directions           *)
(* (ads1115.c:7-16, 37).                                                   *)
THEOREM RegisterTheorem ==
    ASSUME NEW value \in Uint16
    PROVE  /\ ReadRegister(WriteRegister(value)) = value
           /\ \A i \in 1 .. 2 : WriteRegister(value)[i] \in Uint8
BY DEF ReadRegister, WriteRegister, Uint16, Uint8

(* The two truncating divisions are one by 2000.                           *)
LEMMA QuotientLemma ==
    ASSUME NEW n \in Nat
    PROVE  LET q == ((n * 375) \div 2) \div 1000 IN
           /\ q \in Nat
           /\ 2000 * q <= 375 * n /\ 375 * n < 2000 * (q + 1)
<1>. DEFINE half == (n * 375) \div 2
            q == half \div 1000
<1>1. half \in Nat /\ 2 * half <= 375 * n /\ 375 * n < 2 * half + 2
  OBVIOUS
<1>. HIDE DEF half
<1>2. q \in Nat /\ 1000 * q <= half /\ half < 1000 * q + 1000
  BY <1>1
<1>. HIDE DEF q
<1>3. 2000 * q <= 375 * n /\ 375 * n < 2000 * (q + 1)
  BY <1>1, <1>2
<1>. QED
  BY <1>2, <1>3 DEF q, half

(* Every value of the message is the voltage in millivolts                 *)
(* (analog_measurements.c:44-46).                                          *)
THEOREM MillivoltsTheorem ==
    ASSUME NEW register \in Int16
    PROVE  /\ MillivoltsExact(register)
           /\ -6144 <= Millivolts(register) /\ Millivolts(register) < 6144
<1>. DEFINE n == IF register >= 0 THEN register ELSE -register
            q == ((n * 375) \div 2) \div 1000
<1>1. n \in Nat /\ n <= 32768 /\ (register >= 0 => n < 32768)
  BY DEF Int16
<1>2. q \in Nat /\ 2000 * q <= 375 * n /\ 375 * n < 2000 * (q + 1)
  BY <1>1, QuotientLemma
<1>3. Millivolts(register) = IF register >= 0 THEN q ELSE -q
  <2>1. CASE register >= 0
    BY <2>1 DEF Millivolts, Quotient, Int16
  <2>2. CASE ~(register >= 0)
    <3>. DEFINE half == (n * 375) \div 2
    <3>1. half \in Nat /\ half > 0
      BY <1>1, <2>2 DEF Int16
    <3>2. Quotient(register * 375, 2) = -half
      BY <2>2 DEF Quotient, Int16
    <3>3. Quotient(-half, 1000) = -(half \div 1000)
      BY <3>1 DEF Quotient
    <3>. QED
      BY <2>2, <3>2, <3>3 DEF Millivolts
  <2>. QED
    BY <2>1, <2>2
<1>. HIDE DEF q
<1>4. MillivoltsExact(register)
  BY <1>2, <1>3 DEF MillivoltsExact, Int16
<1>5. -6144 <= Millivolts(register) /\ Millivolts(register) < 6144
  BY <1>1, <1>2, <1>3 DEF Int16
<1>. QED
  BY <1>4, <1>5

-----------------------------------------------------------------------------
(* The DHT11 *)

(* The bits of a byte above one of them, and that one pushed behind them.  *)
LEMMA PushLemma ==
    ASSUME NEW byte \in Uint8, NEW w \in {1, 2, 4, 8, 16, 32, 64, 128}
    PROVE  (((byte \div (2 * w)) * 2) % 256) + ((byte \div w) % 2) = byte \div w
<1>. DEFINE q == byte \div w
<1>1. q \in Nat /\ q < 256 /\ byte \div (2 * w) = q \div 2
  BY DEF Uint8
<1>. HIDE DEF q
<1>2. (((q \div 2) * 2) % 256) + (q % 2) = q
  BY <1>1
<1>. QED
  BY <1>1, <1>2 DEF q

(* Eight symbols with the bits of a byte are read as that byte: no shift   *)
(* loses a bit.                                                            *)
LEMMA ByteLemma ==
    ASSUME NEW symbols, NEW i \in Nat, NEW byte \in Uint8,
           \A k \in 0 .. 7 : symbols[i + k] \in Nat,
           Carries(symbols, i, byte)
    PROVE  ByteFrom(symbols, i) = byte
<1>. DEFINE bit(k) == IF symbols[i + k] < Threshold THEN 0 ELSE 1
<1>1. \A k \in 0 .. 7 : bit(k) = (byte \div Weight[k + 1]) % 2
  <2>. SUFFICES ASSUME NEW k \in 0 .. 7
                PROVE  bit(k) = (byte \div Weight[k + 1]) % 2
    OBVIOUS
  <2>1. k + 1 \in 1 .. 8 /\ i + (k + 1) - 1 = i + k
    OBVIOUS
  <2>2. symbols[i + k] >= Threshold <=> (byte \div Weight[k + 1]) % 2 = 1
    BY <2>1 DEF Carries
  <2>3. Weight[k + 1] \in {128, 64, 32, 16, 8, 4, 2, 1}
    BY DEF Weight
  <2>4. (byte \div Weight[k + 1]) % 2 \in {0, 1}
    BY <2>3 DEF Uint8
  <2>. QED
    BY <2>2, <2>4 DEF Threshold
<1>2. /\ bit(0) = (byte \div 128) % 2 /\ bit(1) = (byte \div 64) % 2
      /\ bit(2) = (byte \div 32) % 2 /\ bit(3) = (byte \div 16) % 2
      /\ bit(4) = (byte \div 8) % 2 /\ bit(5) = (byte \div 4) % 2
      /\ bit(6) = (byte \div 2) % 2 /\ bit(7) = byte % 2
  BY <1>1 DEF Weight, Uint8
<1>. DEFINE push(b, k) == ((b * 2) % 256) + bit(k)
<1>3. ByteFrom(symbols, i) =
        push(push(push(push(push(push(push(push(0, 0), 1), 2), 3), 4), 5), 6), 7)
  BY DEF ByteFrom, Push
<1>. HIDE DEF bit
<1>4. push(0, 0) = byte \div 128
  BY <1>2 DEF Uint8
<1>5. push(byte \div 128, 1) = byte \div 64
  BY <1>2, PushLemma
<1>6. push(byte \div 64, 2) = byte \div 32
  BY <1>2, PushLemma
<1>7. push(byte \div 32, 3) = byte \div 16
  BY <1>2, PushLemma
<1>8. push(byte \div 16, 4) = byte \div 8
  BY <1>2, PushLemma
<1>9. push(byte \div 8, 5) = byte \div 4
  BY <1>2, PushLemma
<1>10. push(byte \div 4, 6) = byte \div 2
  BY <1>2, PushLemma
<1>11. push(byte \div 2, 7) = byte
  BY <1>2 DEF Uint8
<1>. HIDE DEF push
<1>. QED
  BY <1>3, <1>4, <1>5, <1>6, <1>7, <1>8, <1>9, <1>10, <1>11

Frames == [0 .. FrameLength - 1 -> Nat]

Readings == [rh_integral : Uint8, rh_decimal : Uint8,
             temp_integral : Uint8, temp_decimal : Uint8]

(* A complete frame is read as the four bytes it carries                   *)
(* (dht11.c:82-126).                                                       *)
THEOREM FrameTheorem ==
    ASSUME NEW symbols \in Frames, NEW reading \in Readings,
           NEW result \in Readings
    PROVE  FrameParsed(symbols, reading, result)
<1>. SUFFICES ASSUME Carries(symbols, 2, reading.rh_integral),
                     Carries(symbols, 10, reading.rh_decimal),
                     Carries(symbols, 18, reading.temp_integral),
                     Carries(symbols, 26, reading.temp_decimal)
              PROVE  DHT11_Parse(symbols, FrameLength, result) = reading
  BY DEF FrameParsed
<1>1. \A i \in {2, 10, 18, 26} : \A k \in 0 .. 7 : symbols[i + k] \in Nat
  BY DEF Frames, FrameLength
<1>2. ByteFrom(symbols, 2) = reading.rh_integral
  BY <1>1, ByteLemma DEF Readings
<1>3. ByteFrom(symbols, 10) = reading.rh_decimal
  BY <1>1, ByteLemma DEF Readings
<1>4. ByteFrom(symbols, 18) = reading.temp_integral
  BY <1>1, ByteLemma DEF Readings
<1>5. ByteFrom(symbols, 26) = reading.temp_decimal
  BY <1>1, ByteLemma DEF Readings
<1>. QED
  BY <1>2, <1>3, <1>4, <1>5 DEF DHT11_Parse, Readings

(* Two frames that differ in their checksums only are read alike: no       *)
(* checksum, right or wrong, has any influence.                            *)
THEOREM ChecksumTheorem ==
    ASSUME NEW symbols, NEW other, NEW result,
           \A i \in 2 .. 33 : symbols[i] = other[i]
    PROVE  DHT11_Parse(symbols, FrameLength, result) =
               DHT11_Parse(other, FrameLength, result)
<1>1. \A i \in {2, 10, 18, 26} : ByteFrom(symbols, i) = ByteFrom(other, i)
  BY DEF ByteFrom, Push
<1>. QED
  BY <1>1 DEF DHT11_Parse

-----------------------------------------------------------------------------
(* The DS18B20 *)

(* The probe's range is -55 to 125 degrees; the theorem needs only that    *)
(* the temperature fits the two bytes (ds18b20.c:127-129).                 *)
THEOREM ProbeTheorem ==
    ASSUME NEW degrees \in Int16, NEW resolution \in Resolution
    PROVE  TemperatureRead(degrees, resolution)
<1>. DEFINE word == degrees % 65536
<1>1. ConfigurationByte(resolution) \div 32 = resolution
  BY DEF ConfigurationByte, Resolution
<1>2. word = IF degrees < 0 THEN degrees + 65536 ELSE degrees
  BY DEF Int16
<1>3. get_temperature(Scratchpad(degrees, resolution)) =
        (word \div 256) * 256
            + ((word % 256) - ((word % 256) % Step(resolution)))
  BY <1>1 DEF get_temperature, Scratchpad
<1>4. Step(resolution) \in {8, 4, 2, 1}
  BY DEF Step, Resolution
<1>5. (word % 256) % Step(resolution) = degrees % Step(resolution)
  <2>1. word % 256 = degrees % 256
    BY <1>2 DEF Int16
  <2>2. /\ (degrees % 256) % 8 = degrees % 8
        /\ (degrees % 256) % 4 = degrees % 4
        /\ (degrees % 256) % 2 = degrees % 2
        /\ (degrees % 256) % 1 = degrees % 1
    BY DEF Int16
  <2>. QED
    BY <1>4, <2>1, <2>2
<1>6. word \in Uint16 /\ (word \div 256) * 256 + (word % 256) = word
  BY <1>2 DEF Int16, Uint16
<1>7. degrees % Step(resolution) \in Int
  BY <1>4 DEF Int16
<1>. HIDE DEF word
<1>8. /\ (word \div 256) * 256 \in Int /\ word % 256 \in Int
  BY <1>6 DEF Uint16
<1>9. get_temperature(Scratchpad(degrees, resolution)) =
        word - (degrees % Step(resolution))
  BY <1>3, <1>5, <1>6, <1>7, <1>8 DEF Uint16
<1>. QED
  BY <1>2, <1>7, <1>9 DEF TemperatureRead, Rounded, Int16
=============================================================================
