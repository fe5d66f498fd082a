----------------------------- MODULE OneWireBus -----------------------------
(***************************************************************************)
(* The driver of the 1-Wire bus, components/one_wire_bus: one task calls   *)
(* reset, write and read; a transmitter plays queued items on the wire, a  *)
(* receiver that was armed records the symbols it sees there, and when the *)
(* wire has been quiet for longer than signal_range_max_ns an interrupt    *)
(* puts the number of symbols into a queue of one element. The symbols     *)
(* themselves stay in one buffer, which is decoded when the caller gets to *)
(* it. OneWireSearch takes every call as one step that succeeds, fails or  *)
(* misreads; here is what that rests on.                                   *)
(***************************************************************************)
EXTENDS Naturals, Sequences

CONSTANTS
    BYTE,           \* bits of a byte, 8 in the code
    MAX_RX_BYTES,   \* max_rx_bytes, 10 in the code
    ONEWIRE_RMT_DEFAULT_TRANS_QUEUE_SIZE    \* 4 in the code

ASSUME BusAssumption ==
    /\ BYTE \in Nat \ {0}
    /\ MAX_RX_BYTES \in Nat \ {0}
    /\ MAX_RX_BYTES * BYTE >= 2
    /\ ONEWIRE_RMT_DEFAULT_TRANS_QUEUE_SIZE \in Nat \ {0}

VARIABLES
    created,            \* resources the bus object holds
    pc, call, result,   \* the caller: place, call and what it returned
    bus_mutex,          \* taken
    tx,                 \* items of the transmitter still to be played
    rx,                 \* the receiver
    receive_queue,      \* counts of symbols, at most one
    rx_symbols_buf,     \* what receptions have written of the buffer
    devices,            \* there are devices on the bus
    shorted,            \* the data line is held at ground
    driven,             \* history: the bits the devices sent last
    disturbed           \* history: a short circuit or a failure occurred

callerVars == <<pc, call, result, bus_mutex>>
wireVars   == <<devices, shorted, driven>>
vars == <<created, callerVars, tx, rx, receive_queue, rx_symbols_buf, wireVars,
          disturbed>>

-----------------------------------------------------------------------------
(* One symbol of the receiver: a low and a high level with their durations *)
(* in microseconds, the high one 0 when the recording ended in it. A bus   *)
(* that was low when the recording began has the levels the other way.     *)
Symbol(low, high) == [level1 |-> 1, duration0 |-> low, duration1 |-> high]

ONEWIRE_RESET_PULSE_DURATION == 500
ONEWIRE_RESET_PRESENCE_WAIT_DURATION_MIN == 15
ONEWIRE_RESET_PRESENCE_DURATION_MIN == 60
ONEWIRE_SLOT_START_DURATION == 2
ONEWIRE_SLOT_BIT_SAMPLE_TIME == 15

(* The devices answer a reset pulse 15 to 60 after its end for 60 to 240,  *)
(* and send a 0 by holding the line beyond the time of the sample.         *)
ResetSymbols ==
    IF devices
    THEN <<Symbol(ONEWIRE_RESET_PULSE_DURATION, 30), Symbol(120, 0)>>
    ELSE <<Symbol(ONEWIRE_RESET_PULSE_DURATION, 0)>>

ReadSymbol(bit) ==
    IF bit = 1 THEN Symbol(ONEWIRE_SLOT_START_DURATION, 60) ELSE Symbol(30, 30)

(* What a recording may hold when a short circuit begins or ends in it, or *)
(* when it did not begin with the transmission it was meant for.           *)
NoiseSymbols ==
    {Symbol(120, 120), [level1 |-> 0, duration0 |-> 2, duration1 |-> 2]}
Noise(capacity) == UNION {[1 .. n -> NoiseSymbols] : n \in 1 .. capacity}

(* onewire_rmt_check_presence_pulse: a pause after the reset pulse, then a *)
(* low level that is long enough.                                          *)
check_presence_pulse(num_symbols) ==
    /\ num_symbols >= 2
    /\ LET first == rx_symbols_buf[1]  second == rx_symbols_buf[2] IN
       IF first.level1 = 1
       THEN /\ first.duration1 > ONEWIRE_RESET_PRESENCE_WAIT_DURATION_MIN
            /\ second.duration0 > ONEWIRE_RESET_PRESENCE_DURATION_MIN
       ELSE /\ first.duration0 > ONEWIRE_RESET_PRESENCE_WAIT_DURATION_MIN
            /\ second.duration1 > ONEWIRE_RESET_PRESENCE_DURATION_MIN

DecodedBit(symbol) ==
    IF symbol.duration0 > ONEWIRE_SLOT_BIT_SAMPLE_TIME THEN 0 ELSE 1

(* Mutant: the loop does not stop at the end of the caller's buffer.       *)
decode_data_unbounded(num_symbols, bits) ==
    [i \in 1 .. IF num_symbols > bits THEN num_symbols ELSE bits |->
        IF i <= num_symbols THEN DecodedBit(rx_symbols_buf[i]) ELSE 0]

(* onewire_rmt_decode_data into a cleared buffer of that many bits.        *)
decode_data(num_symbols, bits) ==
    [i \in 1 .. bits |->
        IF i <= num_symbols THEN DecodedBit(rx_symbols_buf[i]) ELSE 0]

-----------------------------------------------------------------------------
(* onewire_new_bus_rmt acquires these one after the other, and destroy     *)
(* releases what is not NULL.                                              *)
Resources == <<"object", "tx_bytes_encoder", "tx_copy_encoder", "rx_channel",
               "tx_channel", "rx_symbols_buf", "receive_queue", "bus_mutex">>
Handles == {Resources[i] : i \in DOMAIN Resources}

destroy == created \ Handles

(* The last steps register the callback, enable the channels and release   *)
(* the bus, which takes a microsecond and is over long before the first    *)
(* call. Each step may fail, which ends in the restart of the program.     *)
NewBus ==
    /\ pc = "new"
    /\ \/ \E i \in DOMAIN Resources :
            /\ created = {Resources[j] : j \in 1 .. i - 1}
            /\ created' = created \cup {Resources[i]}
            /\ UNCHANGED pc
       \/ /\ created = Handles
          /\ pc' = "idle"
          /\ UNCHANGED created
       \/ /\ pc' = "failed"
          /\ created' = destroy
    /\ UNCHANGED <<call, result, bus_mutex, tx, rx, receive_queue,
                   rx_symbols_buf, wireVars, disturbed>>

Restart ==
    /\ pc = "failed"
    /\ pc' = "new"
    /\ UNCHANGED <<created, call, result, bus_mutex, tx, rx, receive_queue,
                   rx_symbols_buf, wireVars, disturbed>>

-----------------------------------------------------------------------------
(* The functions of the driver. Each takes the mutex, and from every place *)
(* inside it returns through the label err, which gives the mutex back.    *)

Calls == [op : {"reset", "write", "read"}, bits : 1 .. MAX_RX_BYTES * BYTE]

(* Symbols the receiver is armed for, and the item that is transmitted.    *)
Capacity == IF call.op = "reset" THEN 2 ELSE call.bits
Item == [kind |-> call.op, slots |-> call.bits]

(* Mutant: an error returns past the label err.                            *)
Return_early(err, bits) ==
    /\ pc' = "idle"
    /\ bus_mutex' = (err = "FAIL")
    /\ result' = [err |-> err, bits |-> bits]

Return(err, bits) ==
    /\ pc' = "idle"
    /\ bus_mutex' = FALSE
    /\ result' = [err |-> err, bits |-> bits]

NoBits == <<>>

(* read_bit asks for one bit, read_bytes for as many bytes as the buffer   *)
(* was made for at most; it returns before all else when asked for more.   *)
Take ==
    /\ pc = "idle"
    /\ ~bus_mutex
    /\ call' \in Calls
    /\ \/ call'.bits = 1
       \/ /\ call'.op = "read"
          /\ \E n \in 1 .. MAX_RX_BYTES : call'.bits = n * BYTE
    /\ bus_mutex' = TRUE
    /\ result' = [err |-> "OK", bits |-> NoBits]
    /\ pc' = IF call'.op = "write" THEN "transmit" ELSE "receive"
    /\ UNCHANGED <<created, tx, rx, receive_queue, rx_symbols_buf,
                   wireVars, disturbed>>

Armed == [state |-> "armed", capacity |-> Capacity, captured |-> <<>>,
          noisy |-> tx # <<>>]

(* rmt_receive. One that finds a reception under way is refused or takes   *)
(* its place: the driver of the channel is not part of the repository.     *)
Receive ==
    /\ pc = "receive"
    /\ \/ /\ rx' = Armed
          /\ pc' = "transmit"
          /\ UNCHANGED <<result, bus_mutex>>
       \/ /\ rx.state # "idle"
          /\ Return("FAIL", NoBits)
          /\ UNCHANGED rx
    /\ UNCHANGED <<created, call, tx, receive_queue, rx_symbols_buf, wireVars,
                   disturbed>>

(* rmt_transmit, which waits for a free place in its queue.                *)
Transmit ==
    /\ pc = "transmit"
    /\ \/ /\ Len(tx) < ONEWIRE_RMT_DEFAULT_TRANS_QUEUE_SIZE
          /\ tx' = Append(tx, Item)
          /\ pc' = IF call.op = "write" THEN "drain" ELSE "wait"
          /\ UNCHANGED <<result, bus_mutex, disturbed>>
       \/ /\ disturbed' = TRUE
          /\ Return("FAIL", NoBits)
          /\ UNCHANGED tx
    /\ UNCHANGED <<created, call, rx, receive_queue, rx_symbols_buf, wireVars>>

(* Mutant: a write does not wait for its transmission.                     *)
Drain_none ==
    /\ pc = "drain"
    /\ Return("OK", NoBits)
    /\ UNCHANGED <<created, call, tx, rx, receive_queue, rx_symbols_buf,
                   wireVars, disturbed>>

(* rmt_tx_wait_all_done: what is queued takes less than its 50 ms.         *)
Drain ==
    /\ pc = "drain"
    /\ tx = <<>>
    /\ Return("OK", NoBits)
    /\ UNCHANGED <<created, call, tx, rx, receive_queue, rx_symbols_buf,
                   wireVars, disturbed>>

Decode ==
    /\ pc = "wait"
    /\ receive_queue # <<>>
    /\ receive_queue' = <<>>
    /\ IF call.op = "reset"
       THEN Return(IF check_presence_pulse(receive_queue[1])
                   THEN "OK" ELSE "NOT_FOUND", NoBits)
       ELSE Return("OK", decode_data(receive_queue[1], call.bits))
    /\ UNCHANGED <<created, call, tx, rx, rx_symbols_buf, wireVars, disturbed>>

(* A transmission and a reception take milliseconds, the wait lasts 1000.  *)
Timeout ==
    /\ pc = "wait"
    /\ receive_queue = <<>> /\ tx = <<>> /\ rx.state # "receiving"
    /\ Return("TIMEOUT", NoBits)
    /\ UNCHANGED <<created, call, tx, rx, receive_queue, rx_symbols_buf,
                   wireVars, disturbed>>

Caller == Receive \/ Transmit \/ Drain \/ Decode \/ Timeout

-----------------------------------------------------------------------------
(* The wire. *)

Truncated(symbols) == SubSeq(symbols, 1,
    IF Len(symbols) < rx.capacity THEN Len(symbols) ELSE rx.capacity)

(* The bits that the slots of a read get from the devices, if there are.   *)
Answers(item) ==
    IF item.kind = "read" /\ devices THEN [1 .. item.slots -> {0, 1}]
                                     ELSE {[i \in 1 .. item.slots |-> 1]}

Shown(item, bits) ==
    IF item.kind = "reset" THEN ResetSymbols
    ELSE [i \in 1 .. item.slots |-> ReadSymbol(bits[i])]

(* The receiver hears something, but not from its beginning or not alone.  *)
Disturbed ==
    [rx EXCEPT !.state = "receiving", !.noisy = TRUE, !.captured = <<>>]

(* A shorted line shows no edge.                                           *)
Heard(item, bits) ==
    IF shorted \/ rx.state = "idle" THEN rx
    ELSE IF rx.state = "armed" /\ ~rx.noisy /\ item.kind # "write"
    THEN [rx EXCEPT !.state = "receiving",
                    !.captured = Truncated(Shown(item, bits))]
    ELSE Disturbed

(* The transmitter plays an item.                                          *)
Play ==
    /\ tx # <<>>
    /\ tx' = Tail(tx)
    /\ \E bits \in Answers(Head(tx)) :
        /\ rx' = Heard(Head(tx), bits)
        /\ driven' = IF Head(tx).kind = "read" /\ ~disturbed
                     THEN bits ELSE driven
    /\ UNCHANGED <<created, callerVars, receive_queue, rx_symbols_buf, devices,
                   shorted, disturbed>>

Written(symbols) ==
    symbols \o SubSeq(rx_symbols_buf, Len(symbols) + 1, Len(rx_symbols_buf))

NoReception == [state |-> "idle", capacity |-> 0, captured |-> <<>>,
                noisy |-> FALSE]

(* The line was quiet: the recording goes into the buffer, and the call-   *)
(* back sends the event unless an event is still in the queue.             *)
rx_done_callback ==
    /\ rx.state = "receiving"
    /\ \E symbols \in IF rx.noisy THEN Noise(rx.capacity) ELSE {rx.captured} :
        /\ rx_symbols_buf' = Written(symbols)
        /\ receive_queue' = IF receive_queue = <<>>
                            THEN <<Len(symbols)>> ELSE receive_queue
    /\ rx' = NoReception
    /\ UNCHANGED <<created, callerVars, tx, wireVars, disturbed>>

(* The line is held at ground, or let go: an edge for the receiver.        *)
Short ==
    /\ pc \notin {"new", "failed"}
    /\ shorted' = ~shorted
    /\ disturbed' = TRUE
    /\ rx' = IF rx.state = "idle" THEN rx ELSE Disturbed
    /\ UNCHANGED <<created, callerVars, tx, receive_queue, rx_symbols_buf,
                   devices, driven>>

Init ==
    /\ created = {}
    /\ pc = "new" /\ call = [op |-> "write", bits |-> 1]
    /\ result = [err |-> "OK", bits |-> NoBits]
    /\ bus_mutex = FALSE
    /\ tx = <<>> /\ rx = NoReception
    /\ receive_queue = <<>> /\ rx_symbols_buf = <<>>
    /\ devices \in BOOLEAN /\ shorted = FALSE
    /\ driven = NoBits
    /\ disturbed = FALSE

Next ==
    \/ NewBus \/ Restart \/ Take \/ Caller \/ Play \/ rx_done_callback \/ Short

Spec == Init /\ [][Next]_vars

(* Nothing makes the bus be called again or be shorted; a call goes on,    *)
(* and the two channels are hardware.                                      *)
FairSpec ==
    Spec /\ WF_vars(Caller) /\ WF_vars(Play) /\ WF_vars(rx_done_callback)

-----------------------------------------------------------------------------
Symbols == [level1 : {0, 1}, duration0 : Nat, duration1 : Nat]

(* The bus object is complete or gone, an event never counts more symbols  *)
(* than receptions have written, the buffer holds them, and a caller gets  *)
(* no more bits than it has room for, whichever reception the event is of. *)
TypeOK ==
    /\ created \subseteq Handles
    /\ pc = "failed" => created = {}
    /\ pc \in {"new", "failed", "idle", "receive", "transmit", "wait", "drain"}
    /\ call \in Calls
    /\ result \in [err : {"OK", "FAIL", "NOT_FOUND", "TIMEOUT"},
                   bits : Seq({0, 1})]
    /\ Len(result.bits) <= call.bits
    /\ bus_mutex \in BOOLEAN
    /\ tx \in Seq([kind : {"reset", "write", "read"},
                   slots : 1 .. MAX_RX_BYTES * BYTE])
    /\ Len(tx) <= ONEWIRE_RMT_DEFAULT_TRANS_QUEUE_SIZE
    /\ rx \in [state : {"idle", "armed", "receiving"},
               capacity : 0 .. MAX_RX_BYTES * BYTE, captured : Seq(Symbols),
               noisy : BOOLEAN]
    /\ receive_queue \in Seq(1 .. Len(rx_symbols_buf))
    /\ Len(receive_queue) <= 1
    /\ rx_symbols_buf \in Seq(Symbols)
    /\ Len(rx_symbols_buf) <= MAX_RX_BYTES * BYTE
    /\ devices \in BOOLEAN /\ shorted \in BOOLEAN
    /\ driven \in Seq({0, 1}) /\ disturbed \in BOOLEAN

(* Until the bus is shorted or a transmission cannot be queued, reset says *)
(* NOT_FOUND exactly if there is no device (onewire_bus.h), a read returns *)
(* the bits the devices sent in its own slots, and no call fails: an event *)
(* is always the one the caller waits for and the buffer still holds it.   *)
Truthful ==
    ~disturbed /\ pc = "idle" =>
        /\ result.err = IF call.op = "reset" /\ ~devices
                        THEN "NOT_FOUND" ELSE "OK"
        /\ call.op = "read" => result.bits = driven

(* Every call returns and gives the mutex back, whatever happened on the   *)
(* bus and whichever events the receiver lost or kept.                     *)
CallsReturn == bus_mutex ~> ~bus_mutex
=============================================================================
