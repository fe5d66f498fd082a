-------------------------- MODULE OneWireBusProofs --------------------------
(***************************************************************************)
(* Proofs about OneWireBus, for every length of a byte, of the buffer and  *)
(* of the transmitter's queue. What keeps the calls truthful is Aligned:   *)
(* between two calls nothing is left of the one before, neither an item to *)
(* play nor a reception nor an event, and inside a call that receives the  *)
(* item, the recording and the event follow each other. TypeOK needs of    *)
(* the receiver that what it records fits what it was armed for.           *)
(***************************************************************************)
EXTENDS OneWireBus, SequenceTheorems, TLAPS

RxFits ==
    /\ rx.state # "idle" => rx.capacity >= 1
    /\ rx.state = "receiving" /\ ~rx.noisy =>
         Len(rx.captured) >= 1 /\ Len(rx.captured) <= rx.capacity

(* What the receiver records of the current call's own transmission.       *)
Expected ==
    IF call.op = "reset" THEN ResetSymbols
    ELSE [i \in 1 .. call.bits |-> ReadSymbol(driven[i])]

Driven == call.op = "read" => driven \in [1 .. call.bits -> {0, 1}]

Nothing == tx = <<>> /\ rx.state = "idle" /\ receive_queue = <<>>

Playing ==
    /\ tx = <<Item>> /\ receive_queue = <<>>
    /\ rx.state = "armed" /\ rx.capacity = Capacity

Recording ==
    /\ tx = <<>> /\ receive_queue = <<>>
    /\ rx.state = "receiving" /\ rx.captured = Expected /\ Driven

Reported ==
    /\ tx = <<>> /\ rx.state = "idle"
    /\ receive_queue = <<Len(Expected)>> /\ Driven
    /\ Len(Expected) <= Len(rx_symbols_buf)
    /\ \A i \in 1 .. Len(Expected) : rx_symbols_buf[i] = Expected[i]

Aligned ==
    ~disturbed =>
        /\ ~shorted /\ ~rx.noisy
        /\ pc \in {"new", "failed", "idle", "receive"} => Nothing
        /\ pc \in {"new", "failed"} => call.op = "write" /\ result.err = "OK"
        /\ pc = "receive" => call.op # "write"
        /\ pc = "transmit" =>
             /\ tx = <<>> /\ receive_queue = <<>>
             /\ IF call.op = "write" THEN rx.state = "idle"
                ELSE rx.state = "armed" /\ rx.capacity = Capacity
        /\ pc = "drain" =>
             /\ call.op = "write"
             /\ rx.state = "idle" /\ receive_queue = <<>>
             /\ tx = <<>> \/ tx = <<Item>>
        /\ pc = "wait" =>
             /\ call.op # "write"
             /\ Playing \/ Recording \/ Reported

IInv == TypeOK /\ RxFits /\ Aligned /\ Truthful

-----------------------------------------------------------------------------
LEMMA Sizes == MAX_RX_BYTES * BYTE \in Nat /\ MAX_RX_BYTES * BYTE >= 2
BY BusAssumption

(* What a reset and a read show is a sequence of symbols.                  *)
LEMMA SymbolsOK ==
    /\ \A low, high \in Nat : Symbol(low, high) \in Symbols
    /\ ResetSymbols \in Seq(Symbols)
    /\ Len(ResetSymbols) >= 1 /\ Len(ResetSymbols) <= 2
    /\ \A bit \in {0, 1} : ReadSymbol(bit) \in Symbols
    /\ NoiseSymbols \subseteq Symbols
<1>1. \A low, high \in Nat : Symbol(low, high) \in Symbols
  BY DEF Symbol, Symbols
<1>2. /\ ResetSymbols \in Seq(Symbols)
      /\ Len(ResetSymbols) >= 1 /\ Len(ResetSymbols) <= 2
  BY <1>1 DEF ResetSymbols, ONEWIRE_RESET_PULSE_DURATION
<1>3. \A bit \in {0, 1} : ReadSymbol(bit) \in Symbols
  BY <1>1 DEF ReadSymbol, ONEWIRE_SLOT_START_DURATION
<1>4. NoiseSymbols \subseteq Symbols
  BY <1>1 DEF NoiseSymbols, Symbols
<1> QED BY <1>1, <1>2, <1>3, <1>4

LEMMA NoiseOK ==
    ASSUME NEW capacity \in Nat, NEW symbols \in Noise(capacity)
    PROVE  /\ symbols \in Seq(Symbols)
           /\ Len(symbols) >= 1 /\ Len(symbols) <= capacity
<1>1. PICK n \in 1 .. capacity : symbols \in [1 .. n -> NoiseSymbols]
  BY DEF Noise
<1>2. symbols \in [1 .. n -> Symbols]
  BY <1>1, SymbolsOK
<1>3. symbols \in Seq(Symbols) /\ Len(symbols) = n
  BY <1>2, SeqDef, LenProperties
<1> QED BY <1>3

(* A recording replaces the head of the buffer and leaves the rest.        *)
LEMMA WrittenOK ==
    ASSUME rx_symbols_buf \in Seq(Symbols), NEW symbols \in Seq(Symbols)
    PROVE  /\ Written(symbols) \in Seq(Symbols)
           /\ Len(Written(symbols)) =
                IF Len(symbols) > Len(rx_symbols_buf)
                THEN Len(symbols) ELSE Len(rx_symbols_buf)
           /\ \A i \in 1 .. Len(symbols) : Written(symbols)[i] = symbols[i]
<1> DEFINE rest == SubSeq(rx_symbols_buf, Len(symbols) + 1, Len(rx_symbols_buf))
<1>1. /\ rest \in Seq(Symbols)
      /\ Len(rest) = IF Len(symbols) > Len(rx_symbols_buf)
                     THEN 0 ELSE Len(rx_symbols_buf) - Len(symbols)
  OBVIOUS
<1>2. QED BY <1>1 DEF Written

LEMMA CapacityOK ==
    ASSUME call \in Calls
    PROVE  Capacity \in 1 .. MAX_RX_BYTES * BYTE
BY Sizes DEF Calls, Capacity

Results == [err : {"OK", "FAIL", "NOT_FOUND", "TIMEOUT"}, bits : Seq({0, 1})]
Items == [kind : {"reset", "write", "read"}, slots : 1 .. MAX_RX_BYTES * BYTE]
Receivers == [state : {"idle", "armed", "receiving"},
              capacity : 0 .. MAX_RX_BYTES * BYTE, captured : Seq(Symbols),
              noisy : BOOLEAN]

LEMMA EmptyOK ==
    /\ NoBits \in Seq({0, 1}) /\ Len(NoBits) = 0
    /\ NoReception \in Receivers
    /\ <<>> \in Seq(Symbols) /\ Len(<<>>) = 0
BY Sizes DEF NoBits, NoReception, Receivers

(* What every return leaves to its caller has its type.                    *)
LEMMA ReturnOK ==
    ASSUME call \in Calls, NEW err \in {"OK", "FAIL", "NOT_FOUND", "TIMEOUT"},
           NEW bits \in Seq({0, 1}), Len(bits) <= call.bits,
           Return(err, bits), call' = call
    PROVE  /\ result' \in Results
           /\ Len(result'.bits) <= call'.bits
           /\ pc' = "idle" /\ bus_mutex' = FALSE
BY DEF Return, Results

LEMMA ReturnNoBits ==
    ASSUME call \in Calls, NEW err \in {"OK", "FAIL", "NOT_FOUND", "TIMEOUT"},
           Return(err, NoBits), call' = call
    PROVE  /\ result' \in Results
           /\ Len(result'.bits) <= call'.bits
           /\ pc' = "idle" /\ bus_mutex' = FALSE
<1>1. NoBits \in Seq({0, 1}) /\ Len(NoBits) <= call.bits
  BY EmptyOK, Sizes DEF Calls
<1> QED BY <1>1, ReturnOK

LEMMA TruncatedOK ==
    ASSUME rx \in Receivers, NEW symbols \in Seq(Symbols), Len(symbols) >= 1,
           rx.capacity >= 1
    PROVE  /\ Truncated(symbols) \in Seq(Symbols)
           /\ Len(Truncated(symbols)) >= 1
           /\ Len(Truncated(symbols)) <= rx.capacity
           /\ Len(symbols) <= rx.capacity => Truncated(symbols) = symbols
<1> rx.capacity \in Nat
  BY Sizes DEF Receivers
<1> QED BY DEF Truncated

LEMMA ShownOK ==
    ASSUME NEW item \in Items, NEW bits \in [1 .. item.slots -> {0, 1}]
    PROVE  Shown(item, bits) \in Seq(Symbols) /\ Len(Shown(item, bits)) >= 1
<1>1. CASE item.kind = "reset"
  <2>1. Shown(item, bits) = ResetSymbols
    BY <1>1 DEF Shown
  <2> QED BY <2>1, SymbolsOK, Zenon
<1>2. CASE item.kind # "reset"
  <2>1. item.slots \in Nat /\ item.slots >= 1
    BY Sizes DEF Items
  <2>2. Shown(item, bits) \in [1 .. item.slots -> Symbols]
    BY <1>2, SymbolsOK DEF Shown
  <2> QED BY <2>1, <2>2, SeqDef, LenProperties
<1> QED BY <1>1, <1>2

LEMMA HeardOK ==
    ASSUME rx \in Receivers, RxFits, shorted \in BOOLEAN,
           NEW item \in Items, NEW bits \in [1 .. item.slots -> {0, 1}],
           rx' = Heard(item, bits)
    PROVE  rx' \in Receivers /\ RxFits'
<1>1. CASE shorted \/ rx.state = "idle"
  BY <1>1 DEF Heard, RxFits
<1>2. CASE /\ ~(shorted \/ rx.state = "idle")
           /\ rx.state = "armed" /\ ~rx.noisy /\ item.kind # "write"
  <2>1. rx' = [rx EXCEPT !.state = "receiving",
                         !.captured = Truncated(Shown(item, bits))]
    BY <1>2 DEF Heard
  <2>2. /\ Truncated(Shown(item, bits)) \in Seq(Symbols)
        /\ Len(Truncated(Shown(item, bits))) >= 1
        /\ Len(Truncated(Shown(item, bits))) <= rx.capacity
    BY <1>2, ShownOK, TruncatedOK DEF RxFits
  <2> QED BY <1>2, <2>1, <2>2 DEF Receivers, RxFits
<1>3. CASE /\ ~(shorted \/ rx.state = "idle")
           /\ ~(rx.state = "armed" /\ ~rx.noisy /\ item.kind # "write")
  BY <1>3, EmptyOK DEF Heard, Disturbed, Receivers, RxFits
<1> QED BY <1>1, <1>2, <1>3

LEMMA DecodeOK ==
    ASSUME rx_symbols_buf \in Seq(Symbols), NEW num \in Nat, NEW bits \in Nat,
           num <= Len(rx_symbols_buf)
    PROVE  /\ decode_data(num, bits) \in [1 .. bits -> {0, 1}]
           /\ decode_data(num, bits) \in Seq({0, 1})
           /\ Len(decode_data(num, bits)) = bits
<1>1. decode_data(num, bits) \in [1 .. bits -> {0, 1}]
  BY DEF decode_data, DecodedBit
<1>2. QED
  BY <1>1, SeqDef, LenProperties

-----------------------------------------------------------------------------
LEMMA InitInv == Init => IInv
<1> SUFFICES ASSUME Init PROVE IInv
  OBVIOUS
<1>1. TypeOK
  <2>1. call \in Calls /\ Len(result.bits) <= call.bits
    BY Sizes, EmptyOK DEF Init, Calls
  <2>2. result \in Results /\ rx \in Receivers
    BY EmptyOK DEF Init, Results
  <2>3. /\ driven \in Seq({0, 1}) /\ rx_symbols_buf \in Seq(Symbols)
        /\ Len(rx_symbols_buf) = 0
    BY EmptyOK DEF Init
  <2>4. /\ tx \in Seq(Items) /\ receive_queue \in Seq(1 .. Len(rx_symbols_buf))
        /\ Len(tx) = 0 /\ Len(receive_queue) = 0
    BY DEF Init
  <2>5. 0 <= MAX_RX_BYTES * BYTE /\ 0 <= ONEWIRE_RMT_DEFAULT_TRANS_QUEUE_SIZE
    BY Sizes, BusAssumption
  <2>6. /\ created \subseteq Handles /\ pc = "new" /\ bus_mutex \in BOOLEAN
        /\ devices \in BOOLEAN /\ shorted \in BOOLEAN /\ disturbed \in BOOLEAN
    BY DEF Init
  <2>7. Len(tx) <= ONEWIRE_RMT_DEFAULT_TRANS_QUEUE_SIZE /\ Len(receive_queue) <= 1
        /\ Len(rx_symbols_buf) <= MAX_RX_BYTES * BYTE
    BY <2>3, <2>4, <2>5
  <2> QED
    BY <2>1, <2>2, <2>3, <2>4, <2>6, <2>7 DEF TypeOK, Results, Receivers, Items
<1>2. RxFits
  BY DEF Init, RxFits, NoReception
<1>3. Aligned /\ Truthful
  BY DEF Init, Aligned, Nothing, NoReception, Truthful
<1> QED BY <1>1, <1>2, <1>3 DEF IInv

(* The receiver and the buffer, for the steps that do not touch them.      *)
LEMMA TypeNext == TypeOK /\ RxFits /\ [Next]_vars => TypeOK' /\ RxFits'
<1> SUFFICES ASSUME TypeOK, RxFits, [Next]_vars
             PROVE  TypeOK' /\ RxFits'
  OBVIOUS
<1> USE DEF TypeOK, RxFits
<1>1. CASE NewBus
  <2>1. created' \subseteq Handles
    BY <1>1 DEF NewBus, destroy, Handles
  <2>2. pc' = "failed" => created' = {}
    BY <1>1 DEF NewBus, destroy
  <2> QED BY <1>1, <2>1, <2>2 DEF NewBus, wireVars
<1>2. CASE Restart
  BY <1>2 DEF Restart, wireVars
<1>3. CASE Take
  <2>1. result' \in Results
    BY <1>3, EmptyOK DEF Take, Results
  <2>2. Len(result'.bits) <= call'.bits
    BY <1>3, EmptyOK, Sizes DEF Take, Calls
  <2> QED BY <1>3, <2>1, <2>2 DEF Take, wireVars, Results
<1>4. CASE Receive
  <2>1. CASE rx' = Armed /\ pc' = "transmit" /\ UNCHANGED <<result, bus_mutex>>
    <3>1. rx' \in Receivers /\ rx'.capacity >= 1 /\ rx'.state = "armed"
      BY <2>1, CapacityOK, EmptyOK, Sizes DEF Armed, Receivers
    <3> QED BY <1>4, <2>1, <3>1 DEF Receive, wireVars, Receivers
  <2>2. CASE Return("FAIL", NoBits) /\ UNCHANGED rx
    BY <1>4, <2>2, ReturnNoBits DEF Receive, wireVars, Results
  <2> QED BY <1>4, <2>1, <2>2 DEF Receive
<1>5. CASE Transmit
  <2>1. Item \in [kind : {"reset", "write", "read"}, slots : 1 .. MAX_RX_BYTES * BYTE]
    BY DEF Item, Calls
  <2>2. CASE Return("FAIL", NoBits) /\ UNCHANGED tx /\ disturbed' = TRUE
    BY <1>5, <2>2, ReturnNoBits DEF Transmit, wireVars, Results
  <2>3. CASE /\ Len(tx) < ONEWIRE_RMT_DEFAULT_TRANS_QUEUE_SIZE
             /\ tx' = Append(tx, Item)
             /\ pc' = IF call.op = "write" THEN "drain" ELSE "wait"
             /\ UNCHANGED <<result, bus_mutex, disturbed>>
    BY <1>5, <2>1, <2>3, BusAssumption DEF Transmit, wireVars
  <2> QED BY <1>5, <2>2, <2>3 DEF Transmit
<1>6. CASE Drain
  BY <1>6, ReturnNoBits DEF Drain, wireVars, Results
<1>7. CASE Decode
  <2> DEFINE num == receive_queue[1]
  <2>1. num \in Nat /\ num <= Len(rx_symbols_buf) /\ call.bits \in Nat
    BY <1>7, Sizes DEF Decode, Calls
  <2>2. /\ decode_data(num, call.bits) \in Seq({0, 1})
        /\ Len(decode_data(num, call.bits)) = call.bits
    BY <2>1, DecodeOK
  <2>3. /\ result' \in Results /\ Len(result'.bits) <= call'.bits
        /\ pc' = "idle" /\ bus_mutex' = FALSE
    <3>1. CASE call.op = "reset"
      <4>1. CASE check_presence_pulse(num)
        BY <1>7, <3>1, <4>1, ReturnNoBits, Zenon DEF Decode
      <4>2. CASE ~check_presence_pulse(num)
        BY <1>7, <3>1, <4>2, ReturnNoBits, Zenon DEF Decode
      <4> QED BY <4>1, <4>2
    <3>2. CASE call.op # "reset"
      <4>1. Return("OK", decode_data(num, call.bits)) /\ call' = call
        BY <1>7, <3>2 DEF Decode
      <4>2. Len(decode_data(num, call.bits)) <= call.bits
        BY <2>1, <2>2
      <4> HIDE DEF num
      <4> QED BY <4>1, <4>2, <2>2, ReturnOK
    <3> QED BY <3>1, <3>2
  <2>4. receive_queue' \in Seq(1 .. Len(rx_symbols_buf')) /\ Len(receive_queue') = 0
    BY <1>7 DEF Decode
  <2>5. /\ UNCHANGED <<created, call, tx, rx, rx_symbols_buf>>
        /\ UNCHANGED <<wireVars, disturbed>>
    BY <1>7 DEF Decode
  <2>6. bus_mutex' \in BOOLEAN
    BY <2>3
  <2>7. Len(receive_queue') <= 1
    BY <2>4
  <2>8. /\ result' \in Results /\ Len(result'.bits) <= call'.bits
        /\ pc' = "idle"
    BY <2>3
  <2> QED BY <2>4, <2>5, <2>6, <2>7, <2>8 DEF wireVars, Results
<1>8. CASE Timeout
  BY <1>8, ReturnNoBits DEF Timeout, wireVars, Results
<1>9. CASE Play
  <2>1. Head(tx) \in Items /\ Tail(tx) \in Seq(Items) /\ Len(Tail(tx)) <= Len(tx)
    <3>1. tx \in Seq(Items) /\ tx # <<>>
      BY <1>9 DEF Play, Items
    <3> QED BY <3>1, HeadTailProperties
  <2>2. PICK bits \in Answers(Head(tx)) :
            /\ rx' = Heard(Head(tx), bits)
            /\ driven' = IF Head(tx).kind = "read" /\ ~disturbed
                         THEN bits ELSE driven
    BY <1>9 DEF Play
  <2>3. bits \in [1 .. Head(tx).slots -> {0, 1}] /\ Head(tx).slots \in Nat
    BY <2>1, <2>2, Sizes DEF Answers, Items
  <2>4. driven' \in Seq({0, 1})
    <3>1. bits \in Seq({0, 1}) /\ driven \in Seq({0, 1})
      <4> DEFINE n == Head(tx).slots
      <4>1. n \in Nat /\ bits \in [1 .. n -> {0, 1}]
        BY <2>3
      <4> HIDE DEF n
      <4> QED BY <4>1
    <3> QED BY <2>2, <3>1, Zenon
  <2>5. tx' \in Seq(Items) /\ Len(tx') <= ONEWIRE_RMT_DEFAULT_TRANS_QUEUE_SIZE
    BY <1>9, <2>1, BusAssumption DEF Play
  <2>6. rx' \in Receivers /\ RxFits'
    BY <2>1, <2>2, <2>3, HeardOK DEF Receivers
  <2> QED BY <1>9, <2>4, <2>5, <2>6 DEF Play, callerVars, Items, Receivers
<1>10. CASE rx_done_callback
  <2>1. PICK symbols \in Seq(Symbols) :
            /\ Len(symbols) >= 1 /\ Len(symbols) <= rx.capacity
            /\ rx_symbols_buf' = Written(symbols)
            /\ receive_queue' = IF receive_queue = <<>>
                                THEN <<Len(symbols)>> ELSE receive_queue
    <3>1. \A symbols \in IF rx.noisy THEN Noise(rx.capacity) ELSE {rx.captured} :
            /\ symbols \in Seq(Symbols)
            /\ Len(symbols) >= 1 /\ Len(symbols) <= rx.capacity
      <4>1. rx.capacity \in Nat
        BY Sizes
      <4>2. CASE rx.noisy
        BY <4>1, <4>2, NoiseOK
      <4>3. CASE ~rx.noisy
        BY <1>10, <4>3 DEF rx_done_callback
      <4> QED BY <4>2, <4>3
    <3> QED BY <1>10, <3>1 DEF rx_done_callback
  <2>2. /\ rx_symbols_buf' \in Seq(Symbols)
        /\ Len(rx_symbols_buf') = IF Len(symbols) > Len(rx_symbols_buf)
                                  THEN Len(symbols) ELSE Len(rx_symbols_buf)
    BY <2>1, WrittenOK
  <2>3. Len(rx_symbols_buf') <= MAX_RX_BYTES * BYTE
    BY <2>1, <2>2, Sizes
  <2>4. receive_queue' \in Seq(1 .. Len(rx_symbols_buf'))
    <3>1. 1 .. Len(rx_symbols_buf) \subseteq 1 .. Len(rx_symbols_buf')
      BY <2>2
    <3>2. CASE receive_queue = <<>>
      <4>1. Len(symbols) \in 1 .. Len(rx_symbols_buf')
        BY <2>1, <2>2
      <4> QED BY <2>1, <3>2, <4>1
    <3>3. CASE receive_queue # <<>>
      BY <2>1, <3>1, <3>3, SeqMonotonic
    <3> QED BY <3>2, <3>3
  <2>5. Len(receive_queue') <= 1
    BY <2>1
  <2>6. rx' \in Receivers /\ rx'.state = "idle"
    BY <1>10, EmptyOK DEF rx_done_callback, NoReception
  <2> QED
    BY <1>10, <2>2, <2>3, <2>4, <2>5, <2>6
    DEF rx_done_callback, callerVars, wireVars, Receivers
<1>11. CASE Short
  <2>1. rx' \in Receivers /\ RxFits'
    BY <1>11, EmptyOK DEF Short, Disturbed, Receivers
  <2>2. shorted' \in BOOLEAN /\ disturbed' \in BOOLEAN
    BY <1>11 DEF Short
  <2> QED BY <1>11, <2>1, <2>2 DEF Short, callerVars, Receivers
<1>12. CASE UNCHANGED vars
  BY <1>12 DEF vars, callerVars, wireVars
<1> QED
  BY <1>1, <1>2, <1>3, <1>4, <1>5, <1>6, <1>7, <1>8, <1>9, <1>10, <1>11, <1>12
  DEF Next, Caller

-----------------------------------------------------------------------------
(* The event of the current call says what the devices did.                *)
LEMMA ReportedTrue ==
    ASSUME call \in Calls, call.op # "write", devices \in BOOLEAN,
           Reported, rx_symbols_buf \in Seq(Symbols)
    PROVE  /\ call.op = "reset" =>
                (check_presence_pulse(receive_queue[1]) <=> devices)
           /\ call.op = "read" =>
                decode_data(receive_queue[1], call.bits) = driven
<1>1. receive_queue[1] = Len(Expected)
  BY DEF Reported
<1>2. ASSUME call.op = "reset"
      PROVE  check_presence_pulse(receive_queue[1]) <=> devices
  <2>1. Expected = ResetSymbols
    BY <1>2 DEF Expected
  <2>2. CASE devices
    <3>1. Expected = <<Symbol(500, 30), Symbol(120, 0)>>
      BY <2>1, <2>2 DEF ResetSymbols, ONEWIRE_RESET_PULSE_DURATION
    <3>2. /\ receive_queue[1] = 2
          /\ rx_symbols_buf[1] = Symbol(500, 30)
          /\ rx_symbols_buf[2] = Symbol(120, 0)
      BY <1>1, <3>1 DEF Reported
    <3> QED
      BY <2>2, <3>2 DEF check_presence_pulse, Symbol,
         ONEWIRE_RESET_PRESENCE_WAIT_DURATION_MIN,
         ONEWIRE_RESET_PRESENCE_DURATION_MIN
  <2>3. CASE ~devices
    <3>1. Expected = <<Symbol(500, 0)>>
      BY <2>1, <2>3 DEF ResetSymbols, ONEWIRE_RESET_PULSE_DURATION
    <3>2. receive_queue[1] = 1
      BY <1>1, <3>1
    <3> QED BY <2>3, <3>2 DEF check_presence_pulse
  <2> QED BY <2>2, <2>3
<1>3. ASSUME call.op = "read"
      PROVE  decode_data(receive_queue[1], call.bits) = driven
  <2>1. call.bits \in Nat /\ driven \in [1 .. call.bits -> {0, 1}]
    BY <1>3, Sizes DEF Reported, Driven, Calls
  <2>2. Expected = [i \in 1 .. call.bits |-> ReadSymbol(driven[i])]
    BY <1>3 DEF Expected
  <2>3. Len(Expected) = call.bits
    BY <2>1, <2>2
  <2>4. ASSUME NEW i \in 1 .. call.bits
        PROVE  DecodedBit(rx_symbols_buf[i]) = driven[i]
    <3>1. rx_symbols_buf[i] = ReadSymbol(driven[i])
      BY <2>2, <2>3 DEF Reported
    <3>2. driven[i] \in {0, 1}
      BY <2>1
    <3> QED
      BY <3>1, <3>2 DEF DecodedBit, ReadSymbol, Symbol,
         ONEWIRE_SLOT_START_DURATION, ONEWIRE_SLOT_BIT_SAMPLE_TIME
  <2>5. decode_data(receive_queue[1], call.bits) = [i \in 1 .. call.bits |-> driven[i]]
    BY <1>1, <2>1, <2>3, <2>4 DEF decode_data
  <2> QED BY <2>1, <2>5
<1> QED BY <1>2, <1>3

LEMMA AlignedNext == IInv /\ [Next]_vars => Aligned' /\ Truthful'
<1> SUFFICES ASSUME IInv, [Next]_vars, ~disturbed'
             PROVE  Aligned' /\ Truthful'
  BY DEF Aligned, Truthful
<1>0. /\ ~disturbed
      /\ TypeOK /\ RxFits /\ Aligned /\ Truthful
      /\ call \in Calls /\ devices \in BOOLEAN
  <2>1. ~disturbed
    BY DEF IInv, TypeOK, Next, Caller, NewBus, Restart, Take, Receive, Transmit,
       Drain, Decode, Timeout, Play, rx_done_callback, Short, vars
  <2> QED BY <2>1 DEF IInv, TypeOK
<1>1. CASE NewBus
  BY <1>0, <1>1 DEF NewBus, wireVars, Aligned, Nothing, Truthful
<1>2. CASE Restart
  BY <1>0, <1>2 DEF Restart, wireVars, Aligned, Nothing, Truthful
<1>3. CASE Take
  BY <1>0, <1>3 DEF Take, wireVars, Aligned, Nothing, Truthful
<1>4. CASE Receive
  <2>1. /\ tx = <<>> /\ rx.state = "idle" /\ receive_queue = <<>>
        /\ pc = "receive" /\ call.op # "write" /\ ~shorted
    BY <1>0, <1>4 DEF Receive, Aligned, Nothing
  <2>2. rx' = Armed /\ pc' = "transmit"
    BY <1>4, <2>1 DEF Receive
  <2>3. rx'.state = "armed" /\ rx'.capacity = Capacity /\ ~rx'.noisy
    BY <2>1, <2>2 DEF Armed
  <2>4. /\ UNCHANGED <<call, tx, receive_queue, shorted, disturbed>>
        /\ Capacity' = Capacity
    BY <1>4 DEF Receive, wireVars, Capacity
  <2> QED BY <2>1, <2>2, <2>3, <2>4 DEF Aligned, Truthful
<1>5. CASE Transmit
  <2>1. /\ tx = <<>> /\ tx' = Append(tx, Item)
        /\ pc' = IF call.op = "write" THEN "drain" ELSE "wait"
        /\ UNCHANGED <<call, rx, receive_queue, shorted>>
    BY <1>0, <1>5 DEF Transmit, wireVars, Aligned
  <2>2. tx' = <<Item>>
    BY <2>1
  <2>3. Item' = Item /\ Capacity' = Capacity
    BY <2>1 DEF Item, Capacity
  <2> HIDE DEF Item, Capacity
  <2> QED
    BY <1>0, <1>5, <2>1, <2>2, <2>3 DEF Transmit, Aligned, Playing, Truthful
<1>6. CASE Drain
  BY <1>0, <1>6 DEF Drain, Return, wireVars, Aligned, Nothing, Truthful
<1>7. CASE Decode
  <2>1. pc = "wait" /\ Reported /\ call.op # "write"
    BY <1>0, <1>7 DEF Decode, Aligned, Playing, Recording, Reported
  <2>2. Aligned'
    BY <1>0, <1>7, <2>1 DEF Decode, Return, wireVars, Aligned, Nothing, Reported
  <2>3. Truthful'
    <3>1. rx_symbols_buf \in Seq(Symbols) /\ call.op \in {"reset", "write", "read"}
      BY <1>0 DEF TypeOK, Calls
    <3>2. /\ call.op = "reset" =>
               (check_presence_pulse(receive_queue[1]) <=> devices)
          /\ call.op = "read" =>
               decode_data(receive_queue[1], call.bits) = driven
      BY <1>0, <2>1, <3>1, ReportedTrue
    <3>3. CASE call.op = "reset"
      <4>1. result'.err = IF devices THEN "OK" ELSE "NOT_FOUND"
        BY <1>7, <3>2, <3>3 DEF Decode, Return
      <4> QED BY <1>7, <3>3, <4>1 DEF Decode, wireVars, Truthful
    <3>4. CASE call.op = "read"
      <4>1. result'.err = "OK" /\ result'.bits = driven
        BY <1>7, <3>2, <3>4 DEF Decode, Return
      <4> QED BY <1>7, <3>4, <4>1 DEF Decode, wireVars, Truthful
    <3> QED BY <2>1, <3>1, <3>3, <3>4
  <2> QED BY <2>2, <2>3
<1>8. CASE Timeout
  BY <1>0, <1>8 DEF Timeout, Aligned, Playing, Recording, Reported
<1>9. CASE Play
  <2>1. /\ tx # <<>> /\ tx' = Tail(tx) /\ ~shorted /\ ~rx.noisy
        /\ UNCHANGED <<created, pc, call, result, receive_queue, rx_symbols_buf,
                       devices, shorted, disturbed>>
    BY <1>0, <1>9 DEF Play, callerVars, Aligned
  <2>2. PICK bits \in Answers(Head(tx)) :
            /\ rx' = Heard(Head(tx), bits)
            /\ driven' = IF Head(tx).kind = "read" /\ ~disturbed
                         THEN bits ELSE driven
    BY <1>9 DEF Play
  <2>3. pc \in {"drain", "wait"}
    BY <1>0, <2>1 DEF TypeOK, Aligned, Nothing
  <2>4. tx = <<Item>> /\ Head(tx) = Item /\ tx' = <<>> /\ Item \in Items
    <3>1. tx = <<Item>>
      BY <1>0, <2>1, <2>3 DEF Aligned, Playing, Recording, Reported
    <3>2. Item \in Items
      BY <1>0 DEF Item, Items, Calls
    <3> QED BY <2>1, <3>1, <3>2
  <2>5. CASE pc = "drain"
    <3>1. rx.state = "idle" /\ rx' = rx /\ receive_queue = <<>> /\ call.op = "write"
      BY <1>0, <2>2, <2>5 DEF Aligned, Heard
    <3> QED BY <2>1, <2>4, <2>5, <3>1 DEF Aligned, Truthful
  <2>6. CASE pc = "wait"
    <3>1. /\ receive_queue = <<>> /\ call.op # "write"
          /\ rx.state = "armed" /\ rx.capacity = Capacity
      BY <1>0, <2>1, <2>6 DEF Aligned, Playing, Recording, Reported
    <3>2. bits \in [1 .. Item.slots -> {0, 1}]
      BY <2>2, <2>4, Sizes DEF Answers, Items
    <3>3. rx' = [rx EXCEPT !.state = "receiving",
                           !.captured = Truncated(Shown(Item, bits))]
      BY <2>1, <2>2, <2>4, <3>1 DEF Heard, Item
    <3>4. /\ Shown(Item, bits) \in Seq(Symbols) /\ Len(Shown(Item, bits)) >= 1
          /\ Len(Shown(Item, bits)) <= Capacity
      <4>1. CASE call.op = "reset"
        <5>1. Shown(Item, bits) = ResetSymbols /\ Capacity = 2
          BY <4>1 DEF Shown, Item, Capacity
        <5> QED BY <5>1, SymbolsOK, Zenon
      <4>2. CASE call.op # "reset"
        <5>1. Len(Shown(Item, bits)) = call.bits /\ Capacity = call.bits
          BY <1>0, <4>2, Sizes DEF Shown, Item, Capacity, Calls
        <5> QED BY <1>0, <2>4, <3>2, <5>1, ShownOK, Sizes DEF Calls
      <4> QED BY <4>1, <4>2
    <3>5. Truncated(Shown(Item, bits)) = Shown(Item, bits)
      <4>1. rx \in Receivers /\ rx.capacity >= 1
        BY <1>0, <3>1 DEF TypeOK, Receivers, RxFits
      <4> QED BY <3>1, <3>4, <4>1, TruncatedOK
    <3>6. Shown(Item, bits) = Expected'
      <4>1. CASE call.op = "reset"
        BY <2>1, <4>1 DEF Shown, Item, Expected, ResetSymbols
      <4>2. CASE call.op # "reset"
        <5>1. call.op = "read"
          BY <1>0, <3>1, <4>2 DEF Calls
        <5>2. driven' = bits
          <6>1. Head(tx).kind = "read"
            BY <2>4, <5>1 DEF Item
          <6> QED BY <1>0, <2>2, <6>1, Zenon
        <5>3. Shown(Item, bits) = [i \in 1 .. call.bits |-> ReadSymbol(bits[i])]
          BY <4>2 DEF Shown, Item
        <5>4. Expected' = [i \in 1 .. call.bits |-> ReadSymbol(bits[i])]
          BY <2>1, <4>2, <5>2 DEF Expected
        <5> QED BY <5>3, <5>4
      <4> QED BY <4>1, <4>2
    <3>7. Driven'
      <4>1. CASE call.op = "read"
        <5>1. driven' = bits /\ Item.slots = call.bits
          <6>1. Head(tx).kind = "read" /\ Item.slots = call.bits
            BY <2>4, <4>1 DEF Item
          <6> QED BY <1>0, <2>2, <6>1, Zenon
        <5> QED BY <2>1, <3>2, <5>1 DEF Driven
      <4>2. CASE call.op # "read"
        BY <2>1, <4>2 DEF Driven
      <4> QED BY <4>1, <4>2
    <3>8. rx'.state = "receiving" /\ rx'.captured = Expected' /\ ~rx'.noisy
      <4>1. rx \in Receivers
        BY <1>0 DEF TypeOK, Receivers
      <4> QED BY <2>1, <3>3, <3>5, <3>6, <4>1 DEF Receivers
    <3>9. Recording'
      BY <2>1, <2>4, <3>1, <3>7, <3>8 DEF Recording
    <3> QED BY <1>0, <2>1, <2>6, <3>1, <3>8, <3>9 DEF Aligned, Truthful
  <2> QED BY <2>3, <2>5, <2>6
<1>10. CASE rx_done_callback
  <2>1. /\ rx.state = "receiving" /\ ~rx.noisy /\ ~shorted
        /\ UNCHANGED <<pc, call, result, tx, devices, shorted, driven, disturbed>>
        /\ rx' = NoReception
    BY <1>0, <1>10 DEF rx_done_callback, callerVars, wireVars, Aligned
  <2>2. pc = "wait" /\ Recording /\ call.op # "write"
    BY <1>0, <2>1 DEF TypeOK, Aligned, Nothing, Playing, Recording, Reported
  <2>3. /\ rx_symbols_buf' = Written(Expected)
        /\ receive_queue' = <<Len(Expected)>>
    BY <1>10, <2>1, <2>2 DEF rx_done_callback, Recording
  <2>4. Expected \in Seq(Symbols) /\ rx_symbols_buf \in Seq(Symbols)
    BY <1>0, <2>2 DEF TypeOK, Recording
  <2>5. Expected' = Expected /\ Driven'
    BY <2>1, <2>2 DEF Expected, ResetSymbols, Recording, Driven
  <2>6. Reported'
    <3>1. /\ Len(Expected) <= Len(rx_symbols_buf')
          /\ \A i \in 1 .. Len(Expected) : rx_symbols_buf'[i] = Expected[i]
      <4> DEFINE symbols == Expected
      <4>1. symbols \in Seq(Symbols) /\ rx_symbols_buf' = Written(symbols)
        BY <2>3, <2>4
      <4> HIDE DEF symbols
      <4>2. /\ Len(symbols) <= Len(rx_symbols_buf')
            /\ \A i \in 1 .. Len(symbols) : rx_symbols_buf'[i] = symbols[i]
        <5>1. /\ Len(Written(symbols)) =
                     IF Len(symbols) > Len(rx_symbols_buf)
                     THEN Len(symbols) ELSE Len(rx_symbols_buf)
              /\ \A i \in 1 .. Len(symbols) : Written(symbols)[i] = symbols[i]
          BY <2>4, <4>1, WrittenOK
        <5> QED BY <2>4, <4>1, <5>1
      <4> QED BY <4>2 DEF symbols
    <3> QED BY <2>1, <2>2, <2>3, <2>5, <3>1 DEF Reported, Recording, NoReception
  <2> QED BY <2>1, <2>2, <2>6 DEF Aligned, Truthful, NoReception
<1>11. CASE Short
  BY <1>11 DEF Short
<1>12. CASE UNCHANGED vars
  BY <1>0, <1>12 DEF vars, callerVars, wireVars, Aligned, Nothing, Playing, Item, Capacity,
     Recording, Reported, Expected, Driven, ResetSymbols, Truthful
<1> QED
  BY <1>1, <1>2, <1>3, <1>4, <1>5, <1>6, <1>7, <1>8, <1>9, <1>10, <1>11, <1>12
  DEF IInv, Next, Caller

-----------------------------------------------------------------------------
(* The bus object is complete or gone and every event lies in the buffer,  *)
(* whatever happens on the bus: what decode_data and check_presence_pulse  *)
(* read was written, and what they return fits the caller.                 *)
THEOREM BusTyped == Spec => []TypeOK
<1>1. Init => TypeOK /\ RxFits
  BY InitInv DEF IInv
<1>2. TypeOK /\ RxFits /\ [Next]_vars => (TypeOK /\ RxFits)'
  BY TypeNext
<1> QED BY <1>1, <1>2, PTL DEF Spec

(* As long as nothing disturbs the bus, every call of the driver returns   *)
(* what is on the wire.                                                    *)
THEOREM BusTruthful == Spec => []Truthful
<1>1. IInv /\ [Next]_vars => IInv'
  BY TypeNext, AlignedNext DEF IInv
<1>2. IInv => Truthful
  BY DEF IInv
<1> QED BY InitInv, <1>1, <1>2, PTL DEF Spec
=============================================================================
