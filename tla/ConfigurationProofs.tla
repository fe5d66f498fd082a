------------------------- MODULE ConfigurationProofs -------------------------
(***************************************************************************)
(* The way of a configuration, for any messages and any number of          *)
(* deliveries, cut or complete, in any chunks. The one condition is that   *)
(* no message is empty: an empty one leaves the buffer as it is, and the   *)
(* configuration before it is parsed and applied again.                    *)
(*                                                                         *)
(* What keeps the trees apart is their order. The buffer begins with the   *)
(* chunks of the message on the wire (Assembled), so what is parsed bears  *)
(* that message's number, and all trees that are known by then have lower  *)
(* ones (Ordered): applied before the one in work before the one pending.  *)
(***************************************************************************)
EXTENDS Configuration, TLAPS

Piece(k) == [id |-> deliveries, of |-> incoming, at |-> k]

Block(n) ==
    Received(IF incoming.size > buffer_size
             THEN Reallocated(buffer, incoming.size) ELSE buffer, n)

Assembled ==
    incoming # Nothing =>
        /\ deliveries >= 1
        /\ \A k \in 1 .. offset : k <= Len(buffer) /\ buffer[k] = Piece(k)

(* Older than whatever the delivery under way, or the next one, brings.    *)
Old(id) == id <= deliveries /\ (incoming # Nothing => id < deliveries)

Before(id) == \A i \in 1 .. Len(applied) : applied[i].id < id

Ordered ==
    /\ \A i \in 1 .. Len(applied) : Old(applied[i].id)
    /\ note.value # Nothing => Old(note.value.id)
    /\ json # Nothing => Old(json.id)
    /\ rpc # "wait" => json # Nothing
    /\ rpc \in {"period", "valves"} => Before(json.id)
    /\ note.pending /\ note.value # Nothing =>
          Before(note.value.id) /\ (rpc # "wait" => json.id < note.value.id)

IInv == TypeOK /\ NoDanglingTree /\ AppliedInOrder /\ Assembled /\ Ordered

NoneEmpty == \A m \in Messages : m.size # 0

-----------------------------------------------------------------------------
LEMMA SeqOfFunction ==
    ASSUME NEW S, NEW n \in Nat, NEW f \in [1 .. n -> S]
    PROVE  f \in Seq(S) /\ Len(f) = n
OBVIOUS

(* The block after a chunk begins with all chunks so far of its message.   *)
LEMMA BlockProps ==
    ASSUME ConfigurationAssumption, TypeOK, Assembled, incoming # Nothing,
           NEW n \in 0 .. incoming.size, offset + n <= incoming.size
    PROVE  /\ Block(n) \in Seq(Unit)
           /\ Len(Block(n)) = IF incoming.size > buffer_size
                              THEN incoming.size ELSE buffer_size
           /\ \A k \in 1 .. offset + n :
                 k <= Len(Block(n)) /\ Block(n)[k] = Piece(k)
<1> DEFINE total == incoming.size
           base == IF total > buffer_size THEN Reallocated(buffer, total)
                                          ELSE buffer
<1>1. total \in Nat /\ incoming \in Messages /\ deliveries \in 1 .. MaxDeliveries
  BY DEF ConfigurationAssumption, TypeOK, Assembled, Message
<1>2. /\ base \in Seq(Unit)
      /\ Len(base) = IF total > buffer_size THEN total ELSE buffer_size
      /\ \A k \in 1 .. offset : k <= Len(base) /\ base[k] = Piece(k)
  <2>1. CASE total > buffer_size
    <3>1. Reallocated(buffer, total) \in [1 .. total -> Unit]
      BY <1>1 DEF Reallocated, Unit, TypeOK
    <3>2. Reallocated(buffer, total) \in Seq(Unit)
          /\ Len(Reallocated(buffer, total)) = total
      BY <1>1, <3>1, SeqOfFunction
    <3>3. \A k \in 1 .. offset : k <= total /\ Reallocated(buffer, total)[k] = Piece(k)
      BY <1>1, <2>1 DEF Reallocated, Assembled, TypeOK
    <3> QED BY <2>1, <3>2, <3>3
  <2>2. CASE ~(total > buffer_size)
    BY <2>2 DEF Assembled, TypeOK
  <2> QED BY <2>1, <2>2
<1>3. \A k \in 1 .. Len(base) : Piece(k) \in Unit
  BY <1>1, <1>2 DEF Piece, Unit
<1>4. Block(n) = [k \in 1 .. Len(base) |->
                    IF offset < k /\ k <= offset + n THEN Piece(k) ELSE base[k]]
  BY DEF Block, Received, Piece
<1> HIDE DEF base
<1>5. Len(base) \in Nat
  BY <1>2
<1>6. Block(n) \in [1 .. Len(base) -> Unit]
  BY <1>2, <1>3, <1>4
<1>7. Block(n) \in Seq(Unit) /\ Len(Block(n)) = Len(base)
  BY <1>5, <1>6, SeqOfFunction
<1>8. \A k \in 1 .. offset + n : k <= Len(base) /\ Block(n)[k] = Piece(k)
  BY <1>1, <1>2, <1>4 DEF TypeOK
<1> QED BY <1>2, <1>7, <1>8

(* With the last chunk the block begins with the message on the wire, and  *)
(* what is parsed is made of it.                                           *)
LEMMA ParseProps ==
    ASSUME ConfigurationAssumption, TypeOK, Assembled, incoming # Nothing,
           incoming.size # 0,
           NEW n \in 0 .. incoming.size, offset + n = incoming.size,
           NEW tree \in Parses(Block(n))
    PROVE  /\ tree # Nothing => /\ tree \in Tree
                               /\ tree.id = deliveries /\ tree.of = incoming
           /\ incoming.form = "json" => tree # Nothing /\ tree.period = incoming.period
           /\ incoming.form = "garbage" => tree = Nothing
           /\ incoming.form = "open" /\ tree # Nothing => buffer_size > incoming.size
<1> DEFINE first == Block(n)[1]
           made(period) == [id |-> deliveries, of |-> incoming, period |-> period]
<1>1. incoming \in Messages /\ incoming \in Message /\ incoming.size \in Nat
      /\ deliveries \in 1 .. MaxDeliveries /\ offset \in Nat /\ buffer_size \in Nat
  BY DEF ConfigurationAssumption, TypeOK, Assembled, Message
<1>2. /\ \A k \in 1 .. incoming.size : k <= Len(Block(n)) /\ Block(n)[k] = Piece(k)
      /\ Len(Block(n)) = IF incoming.size > buffer_size
                         THEN incoming.size ELSE buffer_size
  <2>1. offset + n <= incoming.size
    BY <1>1
  <2> QED BY <2>1, BlockProps
<1>3. first = Piece(1) /\ Block(n) # <<>>
  BY <1>1, <1>2
<1>4. first # Nothing /\ first.of = incoming /\ first.id = deliveries
  BY <1>1, <1>3 DEF Piece, ConfigurationAssumption
<1>5. \A k : [first EXCEPT !.at = k] = Piece(k)
  BY <1>3 DEF Piece
<1>6. Whole(Block(n))
  BY <1>2, <1>4, <1>5 DEF Whole
<1>7. \A period \in Nat \cup {Nothing} :
         made(period) \in Tree /\ made(period) # Nothing
  BY <1>1 DEF Tree, ConfigurationAssumption
<1>8. incoming.period \in Nat \cup {Nothing} /\ Periods \subseteq Nat \cup {Nothing}
  BY <1>1 DEF Message, ConfigurationAssumption
<1>9. Parses(Block(n)) =
        IF incoming.form = "json" THEN {made(incoming.period)}
        ELSE IF incoming.form = "garbage" \/ incoming.size = Len(Block(n))
        THEN {Nothing}
        ELSE {made(period) : period \in Periods} \cup {Nothing}
  BY <1>3, <1>4, <1>6 DEF Parses
<1> HIDE DEF first
<1>10. CASE incoming.form = "json"
  BY <1>7, <1>8, <1>9, <1>10
<1>11. CASE incoming.form = "garbage"
  BY <1>9, <1>11
<1>12. CASE incoming.form \notin {"json", "garbage"}
  <2>1. CASE tree = Nothing
    BY <1>12, <2>1
  <2>2. CASE tree # Nothing
    <3>1. PICK period \in Periods : tree = made(period)
      BY <1>9, <1>12, <2>2
    <3>2. incoming.size # Len(Block(n))
      BY <1>9, <1>12, <2>2
    <3>3. buffer_size > incoming.size
      BY <1>1, <1>2, <3>2
    <3> QED BY <1>7, <1>8, <1>12, <3>1, <3>3
  <2> QED BY <2>1, <2>2
<1> QED BY <1>10, <1>11, <1>12

-----------------------------------------------------------------------------
LEMMA InitInv == ASSUME ConfigurationAssumption, Init PROVE IInv
<1> USE DEF ConfigurationAssumption, Init
<1>1. TypeOK
  <2>1. buffer \in Seq(Unit) /\ applied \in Seq(Tree) /\ Len(buffer) = 0
    OBVIOUS
  <2>2. note \in [pending : BOOLEAN, value : Tree \cup {Nothing}]
    OBVIOUS
  <2>3. measurement_period \in 0 .. 255 /\ minutes_elapsed \in 0 .. 255
    BY DEF DEFAULT_MEASUREMENT_PERIOD
  <2>4. deliveries \in 0 .. MaxDeliveries /\ offset \in Nat /\ buffer_size = 0
    OBVIOUS
  <2> QED BY <2>1, <2>2, <2>3, <2>4 DEF TypeOK
<1>2. NoDanglingTree /\ AppliedInOrder
  BY DEF NoDanglingTree, AppliedInOrder
<1>3. Assembled /\ Ordered
  BY DEF Assembled, Ordered
<1> QED BY <1>1, <1>2, <1>3 DEF IInv

LEMMA BeginStep ==
    ASSUME ConfigurationAssumption, IInv, BeginDelivery PROVE IInv'
<1> USE DEF ConfigurationAssumption, IInv, BeginDelivery, recvVars, timerVars
<1>1. TypeOK'
  BY DEF TypeOK
<1>2. NoDanglingTree' /\ AppliedInOrder'
  BY DEF NoDanglingTree, AppliedInOrder
<1>3. Assembled'
  BY DEF Assembled, TypeOK
<1>4. \A id \in Nat : Old(id) => Old(id)'
  BY DEF Old, TypeOK
<1>5. \A tree \in Tree : tree.id \in Nat
  BY DEF Tree
<1>6. \A i \in 1 .. Len(applied) : applied[i] \in Tree
  BY DEF TypeOK
<1>7. /\ note.value # Nothing => note.value.id \in Nat
      /\ json # Nothing => json.id \in Nat
  BY <1>5 DEF TypeOK
<1> HIDE DEF TypeOK
<1>8. Ordered'
  BY <1>4, <1>5, <1>6, <1>7 DEF Ordered, Before
<1> QED BY <1>1, <1>2, <1>3, <1>8

LEMMA CutStep ==
    ASSUME ConfigurationAssumption, IInv, CutDelivery PROVE IInv'
<1> USE DEF ConfigurationAssumption, IInv, CutDelivery, recvVars, timerVars
<1>1. TypeOK'
  BY DEF TypeOK
<1>2. NoDanglingTree' /\ AppliedInOrder'
  BY DEF NoDanglingTree, AppliedInOrder
<1>3. Assembled'
  BY DEF Assembled
<1>4. \A id : Old(id) => Old(id)'
  BY DEF Old
<1>5. Ordered'
  BY <1>4 DEF Ordered, Before
<1> QED BY <1>1, <1>2, <1>3, <1>5

LEMMA DataStep ==
    ASSUME ConfigurationAssumption, NoneEmpty, IInv, Data PROVE IInv'
<1> USE DEF ConfigurationAssumption, IInv
<1>1. PICK n \in 0 .. incoming.size : DataEvent(n)
  BY DEF Data
<1>2. /\ incoming # Nothing /\ incoming \in Messages /\ incoming.size \in Nat
      /\ incoming.size # 0 /\ deliveries \in 1 .. MaxDeliveries
      /\ offset \in Nat /\ offset + n <= incoming.size
  BY <1>1 DEF Data, DataEvent, NoneEmpty, TypeOK, Assembled, Message
<1>3. /\ buffer' = Block(n)
      /\ buffer_size' = IF incoming.size > buffer_size THEN incoming.size
                                                       ELSE buffer_size
      /\ UNCHANGED <<deliveries, json, rpc, measurement_period, received,
                     minutes_elapsed, applied>>
  BY <1>1 DEF DataEvent, Block, recvVars, timerVars
<1>4. /\ buffer' \in Seq(Unit) /\ buffer_size' = Len(buffer')
      /\ \A k \in 1 .. offset + n : k <= Len(buffer') /\ buffer'[k] = Piece(k)
  BY <1>2, <1>3, BlockProps
<1>5. CASE offset + n = incoming.size
  <2>1. PICK tree \in Parses(Block(n)) :
           /\ note' = [pending |-> TRUE, value |-> tree]
           /\ heap' = heap \cup ({tree} \ {Nothing})
           /\ parsed' = tree /\ incoming' = Nothing /\ offset' = 0
    BY <1>1, <1>5 DEF DataEvent, mqtt_last_chunk_of_message, Notified, Block
  <2>2. /\ note' = [pending |-> TRUE, value |-> tree]
        /\ heap' = heap \cup ({tree} \ {Nothing})
        /\ parsed' = tree /\ incoming' = Nothing /\ offset' = 0
    BY <2>1
  <2>3. tree \in Tree \cup {Nothing} /\ (tree # Nothing => tree.id = deliveries)
    BY <1>2, <1>5, ParseProps
  <2>4. TypeOK'
    BY <1>3, <1>4, <2>2, <2>3 DEF TypeOK
  <2>5. NoDanglingTree'
    BY <1>2, <1>3, <2>2, <2>3 DEF NoDanglingTree, Ordered, Old, TypeOK, Tree
  <2>6. AppliedInOrder'
    BY <1>3 DEF AppliedInOrder
  <2>7. Assembled'
    BY <2>2 DEF Assembled
  <2>8. Ordered'
    BY <1>2, <1>3, <2>2, <2>3 DEF Ordered, Old, Before, TypeOK, Tree
  <2> QED BY <2>4, <2>5, <2>6, <2>7, <2>8
<1>6. CASE offset + n # incoming.size
  <2>1. UNCHANGED <<note, heap, parsed, incoming>> /\ offset' = offset + n
    BY <1>1, <1>6 DEF DataEvent, mqtt_last_chunk_of_message
  <2>2. TypeOK'
    BY <1>2, <1>3, <1>4, <2>1 DEF TypeOK
  <2>3. NoDanglingTree' /\ AppliedInOrder'
    BY <1>3, <2>1 DEF NoDanglingTree, AppliedInOrder
  <2>4. Assembled'
    BY <1>2, <1>3, <1>4, <2>1 DEF Assembled, Piece
  <2>5. Ordered'
    BY <1>3, <2>1 DEF Ordered, Old, Before
  <2> QED BY <2>2, <2>3, <2>4, <2>5
<1> QED BY <1>5, <1>6

LEMMA WaitStep ==
    ASSUME ConfigurationAssumption, IInv, Wait PROVE IInv'
<1> USE DEF IInv, Wait, wireVars, timerVars
<1>1. TypeOK'
  BY DEF TypeOK
<1>2. NoDanglingTree'
  BY DEF NoDanglingTree, TypeOK
<1>3. AppliedInOrder' /\ Assembled'
  BY DEF AppliedInOrder, Assembled, Piece
<1>4. Ordered'
  BY DEF Ordered, Old, Before, TypeOK
<1> QED BY <1>1, <1>2, <1>3, <1>4

LEMMA SetPeriodStep ==
    ASSUME ConfigurationAssumption, IInv, SetPeriod PROVE IInv'
<1> USE DEF IInv, SetPeriod, wireVars, timerVars
<1>1. measurement_period' \in 0 .. 255
  <2>1. json \in Tree
    BY DEF TypeOK, Ordered
  <2>2. json.period \in Nat \cup {Nothing}
    BY <2>1 DEF Tree
  <2>3. \A number \in Nat : number % 256 \in 0 .. 255
    OBVIOUS
  <2>4. CASE json.period = Nothing
    BY <2>4 DEF TypeOK
  <2>5. CASE json.period # Nothing
    BY <2>2, <2>3, <2>5 DEF ToUint8
  <2> QED BY <2>4, <2>5
<1>2. TypeOK'
  BY <1>1 DEF TypeOK
<1>3. NoDanglingTree' /\ AppliedInOrder' /\ Assembled'
  BY DEF NoDanglingTree, AppliedInOrder, Assembled, Piece
<1>4. Ordered'
  BY DEF Ordered, Old, Before
<1> QED BY <1>2, <1>3, <1>4

LEMMA ConfigureStep ==
    ASSUME ConfigurationAssumption, IInv, Configure PROVE IInv'
<1> USE DEF IInv, Configure, wireVars, timerVars
<1>1. json \in Tree /\ applied \in Seq(Tree) /\ Before(json.id)
      /\ Old(json.id) /\ json.id \in Nat
  BY DEF TypeOK, Ordered, Tree
<1>2. /\ applied' \in Seq(Tree) /\ Len(applied') = Len(applied) + 1
      /\ applied'[Len(applied) + 1] = json
      /\ \A i \in 1 .. Len(applied) : applied'[i] = applied[i]
  BY <1>1
<1>3. TypeOK'
  BY <1>2 DEF TypeOK
<1>4. NoDanglingTree'
  BY DEF NoDanglingTree
<1>5. AppliedInOrder'
  BY <1>1, <1>2 DEF AppliedInOrder, Before
<1>6. Assembled'
  BY DEF Assembled, Piece
<1>7. Ordered'
  BY <1>1, <1>2 DEF Ordered, Old, Before
<1> QED BY <1>3, <1>4, <1>5, <1>6, <1>7

LEMMA DeleteStep ==
    ASSUME ConfigurationAssumption, IInv, Delete PROVE IInv'
<1> USE DEF IInv, Delete, wireVars, timerVars
<1>1. TypeOK'
  BY DEF TypeOK
<1>2. NoDanglingTree'
  BY DEF NoDanglingTree
<1>3. AppliedInOrder' /\ Assembled'
  BY DEF AppliedInOrder, Assembled, Piece
<1>4. Ordered'
  BY DEF Ordered, Old, Before
<1> QED BY <1>1, <1>2, <1>3, <1>4

LEMMA TimerStep ==
    ASSUME ConfigurationAssumption, IInv, PeriodTimer PROVE IInv'
<1> USE DEF IInv, PeriodTimer, wireVars, recvVars
<1>1. TypeOK'
  BY DEF TypeOK
<1>2. NoDanglingTree' /\ AppliedInOrder' /\ Assembled'
  BY DEF NoDanglingTree, AppliedInOrder, Assembled, Piece
<1>3. Ordered'
  BY DEF Ordered, Old, Before
<1> QED BY <1>1, <1>2, <1>3

LEMMA NextInv ==
    ASSUME ConfigurationAssumption, NoneEmpty, IInv, [Next]_vars PROVE IInv'
<1>1. CASE UNCHANGED vars
  BY <1>1 DEF vars, wireVars, recvVars, timerVars, IInv, TypeOK,
              NoDanglingTree, AppliedInOrder, Assembled, Piece, Ordered, Old,
              Before
<1> QED BY <1>1, BeginStep, CutStep, DataStep, WaitStep, SetPeriodStep,
           ConfigureStep, DeleteStep, TimerStep DEF Next, Receiver

LEMMA ConfigurationInvariant == ASSUME NoneEmpty PROVE Spec => []IInv
<1>1. Init => IInv
  BY InitInv, ConfigurationAssumption
<1>2. IInv /\ [Next]_vars => IInv'
  BY NextInv, ConfigurationAssumption
<1> QED BY <1>1, <1>2, PTL DEF Spec

(* Type correctness: whatever the period of a message is, it is kept in    *)
(* eight bits, and the minutes counted stay in them too.                   *)
THEOREM ConfigurationTyped == ASSUME NoneEmpty PROVE Spec => []TypeOK
  BY ConfigurationInvariant, PTL DEF IInv

(* No tree is used after, or freed twice by, a cJSON_Delete.               *)
THEOREM DanglingTheorem == ASSUME NoneEmpty PROVE Spec => []NoDanglingTree
  BY ConfigurationInvariant, PTL DEF IInv

(* Configurations are applied in the order they were sent, none twice.     *)
THEOREM OrderTheorem == ASSUME NoneEmpty PROVE Spec => []AppliedInOrder
  BY ConfigurationInvariant, PTL DEF IInv

(* What is parsed begins with the message whose last chunk has just        *)
(* arrived: a complete configuration is read as it was sent, and only a    *)
(* message that ends too early, in a buffer that is longer, may be         *)
(* completed by what older messages left there.                            *)
THEOREM ParseTheorem == ASSUME NoneEmpty PROVE Spec => ParsesWhatArrived
<1> DEFINE Arrived ==
        note' # note /\ note'.pending =>
          /\ note'.value # Nothing =>
                note'.value.id = deliveries /\ note'.value.of = incoming
          /\ incoming.form = "json" =>
                note'.value # Nothing /\ note'.value.period = incoming.period
          /\ incoming.form = "garbage" => note'.value = Nothing
          /\ incoming.form = "open" /\ note'.value # Nothing =>
                buffer_size > incoming.size
<1>1. ASSUME IInv, [Next]_vars PROVE Arrived
  <2>1. CASE Data
    <3>1. PICK n \in 0 .. incoming.size : DataEvent(n)
      BY <2>1 DEF Data
    <3>2. incoming # Nothing /\ incoming.size # 0 /\ offset \in Nat
          /\ incoming \in Messages
      BY <1>1, <2>1, ConfigurationAssumption
         DEF Data, NoneEmpty, IInv, TypeOK, ConfigurationAssumption
    <3>3. CASE offset + n = incoming.size
      <4>1. PICK tree \in Parses(Block(n)) : note' = [pending |-> TRUE, value |-> tree]
        BY <3>1, <3>3 DEF DataEvent, mqtt_last_chunk_of_message, Notified, Block
      <4>2. note'.value = tree
        BY <4>1
      <4> QED BY <1>1, <3>2, <3>3, <4>2, ParseProps, ConfigurationAssumption DEF IInv
    <3>4. CASE offset + n # incoming.size
      BY <3>1, <3>4 DEF DataEvent, mqtt_last_chunk_of_message
    <3> QED BY <3>3, <3>4
  <2>2. CASE Wait
    BY <1>1, <2>2 DEF Wait, IInv, TypeOK
  <2>3. CASE ~Data /\ ~Wait
    BY <1>1, <2>3 DEF Next, vars, BeginDelivery, CutDelivery, Receiver,
       SetPeriod, Configure, Delete, PeriodTimer
  <2> QED BY <2>1, <2>2, <2>3
<1> QED BY <1>1, ConfigurationInvariant, PTL DEF Spec, ParsesWhatArrived
=============================================================================
