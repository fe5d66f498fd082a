------------------------- MODULE OneWireSearchProofs -------------------------
(***************************************************************************)
(* The search for devices, for addresses of any length and any set of      *)
(* devices, on a bus where calls may fail but no bit is misread.           *)
(*                                                                         *)
(* The addresses, compared from bit 0 on, are returned in ascending order  *)
(* (Ascending). Each call turns at the last bit where the previous number  *)
(* took the 0 of a discrepancy (Turning), and beyond that bit it takes     *)
(* every 0 there is, so that no device is passed by (NonePassed). A call   *)
(* that fails has changed only bits that the next one sets again.          *)
(***************************************************************************)
EXTENDS OneWireSearch, TLAPS

rom == iter.rom_number
turn == iter.last_discrepancy
Latest == returned[Len(returned)]
Found == Range(returned)
Any == returned # <<>>
Walking == spc = "bit"

Agree(a, b, k) == \A j \in Bit : j < k => a[j] = b[j]

(* The order of the addresses, as far as bit n, and altogether.            *)
LessUpTo(a, b, n) ==
    \E k \in Bit : k < n /\ a[k] = 0 /\ b[k] = 1 /\ Agree(a, b, k)
Less(a, b) == LessUpTo(a, b, BITS)

(* a took the 0 at bit k where another device goes on with a 1.            *)
Branch(a, k) == a[k] = 0 /\ \E d \in present : d[k] = 1 /\ Agree(a, d, k)

Ascending ==
    \A i, j \in 1 .. Len(returned) : i < j => Less(returned[i], returned[j])

Turning ==
    /\ ~Any => turn = 0 /\ ~iter.is_last_device
    /\ Any => /\ iter.is_last_device <=> turn = 0
              /\ turn # 0 => Branch(Latest, turn)
              /\ \A k \in Bit : k > turn => ~Branch(Latest, k)
              /\ Agree(rom, Latest, turn)

InWalk ==
    Walking =>
        /\ ~iter.is_last_device
        /\ taking_part # {}
        /\ taking_part = {d \in present : Agree(rom, d, rom_bit_index)}
        /\ Any /\ turn < rom_bit_index => rom[turn] = 1
        /\ last_zero # 0 => last_zero < rom_bit_index /\ Branch(rom, last_zero)
        /\ \A k \in Bit :
              last_zero < k /\ k < rom_bit_index => ~Branch(rom, k)

NonePassed ==
    SameLowestBit =>
        /\ Any => \A d \in present : d \in Found \/ Less(Latest, d)
        /\ Walking => \A d \in present :
              \/ d \in Found \/ d \in taking_part
              \/ LessUpTo(rom, d, rom_bit_index)

(* The loop ends with a full array.                                        *)
Room == spc # "ended" => Len(ds18b20s) < ONE_WIRE_MAX_SENSORS_COUNT

Kept == Range(ds18b20s) = Found \cap Supported

Ended ==
    spc = "ended" =>
        \/ Len(ds18b20s) = ONE_WIRE_MAX_SENSORS_COUNT
        \/ iter.is_last_device \/ present = {}

SearchInv ==
    Undisturbed => Ascending /\ Turning /\ InWalk /\ NonePassed /\ Ended

IInv == TypeOK /\ Room /\ Kept /\ SearchInv

-----------------------------------------------------------------------------
LEMMA BitsTyped ==
    ASSUME SearchAssumption
    PROVE  BITS \in Nat /\ BITS >= 1 /\ Bit \subseteq Nat /\ 0 \in Bit
           /\ \A k \in Nat : k \in Bit <=> k < BITS
  BY DEF SearchAssumption, Bit

LEMMA AddressTyped ==
    ASSUME NEW a \in Address, NEW k \in Bit PROVE a[k] \in {0, 1}
  BY DEF Address

LEMMA PresentTyped ==
    ASSUME SearchAssumption, TypeOK PROVE present \subseteq Address
  BY DEF SearchAssumption, TypeOK

(* The order is transitive and no address is less than itself.             *)
LEMMA LessTransitive ==
    ASSUME SearchAssumption, NEW a, NEW b, NEW c, Less(a, b), Less(b, c)
    PROVE  Less(a, c)
<1>1. PICK k \in Bit : a[k] = 0 /\ b[k] = 1 /\ Agree(a, b, k)
  BY DEF Less, LessUpTo
<1>2. PICK l \in Bit : b[l] = 0 /\ c[l] = 1 /\ Agree(b, c, l)
  BY DEF Less, LessUpTo
<1>3. k \in Nat /\ l \in Nat /\ k < BITS /\ l < BITS
  BY BitsTyped
<1>4. CASE k < l
  <2>1. a[k] = 0 /\ c[k] = 1 /\ Agree(a, c, k)
    BY <1>1, <1>2, <1>3, <1>4, BitsTyped DEF Agree
  <2> QED BY <1>3, <2>1 DEF Less, LessUpTo
<1>5. CASE l < k
  <2>1. a[l] = 0 /\ c[l] = 1 /\ Agree(a, c, l)
    BY <1>1, <1>2, <1>3, <1>5, BitsTyped DEF Agree
  <2> QED BY <1>3, <2>1 DEF Less, LessUpTo
<1>6. k # l
  BY <1>1, <1>2
<1> QED BY <1>3, <1>4, <1>5, <1>6

LEMMA LessIrreflexive == ASSUME NEW a PROVE ~Less(a, a)
  BY DEF Less, LessUpTo

LEMMA AgreeAll ==
    ASSUME SearchAssumption, NEW a \in Address, NEW b \in Address,
           Agree(a, b, BITS)
    PROVE  a = b
<1>1. \A k \in Bit : a[k] = b[k]
  BY BitsTyped DEF Agree
<1> QED BY <1>1 DEF Address

LEMMA RangeAppend ==
    ASSUME NEW S, NEW s \in Seq(S), NEW e
    PROVE  Range(Append(s, e)) = Range(s) \cup {e}
<1>1. DOMAIN Append(s, e) = 1 .. Len(s) + 1 /\ DOMAIN s = 1 .. Len(s)
  OBVIOUS
<1>2. \A i \in 1 .. Len(s) : Append(s, e)[i] = s[i]
  OBVIOUS
<1>3. Append(s, e)[Len(s) + 1] = e /\ Len(s) \in Nat
  OBVIOUS
<1>4. \A i \in 1 .. Len(s) + 1 : i \in 1 .. Len(s) \/ i = Len(s) + 1
  BY <1>3
<1>5. ASSUME NEW x PROVE x \in Range(Append(s, e)) => x \in Range(s) \cup {e}
  BY <1>1, <1>2, <1>3, <1>4 DEF Range
<1>6. ASSUME NEW x \in Range(s) PROVE x \in Range(Append(s, e))
  <2>1. PICK i \in 1 .. Len(s) : x = s[i]
    BY <1>1 DEF Range
  <2>2. i \in 1 .. Len(s) + 1 /\ Append(s, e)[i] = x
    BY <1>2, <1>3, <2>1
  <2> QED BY <1>1, <2>2 DEF Range
<1>7. e \in Range(Append(s, e))
  <2>1. Len(s) + 1 \in 1 .. Len(s) + 1
    BY <1>3
  <2> QED BY <1>1, <1>3, <2>1 DEF Range
<1> QED BY <1>5, <1>6, <1>7

-----------------------------------------------------------------------------
LEMMA InitInv == ASSUME SearchAssumption, Init PROVE IInv
<1> USE DEF Init
<1>1. [b \in Bit |-> 0] \in Address
  BY DEF Address
<1>2. TypeOK
  BY <1>1, BitsTyped DEF TypeOK, SearchAssumption
<1>3. Kept /\ Room
  BY DEF Kept, Found, Range, Room, SearchAssumption
<1>4. Ascending /\ Turning /\ InWalk /\ NonePassed /\ Ended
  BY DEF Ascending, Turning, InWalk, NonePassed, Ended, Any, Walking, turn
<1> QED BY <1>2, <1>3, <1>4 DEF IInv, SearchInv

LEMMA TypeStep ==
    ASSUME SearchAssumption, TypeOK, Room, [Next]_vars PROVE TypeOK'
<1> USE DEF TypeOK
<1>0. present' = present
  BY DEF Next, vars, Call, SearchBit, EndOfNumber
<1>1. CASE UNCHANGED vars
  BY <1>1 DEF vars
<1>2. CASE Call
  BY <1>2, BitsTyped DEF Call, Return, BusError
<1>3. CASE SearchBit /\ NoneTakesPart
  BY <1>3 DEF SearchBit, NoneTakesPart, Read, Return
<1>4. CASE SearchBit /\ ReadFails
  BY <1>4 DEF SearchBit, ReadFails, BusError, Return
<1>5. CASE SearchBit /\ ChooseHalf
  <2>1. PICK rom_bit \in {0, 1}, rom_bit_complement \in {0, 1} :
           /\ Read(rom_bit, rom_bit_complement)
           /\ last_zero' \in {rom_bit_index, last_zero}
           /\ iter' = [iter EXCEPT !.rom_number[rom_bit_index] =
                          Direction(rom_bit, rom_bit_complement)]
           /\ taking_part' \subseteq taking_part
           /\ rom_bit_index' = rom_bit_index + 1
           /\ UNCHANGED <<spc, search_result>>
    BY <1>5 DEF ChooseHalf
  <2>2. rom_bit_index \in Bit /\ rom_bit_index + 1 \in 0 .. BITS
    BY <1>5, BitsTyped DEF SearchBit
  <2>3. Direction(rom_bit, rom_bit_complement) \in {0, 1}
    BY <2>1, <2>2 DEF Direction, Address
  <2>4. iter' \in [last_discrepancy : Bit, is_last_device : BOOLEAN,
                   rom_number : Address]
    BY <2>1, <2>2, <2>3 DEF Address
  <2>5. faults' \in [errors : 0 .. MaxBusErrors, misreads : 0 .. MaxMisreads]
    BY <2>1 DEF Read, SearchAssumption
  <2> QED BY <1>0, <1>5, <2>1, <2>2, <2>4, <2>5 DEF SearchBit
<1>6. CASE EndOfNumber
  <2>1. last_zero \in Bit /\ Advanced \in [last_discrepancy : Bit,
           is_last_device : BOOLEAN, rom_number : Address]
    BY DEF Advanced
  <2>2. CASE UNCHANGED <<returned, ds18b20s>>
    BY <1>0, <1>6, <2>1, <2>2 DEF EndOfNumber, Return
  <2>3. CASE /\ iter.rom_number \in present
             /\ returned' = Append(returned, iter.rom_number)
             /\ ds18b20s' = ds18b20_new_device(iter.rom_number)
             /\ Return("OK")
    <3>1. returned' \in Seq(present)
      BY <2>3
    <3>2. ds18b20s' \in Seq(present \cap Supported)
          /\ Len(ds18b20s') <= ONE_WIRE_MAX_SENSORS_COUNT
      <4>1. CASE iter.rom_number \in Supported
        <5>1. iter.rom_number \in present \cap Supported
              /\ ds18b20s' = Append(ds18b20s, iter.rom_number)
              /\ Len(ds18b20s) < ONE_WIRE_MAX_SENSORS_COUNT
          BY <1>6, <2>3, <4>1 DEF ds18b20_new_device, Room, EndOfNumber
        <5>2. Len(ds18b20s') = Len(ds18b20s) + 1 /\ Len(ds18b20s) \in Nat
              /\ ONE_WIRE_MAX_SENSORS_COUNT \in Nat
          BY <5>1 DEF SearchAssumption
        <5> QED BY <5>1, <5>2
      <4>2. CASE iter.rom_number \notin Supported
        BY <2>3, <4>2 DEF ds18b20_new_device
      <4> QED BY <4>1, <4>2
    <3> QED BY <1>0, <1>6, <2>1, <2>3, <3>1, <3>2 DEF EndOfNumber, Return
  <2> QED BY <1>6, <2>2, <2>3 DEF EndOfNumber
<1> QED BY <1>1, <1>2, <1>3, <1>4, <1>5, <1>6 DEF Next, SearchBit

LEMMA KeptStep == ASSUME TypeOK, Kept, [Next]_vars PROVE Kept'
<1>1. CASE UNCHANGED <<returned, ds18b20s>>
  BY <1>1 DEF Kept, Found
<1>2. CASE returned' = Append(returned, iter.rom_number)
           /\ ds18b20s' = ds18b20_new_device(iter.rom_number)
  <2>1. Range(returned') = Range(returned) \cup {iter.rom_number}
    BY <1>2, RangeAppend DEF TypeOK
  <2>2. Range(ds18b20s') = Range(ds18b20s) \cup ({iter.rom_number} \cap Supported)
    BY <1>2, RangeAppend DEF TypeOK, ds18b20_new_device
  <2> QED BY <2>1, <2>2 DEF Kept, Found
<1> QED BY <1>1, <1>2 DEF Next, vars, Call, SearchBit, EndOfNumber

LEMMA RoomStep ==
    ASSUME SearchAssumption, TypeOK, Room, [Next]_vars PROVE Room'
<1>1. CASE UNCHANGED <<spc, ds18b20s>>
  BY <1>1 DEF Room
<1>2. CASE spc # "ended" /\ UNCHANGED ds18b20s
  BY <1>2 DEF Room
<1>3. CASE EndOfNumber
  <2>1. TypeOK'
    BY TypeStep
  <2>2. \E result : Return(result)
    BY <1>3 DEF EndOfNumber
  <2>3. Len(ds18b20s') \in Nat /\ ONE_WIRE_MAX_SENSORS_COUNT \in Nat
        /\ Len(ds18b20s') <= ONE_WIRE_MAX_SENSORS_COUNT
    BY <2>1 DEF TypeOK, SearchAssumption
  <2> QED BY <2>2, <2>3 DEF Room, Return
<1> QED BY <1>1, <1>2, <1>3 DEF Next, vars, Call, SearchBit

-----------------------------------------------------------------------------
(* From here on no bit is misread.                                         *)
LEMMA StaysUndisturbed ==
    ASSUME SearchAssumption, TypeOK, [Next]_vars, Undisturbed'
    PROVE  Undisturbed
  BY DEF TypeOK, Undisturbed, Next, vars, Call, SearchBit, NoneTakesPart,
     ChooseHalf, ReadFails, EndOfNumber, Read, BusError

LEMMA Wires ==
    ASSUME SearchAssumption, TypeOK, rom_bit_index \in Bit, taking_part # {}
    PROVE  /\ RomBit \in {0, 1} /\ RomBitComplement \in {0, 1}
           /\ RomBit = 0 <=> \E d \in taking_part : d[rom_bit_index] = 0
           /\ RomBitComplement = 0 <=> \E d \in taking_part : d[rom_bit_index] = 1
           /\ ~(RomBit = 1 /\ RomBitComplement = 1)
<1>1. \A d \in taking_part : d[rom_bit_index] \in {0, 1}
  BY PresentTyped, AddressTyped DEF TypeOK
<1> QED BY <1>1 DEF RomBit, RomBitComplement, Wired

LEMMA CallStep ==
    ASSUME SearchAssumption, IInv, Call, Undisturbed, Undisturbed'
    PROVE  SearchInv'
<1> USE DEF IInv, SearchInv
<1>1. UNCHANGED <<present, iter, returned, ds18b20s>>
  BY DEF Call
<1>2. Ascending' /\ Turning'
  BY <1>1 DEF Ascending, Turning, Any, Latest, rom, turn, Branch, Less, LessUpTo
<1>3. CASE spc' # "bit"
  <2>1. (InWalk /\ NonePassed)'
    BY <1>1, <1>3 DEF InWalk, NonePassed, Walking, SameLowestBit, Any, Latest,
       Found, Less, LessUpTo
  <2>2. Ended'
    BY <1>1, <1>3 DEF Call, Return, Ended
  <2> QED BY <1>2, <2>1, <2>2
<1>4. CASE spc' = "bit"
  <2>1. /\ ~iter.is_last_device /\ present # {} /\ taking_part' = present
        /\ rom_bit_index' = 0 /\ last_zero' = 0
    BY <1>4 DEF Call, Return
  <2>2. turn \in Nat
    BY BitsTyped DEF TypeOK, turn
  <2>3. \A d \in present : Agree(rom, d, 0)
    BY BitsTyped DEF Agree
  <2>4. InWalk'
    BY <1>1, <2>1, <2>2, <2>3, BitsTyped DEF InWalk, Any, turn, rom
  <2>5. NonePassed'
    BY <1>1, <2>1 DEF NonePassed, SameLowestBit, Any, Latest, Found, Less, LessUpTo
  <2>6. Ended'
    BY <1>4 DEF Ended
  <2> QED BY <1>2, <2>4, <2>5, <2>6
<1> QED BY <1>3, <1>4

(* A failed call, after whatever bits it has set.                          *)
LEMMA FailStep ==
    ASSUME SearchAssumption, IInv, SearchBit, ReadFails \/ NoneTakesPart,
           Undisturbed, Undisturbed'
    PROVE  SearchInv'
<1> USE DEF IInv, SearchInv
<1>1. ReadFails
  <2>1. taking_part # {} /\ rom_bit_index \in Bit
    BY BitsTyped DEF SearchBit, InWalk, Walking, TypeOK
  <2>2. ~NoneTakesPart
    BY <2>1, Wires DEF NoneTakesPart, Read, Undisturbed, TypeOK
  <2> QED BY <2>2
<1>2. UNCHANGED <<present, iter, returned, ds18b20s>> /\ Return("FAIL")
  BY <1>1 DEF ReadFails, SearchBit
<1>3. Ascending' /\ Turning'
  BY <1>2 DEF Ascending, Turning, Any, Latest, rom, turn, Branch, Less, LessUpTo
<1>4. (InWalk /\ NonePassed)'
  BY <1>2 DEF Return, InWalk, NonePassed, Walking, SameLowestBit, Any, Latest,
     Found, Less, LessUpTo
<1>5. Ended'
  BY <1>2 DEF Return, Ended
<1> QED BY <1>3, <1>4, <1>5

-----------------------------------------------------------------------------
(* What one bit decides. *)
Zero == \E d \in taking_part : d[rom_bit_index] = 0
One == \E d \in taking_part : d[rom_bit_index] = 1

(* The way is taken by some device; before the turn it is the way of the   *)
(* number before, and at the turn it is 1.                                 *)
LEMMA Ways ==
    ASSUME SearchAssumption, TypeOK, SearchInv, Undisturbed, SearchBit,
           ChooseHalf, Undisturbed'
    PROVE  \E way \in {0, 1} :
              /\ iter' = [iter EXCEPT !.rom_number[rom_bit_index] = way]
              /\ taking_part' = {d \in taking_part : d[rom_bit_index] = way}
              /\ \E d \in taking_part : d[rom_bit_index] = way
              /\ last_zero' = IF Zero /\ One /\ way = 0
                              THEN rom_bit_index ELSE last_zero
              /\ Any /\ rom_bit_index = turn => way = 1
              /\ Any /\ rom_bit_index < turn => way = Latest[rom_bit_index]
              /\ Zero /\ One /\ way = 1 =>
                    rom_bit_index <= turn
<1> USE DEF SearchInv
<1>1. /\ rom_bit_index \in Bit /\ taking_part # {} /\ ~iter.is_last_device
      /\ taking_part = {d \in present : Agree(rom, d, rom_bit_index)}
  BY BitsTyped DEF SearchBit, InWalk, Walking, TypeOK
<1>2. PICK rom_bit \in {0, 1}, rom_bit_complement \in {0, 1} :
         LET way == Direction(rom_bit, rom_bit_complement) IN
         /\ Read(rom_bit, rom_bit_complement)
         /\ last_zero' = IF rom_bit = rom_bit_complement /\ way = 0
                         THEN rom_bit_index ELSE last_zero
         /\ iter' = [iter EXCEPT !.rom_number[rom_bit_index] = way]
         /\ taking_part' = {d \in taking_part : d[rom_bit_index] = way}
  BY DEF ChooseHalf
<1>3. rom_bit = RomBit /\ rom_bit_complement = RomBitComplement
  BY <1>2 DEF Read, Undisturbed, TypeOK
<1> DEFINE way == Direction(rom_bit, rom_bit_complement)
<1>4. /\ RomBit \in {0, 1} /\ RomBitComplement \in {0, 1}
      /\ RomBit = 0 <=> Zero
      /\ RomBitComplement = 0 <=> One
      /\ ~(RomBit = 1 /\ RomBitComplement = 1)
  BY <1>1, Wires DEF Zero, One
<1>5. iter.last_discrepancy = turn /\ iter.rom_number = rom
      /\ turn \in Bit /\ rom \in Address /\ rom_bit_index \in Nat /\ turn \in Nat
  BY <1>1, BitsTyped DEF turn, rom, TypeOK
<1>6. /\ rom_bit = rom_bit_complement <=> Zero /\ One
      /\ ~(Zero /\ One) => way = rom_bit /\ (way = 0 <=> Zero) /\ way \in {0, 1}
      /\ Zero /\ One =>
            way = IF rom_bit_index < turn THEN rom[rom_bit_index]
                  ELSE IF rom_bit_index = turn THEN 1 ELSE 0
  BY <1>3, <1>4, <1>5 DEF Direction
<1> HIDE DEF way
<1>7. rom[rom_bit_index] \in {0, 1}
  BY <1>1, <1>5, AddressTyped
<1>8. way \in {0, 1} /\ (\E d \in taking_part : d[rom_bit_index] = way)
  BY <1>4, <1>6, <1>7 DEF Zero, One
<1>9. ASSUME Any
      PROVE  /\ Latest \in present /\ turn # 0
             /\ rom_bit_index <= turn => Latest \in taking_part
             /\ Latest[rom_bit_index] \in {0, 1}
  <2>1. Latest \in present
    BY <1>9 DEF Latest, Any, TypeOK
  <2>2. turn # 0 /\ Agree(rom, Latest, turn)
    BY <1>1, <1>9 DEF Turning
  <2>3. rom_bit_index <= turn => Agree(rom, Latest, rom_bit_index)
    BY <1>5, <2>2, BitsTyped DEF Agree
  <2>4. Latest[rom_bit_index] \in {0, 1}
    BY <1>1, <2>1, PresentTyped, AddressTyped
  <2> QED BY <1>1, <2>1, <2>2, <2>3, <2>4
<1>10. Any /\ rom_bit_index = turn => way = 1
  <2>1. SUFFICES ASSUME Any, rom_bit_index = turn PROVE Zero /\ One
    BY <1>5, <1>6
  <2>2. Branch(Latest, turn) /\ Agree(rom, Latest, turn)
    BY <1>9, <2>1 DEF Turning
  <2>3. PICK d \in present : d[turn] = 1 /\ Agree(Latest, d, turn)
    BY <2>2 DEF Branch
  <2>4. Agree(rom, d, turn)
    BY <2>2, <2>3 DEF Agree
  <2> QED BY <1>1, <1>9, <2>1, <2>2, <2>3, <2>4 DEF Zero, One, Branch
<1>11. Any /\ rom_bit_index < turn => way = Latest[rom_bit_index]
  <2>1. SUFFICES ASSUME Any, rom_bit_index < turn
                 PROVE  way = Latest[rom_bit_index]
    OBVIOUS
  <2>2. rom[rom_bit_index] = Latest[rom_bit_index]
    BY <1>1, <2>1 DEF Turning, Agree
  <2>3. Latest \in taking_part /\ Latest[rom_bit_index] \in {0, 1}
    BY <1>5, <1>9, <2>1
  <2> QED BY <1>4, <1>6, <2>1, <2>2, <2>3 DEF Zero, One
<1>12. Zero /\ One /\ way = 1 => rom_bit_index <= turn
  BY <1>5, <1>6
<1>13. last_zero' = IF Zero /\ One /\ way = 0 THEN rom_bit_index ELSE last_zero
  BY <1>2, <1>6 DEF way
<1> QED BY <1>2, <1>8, <1>10, <1>11, <1>12, <1>13 DEF way

LEMMA ChooseStep ==
    ASSUME SearchAssumption, IInv, SearchBit, ChooseHalf, Undisturbed,
           Undisturbed'
    PROVE  SearchInv'
<1> DEFINE k == rom_bit_index
<1>1. PICK way \in {0, 1} :
         /\ iter' = [iter EXCEPT !.rom_number[k] = way]
         /\ taking_part' = {d \in taking_part : d[k] = way}
         /\ \E d \in taking_part : d[k] = way
         /\ last_zero' = IF Zero /\ One /\ way = 0 THEN k ELSE last_zero
         /\ Any /\ k = turn => way = 1
         /\ Any /\ k < turn => way = Latest[k]
         /\ Zero /\ One /\ way = 1 => k <= turn
  BY Ways DEF IInv
<1>2. /\ k \in Bit /\ k \in Nat /\ k' = k + 1 /\ turn \in Nat /\ last_zero \in Nat
      /\ rom \in Address /\ taking_part \subseteq present
      /\ present \subseteq Address
      /\ spc = "bit" /\ UNCHANGED <<spc, present, returned, ds18b20s>>
  BY BitsTyped, PresentTyped
     DEF SearchBit, ChooseHalf, IInv, TypeOK, turn, rom
<1>3. /\ turn' = turn /\ rom' = [rom EXCEPT ![k] = way]
      /\ iter'.is_last_device = iter.is_last_device
  BY <1>1, <1>2 DEF turn, rom, IInv, TypeOK
<1>4. rom'[k] = way /\ \A j \in Bit : j # k => rom'[j] = rom[j]
  BY <1>2, <1>3 DEF Address
<1> USE DEF IInv, SearchInv
<1> HIDE DEF k
<1>5. \A d, n : n \in Nat /\ n <= k => (Agree(rom', d, n) <=> Agree(rom, d, n))
  BY <1>2, <1>4, BitsTyped DEF Agree
<1>6. \A d : Agree(rom', d, k + 1) <=> Agree(rom, d, k) /\ d[k] = way
  <2>1. \A j \in Bit : j < k + 1 <=> j < k \/ j = k
    BY <1>2, BitsTyped
  <2> QED BY <1>2, <1>4, <2>1 DEF Agree
<1>7. taking_part = {d \in present : Agree(rom, d, k)} /\ ~iter.is_last_device
  BY <1>2 DEF InWalk, Walking, k
<1>8. Ascending'
  BY <1>2 DEF Ascending, Less, LessUpTo
<1>9. Turning'
  <2>1. Any /\ turn <= k => Agree(rom', Latest, turn)
    BY <1>2, <1>5 DEF Turning
  <2>2. Any /\ k < turn => Agree(rom', Latest, turn)
    BY <1>1, <1>4 DEF Turning, Agree
  <2>3. Any' = Any /\ Latest' = Latest
    BY <1>2 DEF Any, Latest
  <2>4. \A n : Branch(Latest, n)' <=> Branch(Latest, n)
    BY <1>2, <2>3 DEF Branch
  <2> QED BY <1>2, <1>3, <2>1, <2>2, <2>3, <2>4 DEF Turning
<1>10. \A n \in Bit : n < k => (Branch(rom, n)' <=> Branch(rom, n))
  BY <1>2, <1>4, <1>5, BitsTyped DEF Branch
<1>11. Branch(rom', k) <=> way = 0 /\ One
  BY <1>2, <1>4, <1>5, <1>7 DEF Branch, One, k
<1>12. InWalk'
  <2>1. taking_part' # {}
        /\ taking_part' = {d \in present : Agree(rom', d, k + 1)}
    BY <1>1, <1>6, <1>7
  <2>2. Any /\ turn < k + 1 => rom'[turn] = 1
    <3>1. CASE turn = k
      BY <1>1, <1>4, <3>1
    <3>2. CASE turn < k
      BY <1>2, <1>4, <3>2, BitsTyped DEF InWalk, Walking, k, turn, TypeOK
    <3> QED BY <1>2, <3>1, <3>2
  <2>3. last_zero' # 0 => last_zero' < k + 1 /\ Branch(rom', last_zero')
    <3>1. CASE Zero /\ One /\ way = 0
      BY <1>1, <1>2, <1>11, <3>1
    <3>2. CASE ~(Zero /\ One /\ way = 0)
      <4>1. last_zero' = last_zero /\ last_zero \in Bit
            /\ (last_zero # 0 => last_zero < k /\ Branch(rom, last_zero))
        BY <1>1, <1>2, <3>2 DEF InWalk, Walking, k, TypeOK
      <4>2. last_zero # 0 => Branch(rom', last_zero)
        BY <1>2, <1>4, <1>5, <4>1 DEF Branch
      <4> QED BY <1>2, <4>1, <4>2
    <3> QED BY <3>1, <3>2
  <2>4. \A n \in Bit : last_zero' < n /\ n < k + 1 => ~Branch(rom', n)
    <3>1. CASE Zero /\ One /\ way = 0
      BY <1>1, <1>2, <3>1, BitsTyped
    <3>2. CASE ~(Zero /\ One /\ way = 0)
      <4>1. ~Branch(rom', k)
        BY <1>1, <1>11, <3>2 DEF Zero, k
      <4>2. \A n \in Bit : last_zero < n /\ n < k => ~Branch(rom', n)
        <5>1. \A n \in Bit : last_zero < n /\ n < k => ~Branch(rom, n)
          BY <1>2 DEF InWalk, Walking, k
        <5> QED BY <1>2, <1>4, <1>5, <5>1, BitsTyped DEF Branch
      <4>3. \A n \in Bit : n < k + 1 => n < k \/ n = k
        BY <1>2, BitsTyped
      <4> QED BY <1>1, <3>2, <4>1, <4>2, <4>3
    <3> QED BY <3>1, <3>2
  <2>5. \A n : Branch(rom, n)' <=> Branch(rom', n)
    BY <1>2 DEF Branch
  <2> QED BY <1>2, <1>3, <1>7, <2>1, <2>2, <2>3, <2>4, <2>5
          DEF InWalk, Any, k
<1>13. NonePassed'
  <2>1. SUFFICES ASSUME SameLowestBit, NEW d \in present, d \notin Found
                 PROVE  d \in taking_part' \/ LessUpTo(rom', d, k + 1)
    BY <1>2 DEF NonePassed, SameLowestBit, Any, Latest, Found, Less, LessUpTo, k
  <2>2. CASE LessUpTo(rom, d, k)
    <3>1. PICK n \in Bit : n < k /\ rom[n] = 0 /\ d[n] = 1 /\ Agree(rom, d, n)
      BY <2>2 DEF LessUpTo
    <3>2. n \in Nat /\ n < k + 1 /\ rom'[n] = 0 /\ Agree(rom', d, n)
      BY <1>2, <1>4, <1>5, <3>1, BitsTyped
    <3> QED BY <3>1, <3>2 DEF LessUpTo
  <2>3. CASE d \in taking_part /\ d[k] = way
    BY <1>1, <2>3
  <2>4. CASE d \in taking_part /\ d[k] # way
    <3>1. d[k] \in {0, 1} /\ Zero /\ One /\ Agree(rom, d, k)
      BY <1>1, <1>2, <1>7, <2>4, AddressTyped DEF Zero, One, k
    <3>2. CASE way = 0
      BY <1>2, <1>4, <1>5, <3>1, <3>2, <2>4 DEF LessUpTo
    <3>3. CASE way = 1
      <4>1. k <= turn /\ d[k] = 0
        BY <1>1, <2>4, <3>1, <3>3
      <4>2. Any
        <5>1. ~Any => k = 0
          BY <1>2, <4>1 DEF Turning
        <5>2. \A e \in taking_part : e[0] = d[0]
          BY <1>2, <2>1 DEF SameLowestBit
        <5> QED BY <3>1, <5>1, <5>2 DEF Zero, One, k
      <4>3. PICK m \in Bit : Latest[m] = 0 /\ d[m] = 1 /\ Agree(Latest, d, m)
        BY <2>1, <4>2 DEF NonePassed, Less, LessUpTo
      <4>4. Agree(Latest, d, k)
        BY <1>2, <3>1, <4>1, <4>2, BitsTyped DEF Turning, Agree
      <4>5. m \in Nat /\ k < m
        BY <1>2, <4>1, <4>3, <4>4, BitsTyped DEF Agree
      <4>6. Latest[k] = d[k]
        BY <1>2, <4>3, <4>5 DEF Agree
      <4>7. k = turn
        BY <1>1, <1>2, <3>3, <4>1, <4>2, <4>6
      <4>8. Branch(Latest, m)
        BY <2>1, <4>3 DEF Branch
      <4> QED BY <4>2, <4>5, <4>7, <4>8 DEF Turning
    <3> QED BY <3>2, <3>3
  <2> QED BY <1>2, <2>1, <2>2, <2>3, <2>4 DEF NonePassed, Walking, k
<1>14. Ended'
  BY <1>2 DEF Ended
<1> QED BY <1>8, <1>9, <1>12, <1>13, <1>14

(* A number is complete: it is a device's, greater than the one before,    *)
(* and less than all that are still to be found.                           *)
LEMMA EndStep ==
    ASSUME SearchAssumption, IInv, EndOfNumber, Undisturbed, Undisturbed'
    PROVE  SearchInv'
<1> USE DEF IInv, SearchInv
<1>1. /\ spc = "bit" /\ rom_bit_index = BITS /\ present' = present
      /\ taking_part = {d \in present : Agree(rom, d, BITS)} /\ taking_part # {}
      /\ ~iter.is_last_device /\ rom \in Address /\ turn \in Bit
      /\ present \subseteq Address
  BY PresentTyped DEF EndOfNumber, InWalk, Walking, TypeOK, rom, turn
<1>2. taking_part = {rom} /\ rom \in present
  <2>1. \A d \in taking_part : d = rom
    BY <1>1, AgreeAll
  <2> QED BY <1>1, <2>1
<1>3. /\ returned' = Append(returned, rom)
      /\ iter' = Advanced /\ Return("OK") /\ UNCHANGED <<last_zero, taking_part>>
  BY <1>2 DEF EndOfNumber, rom
<1>4. returned \in Seq(present) /\ Len(returned) \in Nat
  BY DEF TypeOK
<1>5. /\ Len(returned') = Len(returned) + 1 /\ returned'[Len(returned) + 1] = rom
      /\ \A i \in 1 .. Len(returned) : returned'[i] = returned[i]
      /\ Any' /\ Latest' = rom
  BY <1>3, <1>4 DEF Any, Latest
<1>6. Found' = Found \cup {rom}
  BY <1>3, <1>4, RangeAppend DEF Found
<1>7. /\ turn' = last_zero /\ rom' = rom
      /\ iter'.is_last_device <=> last_zero = 0
  BY <1>3 DEF Advanced, turn, rom, TypeOK
<1>8. Any => Less(Latest, rom)
  <2>1. SUFFICES ASSUME Any PROVE Less(Latest, rom)
    OBVIOUS
  <2>2. turn # 0 /\ Branch(Latest, turn) /\ Agree(rom, Latest, turn)
    BY <1>1, <2>1 DEF Turning
  <2>3. turn \in Nat /\ turn < BITS
    BY <1>1, BitsTyped
  <2>4. rom[turn] = 1
    BY <1>1, <2>1, <2>3 DEF InWalk, Walking
  <2>5. Agree(Latest, rom, turn)
    BY <2>2 DEF Agree
  <2> QED BY <1>1, <2>2, <2>3, <2>4, <2>5 DEF Less, LessUpTo, Branch
<1>9. Ascending'
  <2>1. \A i \in 1 .. Len(returned) : Less(returned[i], rom)
    <3>1. SUFFICES ASSUME NEW i \in 1 .. Len(returned) PROVE Less(returned[i], rom)
      OBVIOUS
    <3>2. Any /\ Less(Latest, rom)
      BY <1>4, <1>8 DEF Any
    <3>3. i = Len(returned) \/ Less(returned[i], Latest)
      BY <1>4 DEF Ascending, Latest
    <3> QED BY <3>2, <3>3, LessTransitive DEF Latest
  <2>2. SUFFICES ASSUME NEW i \in 1 .. Len(returned) + 1,
                        NEW j \in 1 .. Len(returned) + 1, i < j
                 PROVE  Less(returned'[i], returned'[j])
    BY <1>5 DEF Ascending, Less, LessUpTo
  <2>3. CASE j \in 1 .. Len(returned)
    BY <1>4, <1>5, <2>2, <2>3 DEF Ascending
  <2>4. CASE j = Len(returned) + 1
    BY <1>4, <1>5, <2>1, <2>2, <2>4
  <2> QED BY <1>4, <2>3, <2>4
<1>10. Turning'
  <2>1. last_zero # 0 => Branch(rom, last_zero)
    BY <1>1 DEF InWalk, Walking
  <2>2. \A k \in Bit : k > last_zero => ~Branch(rom, k)
    BY <1>1, BitsTyped DEF InWalk, Walking
  <2>3. \A n : Branch(Latest, n)' <=> Branch(rom, n)
    BY <1>1, <1>5 DEF Branch
  <2>4. Agree(rom, rom, last_zero)
    BY DEF Agree
  <2> QED BY <1>5, <1>7, <2>1, <2>2, <2>3, <2>4 DEF Turning
<1>11. (InWalk /\ Ended)'
  BY <1>3 DEF Return, InWalk, Walking, Ended
<1>12. NonePassed'
  <2>1. ~Walking'
    BY <1>3 DEF Return, Walking
  <2>2. SUFFICES ASSUME SameLowestBit, NEW d \in present, d \notin Found'
                 PROVE  Less(rom, d)
    BY <1>1, <1>5, <2>1 DEF NonePassed, SameLowestBit, Less, LessUpTo
  <2>3. d \in taking_part \/ LessUpTo(rom, d, BITS)
    BY <1>1, <1>6, <2>2 DEF NonePassed, Walking
  <2> QED BY <1>2, <1>6, <2>2, <2>3 DEF Less
<1> QED BY <1>9, <1>10, <1>11, <1>12

LEMMA NextInv == ASSUME SearchAssumption, IInv, [Next]_vars PROVE IInv'
<1>1. TypeOK' /\ Room' /\ Kept'
  BY TypeStep, RoomStep, KeptStep DEF IInv
<1>2. ASSUME Undisturbed' PROVE SearchInv'
  <2>1. Undisturbed
    BY <1>2, StaysUndisturbed DEF IInv
  <2>2. CASE UNCHANGED vars
    BY <2>1, <2>2 DEF IInv, SearchInv, vars, Undisturbed, Ascending, Turning,
       InWalk, NonePassed, Ended, Any, Walking, Latest, Found, SameLowestBit,
       rom, turn, Branch, Less, LessUpTo
  <2>3. CASE Call
    BY <1>2, <2>1, <2>3, CallStep
  <2>4. CASE SearchBit
    BY <1>2, <2>1, <2>4, ChooseStep, FailStep DEF SearchBit
  <2>5. CASE EndOfNumber
    BY <1>2, <2>1, <2>5, EndStep
  <2> QED BY <2>2, <2>3, <2>4, <2>5 DEF Next
<1> QED BY <1>1, <1>2 DEF IInv, SearchInv

LEMMA SearchInvariant == Spec => []IInv
<1>1. Init => IInv
  BY InitInv, SearchAssumption
<1>2. IInv /\ [Next]_vars => IInv'
  BY NextInv, SearchAssumption
<1> QED BY <1>1, <1>2, PTL DEF Spec

(* Type correctness, with misread bits too: the worker's array is never    *)
(* filled past its end.                                                    *)
THEOREM SearchTyped == Spec => []TypeOK
  BY SearchInvariant, PTL DEF IInv

(* No device is returned twice in a search, whatever calls failed.         *)
THEOREM FoundOnceTheorem == Spec => []FoundOnce
<1>1. IInv => FoundOnce
  <2>1. SUFFICES ASSUME IInv, Undisturbed, NEW i \in DOMAIN returned,
                        NEW j \in DOMAIN returned, returned[i] = returned[j]
                 PROVE  i = j
    BY DEF FoundOnce, IsInjective
  <2>2. i \in 1 .. Len(returned) /\ j \in 1 .. Len(returned)
    BY <2>1 DEF IInv, TypeOK
  <2>3. ~Less(returned[i], returned[i])
    BY LessIrreflexive
  <2> QED BY <2>1, <2>2, <2>3 DEF IInv, SearchInv, Ascending
<1> QED BY <1>1, SearchInvariant, PTL

(* When the loop ends, all probes have been found, or the array is full.   *)
THEOREM AllFoundTheorem == Spec => []AllFound
<1>1. ASSUME IInv PROVE AllFound
  <2> USE DEF IInv, SearchInv
  <2>1. SUFFICES ASSUME spc = "ended", Undisturbed, SameLowestBit,
                        Len(ds18b20s) # ONE_WIRE_MAX_SENSORS_COUNT
                 PROVE  Range(ds18b20s) = present \cap Supported
    BY DEF AllFound
  <2>2. Found \subseteq present
    BY <1>1 DEF Found, Range, TypeOK
  <2>3. present \subseteq Found
    <3>1. CASE iter.is_last_device
      <4>1. Any /\ turn = 0 /\ \A k \in Bit : k > 0 => ~Branch(Latest, k)
        BY <1>1, <2>1, <3>1 DEF Turning
      <4>2. SUFFICES ASSUME NEW d \in present, Less(Latest, d) PROVE FALSE
        BY <1>1, <2>1, <4>1 DEF NonePassed
      <4>3. PICK k \in Bit : Latest[k] = 0 /\ d[k] = 1 /\ Agree(Latest, d, k)
        BY <4>2 DEF Less, LessUpTo
      <4>4. Branch(Latest, k)
        BY <4>2, <4>3 DEF Branch
      <4>5. k = 0
        BY <4>1, <4>3, <4>4, SearchAssumption, BitsTyped
      <4>6. Latest \in present
        BY <1>1, <4>1 DEF Any, Latest, TypeOK
      <4> QED BY <2>1, <4>2, <4>3, <4>5, <4>6 DEF SameLowestBit
    <3>2. CASE present = {}
      BY <3>2
    <3> QED BY <1>1, <2>1, <3>1, <3>2 DEF Ended
  <2> QED BY <1>1, <2>2, <2>3 DEF Kept
<1>2. IInv => AllFound
  BY <1>1
<1> QED BY <1>2, SearchInvariant, PTL
=============================================================================
