---------------------------- MODULE OneWireSearch ----------------------------
(***************************************************************************)
(* The search for devices on the 1-Wire bus: onewire_device_iter_get_next  *)
(* as the loop of OneWireMeasurementTaskCode calls it. Each call walks the *)
(* bits of the addresses from the lowest one; where the devices that still *)
(* take part differ, the iterator's last_discrepancy and rom_number say    *)
(* which half goes on. Measurements takes the result of one such search as *)
(* a set of probes found in some order.                                    *)
(***************************************************************************)
EXTENDS Naturals, Sequences, Functions

CONSTANTS
    BITS,           \* length of an address, 64 in the code
    Buses,          \* the sets of devices a bus may have
    Supported,      \* addresses with the family code of a DS18B20
    ONE_WIRE_MAX_SENSORS_COUNT,
    MaxBusErrors,   \* bound: operations on the bus that return an error
    MaxMisreads     \* bound: pairs of bits read other than they were sent

Bit == 0 .. BITS - 1
Address == [Bit -> {0, 1}]

ASSUME SearchAssumption ==
    /\ BITS \in Nat \ {0}
    /\ Buses \subseteq SUBSET Address
    /\ Supported \subseteq Address
    /\ ONE_WIRE_MAX_SENSORS_COUNT \in Nat \ {0}
    /\ MaxBusErrors \in Nat
    /\ MaxMisreads \in Nat

VARIABLES
    present,        \* the devices on the bus
    iter,           \* onewire_device_iter_t
    spc,            \* between two calls, at a bit, or after the loop
    rom_bit_index, last_zero,
    taking_part,    \* the devices still selected in this call
    returned,       \* history: addresses returned with ESP_OK
    ds18b20s,       \* the worker's array
    search_result,  \* of the last call
    faults          \* counts behind the two bounds

vars == <<present, iter, spc, rom_bit_index, last_zero, taking_part, returned,
          ds18b20s, search_result, faults>>

BusError ==
    /\ faults.errors < MaxBusErrors
    /\ faults' = [faults EXCEPT !.errors = @ + 1]

(* Mutant: the loop ends for a full array only.                            *)
Return_untilFull(result) ==
    /\ search_result' = result
    /\ spc' = IF Len(ds18b20s') = ONE_WIRE_MAX_SENSORS_COUNT
              THEN "ended" ELSE "call"

(* The loop ends for ESP_ERR_NOT_FOUND or a full array, else calls again.  *)
Return(result) ==
    /\ search_result' = result
    /\ spc' = IF result = "NOT_FOUND" \/ Len(ds18b20s') = ONE_WIRE_MAX_SENSORS_COUNT
              THEN "ended" ELSE "call"

-----------------------------------------------------------------------------
(* Before the first bit: nothing is left, nothing answers the reset, the   *)
(* reset or the command fails, or all devices take part.                   *)
Call ==
    /\ spc = "call"
    /\ UNCHANGED <<present, iter, returned, ds18b20s>>
    /\ \/ /\ iter.is_last_device \/ present = {}
          /\ Return("NOT_FOUND")
          /\ UNCHANGED <<rom_bit_index, last_zero, taking_part, faults>>
       \/ /\ ~iter.is_last_device
          /\ BusError
          /\ Return("FAIL")
          /\ UNCHANGED <<rom_bit_index, last_zero, taking_part>>
       \/ /\ ~iter.is_last_device /\ present # {}
          /\ spc' = "bit"
          /\ rom_bit_index' = 0 /\ last_zero' = 0
          /\ taking_part' = present
          /\ UNCHANGED <<search_result, faults>>

(* All devices that take part drive the bus together: a 0 wins.            *)
Wired(bits) == IF 0 \in bits THEN 0 ELSE 1
RomBit == Wired({d[rom_bit_index] : d \in taking_part})
RomBitComplement == Wired({1 - d[rom_bit_index] : d \in taking_part})

(* Mutant: the bit of the last discrepancy still follows the previous way. *)
Direction_follows(rom_bit, rom_bit_complement) ==
    IF rom_bit # rom_bit_complement THEN rom_bit
    ELSE IF rom_bit_index <= iter.last_discrepancy
         THEN iter.rom_number[rom_bit_index]
    ELSE 0

(* Mutant: a new discrepancy is searched for 1 first.                      *)
Direction_oneFirst(rom_bit, rom_bit_complement) ==
    IF rom_bit # rom_bit_complement THEN rom_bit
    ELSE IF rom_bit_index < iter.last_discrepancy
         THEN iter.rom_number[rom_bit_index]
    ELSE 1

(* Which half goes on: the only one there is, the previous one before the  *)
(* last discrepancy, the other one at it, the zeros beyond it.             *)
Direction(rom_bit, rom_bit_complement) ==
    IF rom_bit # rom_bit_complement THEN rom_bit
    ELSE IF rom_bit_index < iter.last_discrepancy
         THEN iter.rom_number[rom_bit_index]
    ELSE IF rom_bit_index = iter.last_discrepancy THEN 1 ELSE 0

(* The bits as sent, or as a disturbed bus lets them be read.              *)
Read(rom_bit, rom_bit_complement) ==
    \/ /\ rom_bit = RomBit /\ rom_bit_complement = RomBitComplement
       /\ UNCHANGED faults
    \/ /\ faults.misreads < MaxMisreads
       /\ faults' = [faults EXCEPT !.misreads = @ + 1]

NoneTakesPart ==
    /\ Read(1, 1)
    /\ Return("NOT_FOUND")
    /\ UNCHANGED <<iter, rom_bit_index, last_zero, taking_part>>

ChooseHalf ==
    \E rom_bit, rom_bit_complement \in {0, 1} :
        LET way == Direction(rom_bit, rom_bit_complement) IN
        /\ ~(rom_bit = 1 /\ rom_bit_complement = 1)
        /\ Read(rom_bit, rom_bit_complement)
        /\ last_zero' = IF rom_bit = rom_bit_complement /\ way = 0
                        THEN rom_bit_index ELSE last_zero
        /\ iter' = [iter EXCEPT !.rom_number[rom_bit_index] = way]
        /\ taking_part' = {d \in taking_part : d[rom_bit_index] = way}
        /\ rom_bit_index' = rom_bit_index + 1
        /\ UNCHANGED <<spc, search_result>>

(* An error of a read leaves the number as it is; one of the write comes   *)
(* after its bit was set, to what the repeated call sets it to again.      *)
ReadFails ==
    /\ BusError
    /\ Return("FAIL")
    /\ UNCHANGED <<iter, rom_bit_index, last_zero, taking_part>>

SearchBit ==
    /\ spc = "bit"
    /\ rom_bit_index < BITS
    /\ UNCHANGED <<present, returned, ds18b20s>>
    /\ NoneTakesPart \/ ChooseHalf \/ ReadFails

(* Before the check of the CRC the iterator is brought forward.            *)
Advanced ==
    [iter EXCEPT !.last_discrepancy = last_zero, !.is_last_device = last_zero = 0]

(* Mutant: every device is taken for a DS18B20.                            *)
ds18b20_new_device_any(address) == Append(ds18b20s, address)

(* A device of another family is left out of the worker's array.           *)
ds18b20_new_device(address) ==
    IF address \in Supported THEN Append(ds18b20s, address) ELSE ds18b20s

(* The CRC holds for the addresses of devices and for no misread one.      *)
EndOfNumber ==
    /\ spc = "bit"
    /\ rom_bit_index = BITS
    /\ iter' = Advanced
    /\ UNCHANGED <<present, rom_bit_index, last_zero, taking_part, faults>>
    /\ \/ /\ iter.rom_number \notin present
          /\ UNCHANGED <<returned, ds18b20s>>
          /\ Return("INVALID_CRC")
       \/ /\ iter.rom_number \in present
          /\ returned' = Append(returned, iter.rom_number)
          /\ ds18b20s' = ds18b20_new_device(iter.rom_number)
          /\ Return("OK")

Init ==
    /\ present \in Buses
    /\ iter = [last_discrepancy |-> 0, is_last_device |-> FALSE,
               rom_number |-> [b \in Bit |-> 0]]
    /\ spc = "call"
    /\ rom_bit_index = 0 /\ last_zero = 0 /\ taking_part = {}
    /\ returned = <<>> /\ ds18b20s = <<>>
    /\ search_result = "OK"
    /\ faults = [errors |-> 0, misreads |-> 0]

Next == Call \/ SearchBit \/ EndOfNumber

(* The worker loops without waiting for anything.                          *)
Spec == Init /\ [][Next]_vars
FairSpec == Spec /\ WF_vars(Next)

-----------------------------------------------------------------------------
(* The iterator of onewire_device_iter_get_next keeps a number of BITS     *)
(* bits and a discrepancy that is one of its bits.                         *)
TypeOK ==
    /\ present \in Buses
    /\ iter \in [last_discrepancy : Bit, is_last_device : BOOLEAN,
                 rom_number : Address]
    /\ spc \in {"call", "bit", "ended"}
    /\ rom_bit_index \in 0 .. BITS /\ last_zero \in Bit
    /\ taking_part \subseteq present
    /\ returned \in Seq(present)
    /\ ds18b20s \in Seq(present \cap Supported)
    /\ Len(ds18b20s) <= ONE_WIRE_MAX_SENSORS_COUNT
    /\ search_result \in {"OK", "FAIL", "INVALID_CRC", "NOT_FOUND"}
    /\ faults \in [errors : 0 .. MaxBusErrors, misreads : 0 .. MaxMisreads]

Undisturbed == faults.misreads = 0

SameLowestBit == \A d, e \in present : d[0] = e[0]

(* No device is returned twice, whatever calls failed and were repeated in *)
(* the middle of a number: a probe is not reported twice in one message.   *)
FoundOnce == Undisturbed => IsInjective(returned)

(* When the worker's loop ends, it has every DS18B20 of the bus or a full  *)
(* array, for every set of devices that share the lowest bit of the        *)
(* address, as those of one family do.                                     *)
AllFound ==
    spc = "ended" /\ Undisturbed /\ SameLowestBit =>
        \/ Len(ds18b20s) = ONE_WIRE_MAX_SENSORS_COUNT
        \/ Range(ds18b20s) = present \cap Supported

(* The loop ends, also when calls fail and bits are misread so that the    *)
(* CRC is wrong: it never searches for the same wrong number for ever.     *)
SearchEnds == <>(spc = "ended")

(* onewire_device.h: "ESP_ERR_NOT_FOUND: No more device to get".           *)
NotFoundIsTheEnd ==
    search_result = "NOT_FOUND" /\ Undisturbed => Range(returned) = present
=============================================================================
