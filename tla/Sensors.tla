------------------------------ MODULE Sensors ------------------------------
(* What the drivers of the sensors compute: the line the multiplexer       *)
(* selects, the configuration word of the ADS1115 and the millivolts of a  *)
(* conversion, the bytes of a DHT11 frame and the temperature in the       *)
(* scratchpad of a DS18B20.  Measurements says when they are called and    *)
(* what becomes of a call that fails.                                      *)
EXTENDS Integers

-----------------------------------------------------------------------------
(* The multiplexer: three pins, which any level but 0 makes high.          *)

Address == 0 .. 7

High(level) == IF level = 0 THEN 0 ELSE 1

(* The levels after mux_address(address), where "levels" were before. An   *)
(* address above 7 is refused.                                             *)
mux_address(levels, address) ==
    IF address > 7 THEN levels
    ELSE [pin32 |-> High(address % 2),
          pin33 |-> High(((address \div 2) % 2) * 2),
          pin5  |-> High(((address \div 4) % 2) * 4)]

(* The line that the multiplexer connects at these levels.                 *)
Connected(levels) == levels.pin32 + 2 * levels.pin33 + 4 * levels.pin5

-----------------------------------------------------------------------------
(* The ADS1115. A mask of ads1115.h clears the bits of one field, and what *)
(* is or-ed in lies inside of that field.                                  *)

ADS1115_DEFAULT_CONFIG == 1411
MUX_ADDR_A0 == 16384
PGA_6_144V == 0
OS_BIT == 32768

Mux(word) == (word \div 4096) % 8
Pga(word) == (word \div 512) % 8

AddressMux(configuration, mux) == configuration - 4096 * Mux(configuration) + mux

SetPGA(configuration, pga) == configuration - 512 * Pga(configuration) + pga

(* The word that StartConversion writes; the device keeps its own copy.    *)
StartConversion(configuration) ==
    IF configuration >= OS_BIT THEN configuration ELSE configuration + OS_BIT

(* MUX_ADDR_A0 and the channels after it.                                  *)
MuxOf(channel) == MUX_ADDR_A0 + 4096 * channel

InitialConfiguration == SetPGA(ADS1115_DEFAULT_CONFIG, PGA_6_144V)

(* A register travels with its high byte first.                            *)
WriteRegister(value) == <<value \div 256, value % 256>>
ReadRegister(buf) == buf[1] * 256 + buf[2]

(* The same sixteen bits as a signed number.                               *)
AsInt16(value) == IF value < 32768 THEN value ELSE value - 65536

(* Division in C truncates.                                                *)
Quotient(a, b) == IF a >= 0 THEN a \div b ELSE -((-a) \div b)

Millivolts(register) == Quotient(Quotient(register * 375, 2), 1000)

-----------------------------------------------------------------------------
(* The DHT11: a frame is the duration of the second half of 43 symbols, of *)
(* which those from 2 to 33 are the bits of four bytes. The checksum in    *)
(* those from 34 to 41 is not read.                                        *)

FrameLength == 43

Threshold == 40

(* A byte shifted left by one bit, and the next bit.                       *)
Push(byte, duration) ==
    ((byte * 2) % 256) + (IF duration < Threshold THEN 0 ELSE 1)

ByteFrom(symbols, i) ==
    LET two(byte, k)  == Push(Push(byte, symbols[k]), symbols[k + 1])
        four(byte, k) == two(two(byte, k), k + 2)
    IN  four(four(0, i), i + 4)

(* result after DHT11_Parse; a frame of another length changes nothing.    *)
DHT11_Parse(symbols, symbols_num, result) ==
    IF symbols_num # FrameLength THEN result
    ELSE [rh_integral   |-> ByteFrom(symbols, 2),
          rh_decimal    |-> ByteFrom(symbols, 10),
          temp_integral |-> ByteFrom(symbols, 18),
          temp_decimal  |-> ByteFrom(symbols, 26)]

Weight == <<128, 64, 32, 16, 8, 4, 2, 1>>

(* The eight symbols from i on have the bits of byte, highest first.       *)
Carries(symbols, i, byte) ==
    \A k \in 1 .. 8 :
        symbols[i + k - 1] >= Threshold <=> (byte \div Weight[k]) % 2 = 1

-----------------------------------------------------------------------------
(* The DS18B20: temperatures are integers, in sixteenths of a degree.      *)

Resolution == 0 .. 3

(* The bits that a resolution leaves undefined: lsb_mask, and one more.    *)
Step(resolution) ==
    CASE resolution = 0 -> 8
      [] resolution = 1 -> 4
      [] resolution = 2 -> 2
      [] OTHER          -> 1

(* The configuration register has the resolution above five ones.          *)
ConfigurationByte(resolution) == 32 * resolution + 31

(* What a probe writes to its scratchpad at a temperature.                 *)
Scratchpad(temperature, resolution) ==
    LET word == temperature % 65536 IN
    [temp_lsb      |-> word % 256,
     temp_msb      |-> word \div 256,
     configuration |-> ConfigurationByte(resolution)]

(* temp_msb is widened as it is, without a sign, so that nothing here is   *)
(* ever negative.                                                          *)
get_temperature(scratchpad) ==
    LET step == Step(scratchpad.configuration \div 32) IN
    scratchpad.temp_msb * 256 + (scratchpad.temp_lsb - (scratchpad.temp_lsb % step))

(* The temperature down to the next step of the resolution.                *)
Rounded(temperature, resolution) ==
    temperature - (temperature % Step(resolution))

-----------------------------------------------------------------------------
(* Each address connects its own line, whatever was connected before, and  *)
(* a refused one changes nothing: what Measurements has as mux' = line.    *)
MuxConnects(levels, address) ==
    Connected(mux_address(levels, address)) =
        IF address \in Address THEN address ELSE Connected(levels)

(* Whatever channel the driver addressed before, the word that starts a    *)
(* conversion names this one and leaves all other fields as set up: range  *)
(* 0 and the lower nine bits of the default, single-shot with no           *)
(* comparator.                                                             *)
WordForChannel(configuration, channel) ==
    StartConversion(AddressMux(configuration, MuxOf(channel))) =
        OS_BIT + 4096 * (4 + channel) + (ADS1115_DEFAULT_CONFIG % 512)

(* Configurations the driver can hold between two conversions.             *)
Configurations ==
    {InitialConfiguration} \cup
        {4096 * (4 + channel) + InitialConfiguration : channel \in 0 .. 3}

(* Two truncating divisions lose less than one millivolt: the value is the *)
(* voltage, of 6144 mV in 32768 steps, rounded towards zero (pomiary.json: *)
(* "podane w mV").                                                         *)
MillivoltsExact(register) ==
    LET mV == Millivolts(register) IN
    IF register >= 0
    THEN 32768 * mV <= 6144 * register /\ 6144 * register < 32768 * (mV + 1)
    ELSE 32768 * (mV - 1) < 6144 * register /\ 6144 * register <= 32768 * mV

(* Four bytes in a frame are the four bytes of the result, whatever the    *)
(* checksum says and whatever the result was.                              *)
FrameParsed(symbols, reading, result) ==
    (/\ Carries(symbols, 2, reading.rh_integral)
     /\ Carries(symbols, 10, reading.rh_decimal)
     /\ Carries(symbols, 18, reading.temp_integral)
     /\ Carries(symbols, 26, reading.temp_decimal))
    => DHT11_Parse(symbols, FrameLength, result) = reading

(* A temperature from 0 degrees on is read as it is, to the step of the    *)
(* probe's resolution; one below is read 4096 degrees too high.            *)
TemperatureRead(temperature, resolution) ==
    get_temperature(Scratchpad(temperature, resolution)) =
        Rounded(temperature, resolution)
            + (IF temperature < 0 THEN 65536 ELSE 0)
=============================================================================
