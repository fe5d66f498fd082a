--------------------------- MODULE MCMeasurements ---------------------------
(* Small instances of Measurements for TLC: one for every way a round can  *)
(* go, as their combinations multiply and add nothing. Two probes are      *)
(* enough for one to inherit the temperature of the other.                 *)
EXTENDS Measurements, Sensors

CONSTANTS p1, p2

MCProbes == {p1, p2}

Case(expiries, broken, failing, present, lines) ==
    [triggers |-> expiries, search |-> broken, read |-> failing,
     probes |-> present, answers |-> lines]

(* A broken search, so that rounds begin late; a failing transaction with  *)
(* any sensor; probes that come and go; lines of a DHT11 that answer, hold *)
(* no sensor or show no edge, from line to line and round to round.        *)
MCBounds ==
    { Case(3, 1, 0, {p1}, {"answers"}),
      Case(2, 0, 1, MCProbes, {"answers"}),
      Case(3, 0, 0, MCProbes, {"answers"}),
      Case(2, 0, 0, {}, {"answers", "absent", "silent"}) }

ReadBounds == { Case(2, 0, 1, MCProbes, {"answers"}) }

-----------------------------------------------------------------------------
(* What the drivers compute, over all registers, channels, bytes and the   *)
(* range of a DS18B20, from -55 to 125 degrees.                            *)

Low == [pin32 |-> 0, pin33 |-> 0, pin5 |-> 0]

Bytes(a, b, c, d) ==
    [rh_integral |-> a, rh_decimal |-> b, temp_integral |-> c, temp_decimal |-> d]

(* A frame with these bytes, and ones for its checksum.                    *)
Frame(reading) ==
    LET bit(byte, k) == (byte \div Weight[k]) % 2
        sent(n) == CASE n \in 2 .. 9   -> bit(reading.rh_integral, n - 1)
                     [] n \in 10 .. 17 -> bit(reading.rh_decimal, n - 9)
                     [] n \in 18 .. 25 -> bit(reading.temp_integral, n - 17)
                     [] n \in 26 .. 33 -> bit(reading.temp_decimal, n - 25)
                     [] OTHER          -> 1
    IN  [n \in 0 .. FrameLength - 1 |-> IF sent(n) = 1 THEN 70 ELSE 26]

ASSUME DriversCompute ==
    /\ \A a, b \in 0 .. 9 : MuxConnects(mux_address(Low, a), b)
    /\ \A c \in Configurations : \A i \in 0 .. 3 : WordForChannel(c, i)
    /\ \A r \in -32768 .. 32767 : MillivoltsExact(r)
    /\ \A r \in {0, 1, 255, 256, 32767, 32768, 65535} :
           ReadRegister(WriteRegister(r)) = r
    /\ \A n \in 0 .. 255 :
           LET reading == Bytes(n, 255 - n, (n + 85) % 256, n) IN
           /\ FrameParsed(Frame(reading), reading, Bytes(1, 2, 3, 4))
           /\ DHT11_Parse(Frame(reading), FrameLength, Bytes(1, 2, 3, 4)) = reading
    /\ \A t \in -880 .. 2000 : \A r \in Resolution : TemperatureRead(t, r)
=============================================================================
