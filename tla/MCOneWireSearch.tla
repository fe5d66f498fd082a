--------------------------- MODULE MCOneWireSearch ---------------------------
(* Addresses of four bits, the two lowest the family code, of which 00 is  *)
(* the DS18B20's. Every set of up to four devices is a bus.                *)
EXTENDS OneWireSearch, FiniteSets

MCSupported == {a \in Address : a[0] = 0 /\ a[1] = 0}

MCBuses == {devices \in SUBSET Address : Cardinality(devices) <= 4}
=============================================================================
