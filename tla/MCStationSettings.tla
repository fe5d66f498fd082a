--------------------------- MODULE MCStationSettings ---------------------------
(* Two clients, for TLC. *)
EXTENDS StationSettings, TLC
CONSTANTS c1, c2
ClientSymmetry == Permutations(Clients)
=============================================================================
