--------------------------- MODULE MCAircraftTable ---------------------------
(* Instances of AircraftTable for TLC.  No symmetry: the instance is also   *)
(* checked for liveness.                                                    *)
EXTENDS AircraftTable

CONSTANTS a1, a2

TwoAircraft == {a1, a2}
=============================================================================
