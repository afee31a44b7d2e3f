------------------------------ MODULE MCDispatch ------------------------------
(* Instances of Dispatch for TLC.                                          *)
EXTENDS Dispatch, TLC

CONSTANTS a1, a2

\* One field of two aircraft.
TwoAircraft == {<<1, a1>>, <<1, a2>>}
=============================================================================
