------------------------- MODULE MCImagerySupervisor -------------------------
(* ImagerySupervisor for TLC: two cities, in this order.                   *)
EXTENDS ImagerySupervisor

CONSTANTS c1, c2

MCCities == <<c1, c2>>
=============================================================================
