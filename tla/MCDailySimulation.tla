------------------------- MODULE MCDailySimulation -------------------------
(* Constants for model-checking DailySimulation: two days, three keys, two  *)
(* capacities under one file name.                                          *)
EXTENDS DailySimulation, TLC

CONSTANTS k1, k2, k3

MCKey == {k1, k2, k3}
MCSize == {2, 3}
MCCapacities == {3, 4}
KeySymmetry == Permutations(MCKey)
MCDay == {1, 2}
=============================================================================
