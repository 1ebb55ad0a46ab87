--------------------------- MODULE MCListCaches ----------------------------
(* Constants for model-checking ListCaches: a big chunk is worth three tiny *)
(* ones, and a size that is neither counts as tiny.                         *)
EXTENDS ListCaches

CONSTANTS k1, k2, k3, k4

MCKey3 == {k1, k2, k3}
MCKey4 == {k1, k2, k3, k4}
MCSize == {2, 3}
MCCapacities == {3, 4, 5}
=============================================================================
