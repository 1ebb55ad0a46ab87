------------------------- MODULE MCSLRUCheckpoint --------------------------
(* Constants for model-checking SLRUCheckpoint.                             *)
EXTENDS SLRUCheckpoint

CONSTANTS k1, k2, k3

MCKey == {k1, k2, k3}
MCSize == {2, 3}
MCCapacities == {4, 5}
=============================================================================
