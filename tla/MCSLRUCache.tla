---------------------------- MODULE MCSLRUCache ----------------------------
(* Constants for model-checking SLRUCache: a big chunk outweighs the share  *)
(* of a list in the smaller configurations, so that demotions cascade.      *)
EXTENDS SLRUCache, TLC

CONSTANTS k1, k2, k3

MCKey == {k1, k2, k3}
MCSize == {2, 3}
MCCapacities == {3, 4, 5}
=============================================================================
