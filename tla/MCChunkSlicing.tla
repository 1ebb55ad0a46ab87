-------------------------- MODULE MCChunkSlicing ---------------------------
(* Constants for model-checking ChunkSlicing: a big chunk is three tiny ones *)
(* of two bytes; files of none, of part of a chunk, of both kinds and of     *)
(* whole chunks only, and one too large to be believed.                      *)
EXTENDS ChunkSlicing

MCFileSizes == {0, 5, 9, 11, 12, 99}
MCKeyOffsets == {1, 2, 4}
=============================================================================
