--------------------------- MODULE MCThreadPool ----------------------------
(* Constants for model-checking ThreadPool.                                 *)
EXTENDS ThreadPool

CONSTANTS w1, w2, w3, p1, p2

MCWorker == {w1, w2}
MCWorker3 == {w1, w2, w3}
MCProducer == {p1, p2}
MCMaxSizes == {0, 1, 2}
=============================================================================
