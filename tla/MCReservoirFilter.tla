-------------------------- MODULE MCReservoirFilter --------------------------
(* Two goroutines classifying on one filter beside the trainer. *)
EXTENDS ReservoirFilter

CONSTANTS t1, t2, tr, b1

MCThreads == {t1, t2}
MCCallers == {t1, t2, tr}
MCBatches == {b1}
=============================================================================
