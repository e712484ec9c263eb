----------------------------- MODULE MCESNLocked -----------------------------
(* Two goroutines sharing one engine, each calling any method.            *)
EXTENDS ESNLocked

CONSTANTS c1, c2, b1

MCCallers == {c1, c2}
MCBatches == {b1}
=============================================================================
