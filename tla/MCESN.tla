------------------------------- MODULE MCESN -------------------------------
(* One goroutine calling the engine directly, as the tests and the         *)
(* training example of the integration guide do.                          *)
EXTENDS ESN

CONSTANTS c1, b1, b2

MCCallers == {c1}
MCBatches == {b1, b2}
=============================================================================
