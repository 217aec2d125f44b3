--------------------------- MODULE MCCircuitBreaker ----------------------------
(* One thread or two; small numbers in place of 5 failures, 30 s, 3 retries. *)
EXTENDS CircuitBreaker, TLC
CONSTANTS c1, c2, never
================================================================================
