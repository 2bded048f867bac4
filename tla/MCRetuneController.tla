------------------------- MODULE MCRetuneController -------------------------
(* Safety: four calls over two result slots, so that a result can be       *)
(* overwritten before its waiter looks.  Liveness: three calls, so that a  *)
(* call can meet a request that is queued, taken or detached.              *)
EXTENDS RetuneController, TLC

Symmetry == Permutations(Callers) \cup Permutations(Freqs)
=============================================================================
