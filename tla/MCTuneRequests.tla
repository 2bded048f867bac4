--------------------------- MODULE MCTuneRequests ---------------------------
(* A table of two slots: the third request of a behaviour must re-use one, *)
(* and inherits a gate when both are gated.                                *)
EXTENDS TuneRequests
=============================================================================
