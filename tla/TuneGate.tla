------------------------------ MODULE TuneGate ------------------------------
(***************************************************************************)
(* The frame gate of the tune ledger                                       *)
(* (src/upstream/dsd-neo/src/runtime/trunk_tuning_hooks.c) as seen by one  *)
(* owner whose tunes all go through one controller.                        *)
(*                                                                         *)
(* The controller answers tunes in the order in which they were begun, so  *)
(* the pending records of the ledger are the tunes it still owns.  Of the  *)
(* failed records only the newest matters to the gate: the success that    *)
(* retires it retires them all.  What is left of the ledger is whether     *)
(* there is such a failure, and how many of the tunes that are still owned *)
(* are older than it, and so cannot retire it.                             *)
(***************************************************************************)
EXTENDS Naturals

Gates == [shut : BOOLEAN, older : Nat]

OpenGate == [shut |-> FALSE, older |-> 0]

(* A failure newer than the n tunes that are owned by the controller. *)
ShutBehind(n) == [shut |-> TRUE, older |-> n]

(* The oldest tune succeeds and retires the failures older than itself. *)
OldestLands(g) == IF g.older > 0 THEN [g EXCEPT !.older = @ - 1] ELSE OpenGate

(* The oldest tune fails after its call has returned. *)
OldestFails(g) == ShutBehind(IF g.older > 0 THEN g.older - 1 ELSE 0)
=============================================================================
