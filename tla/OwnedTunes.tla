----------------------------- MODULE OwnedTunes -----------------------------
(***************************************************************************)
(* What the ledger of src/upstream/dsd-neo/src/runtime/trunk_tuning_hooks.c *)
(* promises to an owner of tunes that go through one controller: which     *)
(* tunes are still owned, and what its failures make of the frame gate.    *)
(* TuneRequests implements it for tunes that are answered in order;        *)
(* ChannelScan and P25TrunkSM keep the ledger in this form.                *)
(***************************************************************************)
EXTENDS TuneGate

VARIABLES
  owned,   \* how many tunes the controller has been left with
  gate

vars == <<owned, gate>>

Init == owned = 0 /\ gate = OpenGate

(* Calls return with their tunes left to the controller: one, or two where *)
(* a call is displaced by another.                                         *)
CallsKept == owned' \in {owned + 1, owned + 2} /\ gate' = gate

(* A call returns with its tune done, the newest of all. *)
CallLands == gate' = OpenGate /\ UNCHANGED owned

(* A call returns without success, and owner and backend disagree. *)
CallGated == gate' = ShutBehind(owned) /\ UNCHANGED owned

(* The controller is done with the oldest tune it was left with. *)
AnswerLands == owned > 0 /\ owned' = owned - 1 /\ gate' = OldestLands(gate)
AnswerFails == owned > 0 /\ owned' = owned - 1 /\ gate' = OldestFails(gate)

(* Nothing owns the tuner: the failures are retired.  A run of the engine  *)
(* starts: the ledger is emptied.                                          *)
Retire == gate' = OpenGate /\ UNCHANGED owned
Restart == gate' = OpenGate /\ owned' = 0

Landing == CallLands \/ AnswerLands

Next == Landing \/ CallsKept \/ CallGated \/ AnswerFails \/ Retire \/ Restart

Spec == Init /\ [][Next]_vars
=============================================================================
