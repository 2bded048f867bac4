----------------------------- MODULE FrameGate -----------------------------
(***************************************************************************)
(* What the tune transaction layer promises to a frame dispatcher, without *)
(* its request table, its lock or its lock-free reads                      *)
(* (src/upstream/dsd-neo/src/runtime/trunk_tuning_hooks.c).                *)
(*                                                                         *)
(* A frame is collected under the tuning boundary that was current when    *)
(* its collection began.  It may be dispatched only if, at one instant     *)
(* after the check began, no tune was unresolved and the boundary was      *)
(* still the frame's, and if no newer boundary has been set since then.    *)
(* A boundary is set only behind a closed gate, by an unresolved request   *)
(* that nobody has reported as failed, and by each request at most once.   *)
(***************************************************************************)
EXTENDS Naturals

CONSTANTS Requests,    \* identities a tune request may take
          Observers    \* threads that collect and dispatch frames

VARIABLES unresolved,  \* requests that keep the gate closed
          boundary,    \* number of tuning boundaries set so far
          spent,       \* requests that can set no boundary any more
          frame        \* per observer: the frame it holds

vars == <<unresolved, boundary, spent, frame>>

Statuses == {"none", "captured", "cleared", "dispatched", "withheld"}

TypeOK ==
  /\ unresolved \subseteq Requests
  /\ boundary \in Nat
  /\ spent \subseteq Requests
  /\ frame \in [Observers -> [status : Statuses, boundary : Nat]]

Init ==
  /\ unresolved = {}
  /\ boundary = 1
  /\ spent = {}
  /\ frame = [w \in Observers |-> [status |-> "none", boundary |-> 0]]

(* A tune begins; it may take over the gate of one earlier spent request. *)
Open(r) ==
  /\ r \notin unresolved \cup spent
  /\ \/ unresolved' = unresolved \cup {r}
     \/ \E q \in unresolved \cap spent : unresolved' = (unresolved \ {q}) \cup {r}
  /\ UNCHANGED <<boundary, spent, frame>>

(* A tune that nobody refused becomes the boundary.  The gate is closed at *)
(* that moment, and a frame cleared under the old boundary loses its       *)
(* clearance.                                                              *)
Establish(r) ==
  /\ r \in unresolved \ spent
  /\ boundary' = boundary + 1
  /\ spent' = spent \cup {r}
  /\ frame' = [w \in Observers |->
                 IF frame[w].status = "cleared"
                 THEN [frame[w] EXCEPT !.status = "captured"] ELSE frame[w]]
  /\ UNCHANGED unresolved

(* One side reports that the tune failed; a rollback may resolve it. *)
Refuse(r) ==
  /\ spent' = spent \cup {r}
  /\ unresolved' \in {unresolved, unresolved \ {r}}
  /\ UNCHANGED <<boundary, frame>>

(* Spent requests leave: settled, superseded, rolled back or retired.  A     *)
(* request that may still become the boundary keeps the gate closed.       *)
Resolve ==
  /\ unresolved \ spent \subseteq unresolved'
  /\ unresolved' \subseteq unresolved
  /\ UNCHANGED <<boundary, spent, frame>>

(* A new engine run forgets every request; nobody holds a frame then. *)
Reset ==
  /\ \A w \in Observers : frame[w].status \notin {"captured", "cleared"}
  /\ unresolved' = {}
  /\ UNCHANGED <<boundary, spent, frame>>

Capture(w) ==
  /\ frame[w].status # "cleared"
  /\ frame' = [frame EXCEPT ![w] = [status |-> "captured", boundary |-> boundary]]
  /\ UNCHANGED <<unresolved, boundary, spent>>

Clear(w) ==
  /\ frame[w] = [status |-> "captured", boundary |-> boundary]
  /\ unresolved = {}
  /\ frame' = [frame EXCEPT ![w].status = "cleared"]
  /\ UNCHANGED <<unresolved, boundary, spent>>

Dispatch(w) ==
  /\ frame[w] = [status |-> "cleared", boundary |-> boundary]
  /\ frame' = [frame EXCEPT ![w].status = "dispatched"]
  /\ UNCHANGED <<unresolved, boundary, spent>>

Withhold(w) ==
  /\ frame[w].status \in {"captured", "cleared"}
  /\ frame' = [frame EXCEPT ![w].status = "withheld"]
  /\ UNCHANGED <<unresolved, boundary, spent>>

Next ==
  \/ \E r \in Requests : Open(r) \/ Establish(r) \/ Refuse(r)
  \/ Resolve
  \/ Reset
  \/ \E w \in Observers : Capture(w) \/ Clear(w) \/ Dispatch(w) \/ Withhold(w)

Spec == Init /\ [][Next]_vars
=============================================================================
