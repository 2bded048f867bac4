---------------------------- MODULE TuneRequests ----------------------------
(***************************************************************************)
(* The table of tune requests and the frame gate derived from it           *)
(* (src/upstream/dsd-neo/src/runtime/trunk_tuning_hooks.c).                *)
(*                                                                         *)
(* An owner (a trunking state machine, a scanner) begins a request, lets   *)
(* the tuner backend act on it and then reports whether it committed its   *)
(* own state.  The backend reports independently, from the controller      *)
(* thread, before or after the owner.  The table is guarded by a spin      *)
(* lock; the frame check reads unresolved_count and generation without it. *)
(*                                                                         *)
(* Every section under the lock is one action, except that a success is    *)
(* two: the generation advances first and the count falls afterwards, and  *)
(* a lock-free reader may run in between.  Results other than OK and       *)
(* PENDING are one value, FAILED: the table never tells them apart.        *)
(***************************************************************************)
EXTENDS Naturals, FiniteSets

CONSTANTS
  History,       \* slots of the table (64 in the code)
  Owners,        \* threads that run tune transactions
  Observers,     \* threads that collect frames and check them
  MaxRequests    \* bound: requests begun in one behaviour

ASSUME HistoryAssumption == History \in Nat \ {0}
ASSUME BoundAssumption == MaxRequests \in Nat

VARIABLES
  table,             \* the request records, by slot
  generation,        \* g_trunk_tuning_generation
  next_request,      \* g_trunk_tuning_next_request
  unresolved_count,  \* g_trunk_tuning_unresolved_count
  settling,          \* slot whose success is half done under the lock, or 0
  owner,             \* what each owner is doing, and its request
  observer,          \* what each observer is doing, and its frame's generation
  refused,           \* history: requests some side reported as failed
  established        \* history: requests that advanced the generation

shared == <<table, generation, next_request, unresolved_count, settling>>
ghosts == <<refused, established>>
vars == <<table, generation, next_request, unresolved_count, settling,
          owner, observer, refused, established>>

Slots == 1 .. History
Ids == 1 .. MaxRequests
States == {"FREE", "PENDING", "FAILED_GATED", "FINISHED"}
Results == {"OK", "PENDING", "FAILED"}

Record == [request_id : Nat, result : Results, state : States,
           inherited_failure_gate : BOOLEAN, backend_complete : BOOLEAN,
           owner_ready : BOOLEAN]

FreeRecord ==
  [request_id |-> 0, result |-> "OK", state |-> "FREE",
   inherited_failure_gate |-> FALSE, backend_complete |-> FALSE,
   owner_ready |-> FALSE]

OwnerPcs == {"idle", "allocating", "backend"}
ObserverPcs == {"none", "captured", "read_generation", "recheck_count",
                "recheck_generation", "dispatched", "withheld"}

TypeOK ==
  /\ table \in [Slots -> Record]
  /\ generation \in Nat
  /\ next_request \in Nat
  /\ unresolved_count \in Nat
  /\ settling \in Slots \cup {0}
  /\ owner \in [Owners -> [pc : OwnerPcs, id : Nat]]
  /\ observer \in [Observers -> [pc : ObserverPcs, generation : Nat]]
  /\ refused \subseteq Nat
  /\ established \subseteq Nat

-----------------------------------------------------------------------------
(* The table *)

InState(t, st) == {s \in Slots : t[s].state = st}
Unresolved(t) == InState(t, "PENDING") \cup InState(t, "FAILED_GATED")
Oldest(t, S) == {s \in S : \A r \in S : t[s].request_id <= t[r].request_id}

(* Faulty variant: with no free slot, the oldest record goes, whatever it is. *)
ReusableSlotEvicting(t) ==
  IF InState(t, "FREE") # {} THEN InState(t, "FREE") ELSE Oldest(t, Slots)

(* The slots a new request may take: a free one, else the oldest finished  *)
(* one, else the oldest gated failure, whose gate it inherits; never one   *)
(* that is pending.                                                        *)
ReusableSlot(t) ==
  LET free == InState(t, "FREE")
      finished == InState(t, "FINISHED")
  IN IF free # {} THEN {s \in free : \A r \in free : s <= r}
     ELSE IF finished # {} THEN Oldest(t, finished)
     ELSE Oldest(t, InState(t, "FAILED_GATED"))

Find(t, id) == {s \in Slots : t[s].request_id = id /\ t[s].state # "FREE"}

(* What request_status answers to a state machine that polls its request. *)
Status(id) ==
  IF Find(table, id) = {} THEN "FAILED"
  ELSE LET record == table[CHOOSE s \in Find(table, id) : TRUE] IN
       IF record.state = "PENDING" THEN "PENDING" ELSE record.result

(* Faulty variant: a success of whatever age retires every failure. *)
SupersededAll(t, s) == InState(t, "FAILED_GATED")

(* Gated failures older than a request that has just succeeded. *)
Superseded(t, s) ==
  {r \in InState(t, "FAILED_GATED") : t[r].request_id < t[s].request_id}

Unlocked == settling = 0

Finish(t, S) ==
  [s \in Slots |-> IF s \in S THEN [t[s] EXCEPT !.state = "FINISHED"] ELSE t[s]]

-----------------------------------------------------------------------------
Init ==
  /\ table = [s \in Slots |-> FreeRecord]
  /\ generation = 1
  /\ next_request = 0
  /\ unresolved_count = 0
  /\ settling = 0
  /\ owner = [o \in Owners |-> [pc |-> "idle", id |-> 0]]
  /\ observer = [w \in Observers |-> [pc |-> "none", generation |-> 0]]
  /\ refused = {}
  /\ established = {}

(* Faulty variant: the counter is read now and stored by nobody. *)
BeginIdUnfetched(o) ==
  /\ owner[o].pc = "idle"
  /\ next_request < MaxRequests
  /\ owner' = [owner EXCEPT ![o] = [pc |-> "allocating", id |-> next_request + 1]]
  /\ UNCHANGED <<shared, observer, ghosts>>

(* The identity is drawn before the lock is taken, so requests may enter   *)
(* the table in another order than that of their identities.               *)
BeginId(o) ==
  /\ owner[o].pc = "idle"
  /\ next_request < MaxRequests
  /\ next_request' = next_request + 1
  /\ owner' = [owner EXCEPT ![o] = [pc |-> "allocating", id |-> next_request + 1]]
  /\ UNCHANGED <<table, generation, unresolved_count, settling, observer, ghosts>>

(* Every slot pending: the request is not begun, its caller sees a failure. *)
BeginRefused(o) ==
  /\ owner[o].pc = "allocating"
  /\ Unlocked
  /\ ReusableSlot(table) = {}
  /\ owner' = [owner EXCEPT ![o].pc = "idle"]
  /\ UNCHANGED <<shared, observer, ghosts>>

BeginSlot(o) ==
  /\ owner[o].pc = "allocating"
  /\ Unlocked
  /\ \E s \in ReusableSlot(table) :
       LET inherited == table[s].state = "FAILED_GATED" IN
       /\ table' = [table EXCEPT ![s] =
            [FreeRecord EXCEPT !.request_id = owner[o].id, !.result = "PENDING",
               !.state = "PENDING", !.inherited_failure_gate = inherited]]
       /\ unresolved_count' = unresolved_count + (IF inherited THEN 0 ELSE 1)
  /\ owner' = [owner EXCEPT ![o].pc = "backend"]
  /\ UNCHANGED <<generation, next_request, settling, observer, ghosts>>

(* finish_success up to its first lock-free effect: the record is still    *)
(* counted when the generation advances.                                   *)
AdvanceGeneration(s, record) ==
  /\ table' = [table EXCEPT ![s] = record]
  /\ generation' = generation + 1
  /\ settling' = s
  /\ established' = established \cup {record.request_id}
  /\ UNCHANGED unresolved_count

(* The rest of finish_success: the record and the gated failures it        *)
(* supersedes leave the count.  The count is only compared with zero, so   *)
(* its single decrements are one step.                                     *)
Settle ==
  /\ settling # 0
  /\ LET retired == Superseded(table, settling) IN
     /\ table' = Finish(table, retired \cup {settling})
     /\ unresolved_count' = unresolved_count - (1 + Cardinality(retired))
  /\ settling' = 0
  /\ UNCHANGED <<generation, next_request, owner, observer, ghosts>>

(* Faulty variant: an inherited gate stays in the table but not in the count. *)
RollBackUncounting(s, record) ==
  /\ table' = [table EXCEPT ![s] =
       [record EXCEPT !.state =
          IF record.inherited_failure_gate THEN "FAILED_GATED" ELSE "FINISHED"]]
  /\ unresolved_count' = unresolved_count - 1
  /\ UNCHANGED <<generation, settling, established>>

(* finish_rolled_back: an inherited gate outlives the rollback. *)
RollBack(s, record) ==
  LET gated == record.inherited_failure_gate IN
  /\ table' = [table EXCEPT ![s] =
       [record EXCEPT !.state = IF gated THEN "FAILED_GATED" ELSE "FINISHED"]]
  /\ unresolved_count' = unresolved_count - (IF gated THEN 0 ELSE 1)
  /\ UNCHANGED <<generation, settling, established>>

KeepGate(s, record) ==
  /\ table' = [table EXCEPT ![s] = record]
  /\ UNCHANGED <<generation, unresolved_count, settling, established>>

-----------------------------------------------------------------------------
(* request_publish: the backend reports a request.  A report for a request *)
(* that has left the table, or is no longer pending, changes nothing.      *)

PublishOk(s) ==
  /\ Unlocked
  /\ table[s].state = "PENDING"
  /\ LET record == [table[s] EXCEPT !.result = "OK", !.backend_complete = TRUE] IN
     IF record.owner_ready THEN AdvanceGeneration(s, record) ELSE KeepGate(s, record)
  /\ UNCHANGED <<next_request, owner, observer, refused>>

PublishFailed(s) ==
  /\ Unlocked
  /\ table[s].state = "PENDING"
  /\ KeepGate(s, [table[s] EXCEPT !.result = "FAILED", !.backend_complete = TRUE,
                                 !.state = "FAILED_GATED"])
  /\ refused' = refused \cup {table[s].request_id}
  /\ UNCHANGED <<next_request, owner, observer>>

(* request_mark_ready: the owner has committed its state, the backend      *)
(* still owes its result.                                                  *)
MarkReady(o) ==
  /\ owner[o].pc = "backend"
  /\ Unlocked
  /\ owner' = [owner EXCEPT ![o].pc = "idle"]
  /\ \/ \E s \in Find(table, owner[o].id) :
          /\ table[s].state = "PENDING"
          /\ LET record == [table[s] EXCEPT !.owner_ready = TRUE] IN
             IF record.backend_complete /\ record.result = "OK"
             THEN AdvanceGeneration(s, record) ELSE KeepGate(s, record)
     \/ /\ \A s \in Find(table, owner[o].id) : table[s].state # "PENDING"
        /\ UNCHANGED <<table, generation, unresolved_count, settling, established>>
  /\ UNCHANGED <<next_request, observer, refused>>

(* Faulty variant: an owner that committed overrules the backend's failure. *)
CompleteGatedOverruling(s, record, result) ==
  /\ record.state = "FAILED_GATED"
  /\ IF result = "OK" THEN AdvanceGeneration(s, record) ELSE RollBack(s, record)

(* The backend's failure came first: an owner that rolled back agrees with *)
(* it; an owner that committed stays gated for recovery.                   *)
CompleteGated(s, record, result) ==
  /\ record.state = "FAILED_GATED"
  /\ IF result = "OK" THEN KeepGate(s, record) ELSE RollBack(s, record)

(* The backend has not reported: the owner's word decides. *)
CompleteUnreported(s, record, result) ==
  /\ record.state = "PENDING"
  /\ ~ record.backend_complete
  /\ LET reported == [record EXCEPT !.result = result, !.backend_complete = TRUE] IN
     IF result = "OK" THEN AdvanceGeneration(s, reported) ELSE RollBack(s, reported)

(* Faulty variant: the disagreement is gated, but the OK stays on record. *)
CompleteReportedAsOk(s, record, result) ==
  /\ record.state = "PENDING"
  /\ record.backend_complete
  /\ IF result = "OK" THEN AdvanceGeneration(s, record)
     ELSE KeepGate(s, [record EXCEPT !.state = "FAILED_GATED"])

(* The backend has tuned (a failure would have gated the record): an owner *)
(* that did not commit disagrees with the hardware, and the gate is kept.  *)
CompleteReported(s, record, result) ==
  /\ record.state = "PENDING"
  /\ record.backend_complete
  /\ IF result = "OK" THEN AdvanceGeneration(s, record)
     ELSE KeepGate(s, [record EXCEPT !.result = result, !.state = "FAILED_GATED"])

(* request_complete: the owner reports the outcome it has seen.  A request *)
(* that is finished, or whose slot was taken over, is left alone.          *)
Complete(o, result) ==
  /\ owner[o].pc = "backend"
  /\ Unlocked
  /\ owner' = [owner EXCEPT ![o].pc = "idle"]
  /\ refused' = IF result = "OK" THEN refused ELSE refused \cup {owner[o].id}
  /\ \/ \E s \in Find(table, owner[o].id) :
          LET record == [table[s] EXCEPT !.owner_ready = TRUE] IN
          \/ CompleteGated(s, record, result)
          \/ CompleteUnreported(s, record, result)
          \/ CompleteReported(s, record, result)
     \/ /\ \A s \in Find(table, owner[o].id) : table[s].state = "FINISHED"
        /\ UNCHANGED <<table, generation, unresolved_count, settling, established>>
  /\ UNCHANGED <<next_request, observer>>

(* Faulty variant: the retired records are still counted. *)
RetireFailedCounted ==
  /\ Unlocked
  /\ InState(table, "FAILED_GATED") # {}
  /\ table' = Finish(table, InState(table, "FAILED_GATED"))
  /\ UNCHANGED <<generation, next_request, unresolved_count, settling, owner, observer, ghosts>>

(* retire_failed_requests, run when no tuning owner is active; the caller's *)
(* early return on a zero count is the case where nothing is gated.        *)
RetireFailed ==
  /\ Unlocked
  /\ LET failed == InState(table, "FAILED_GATED") IN
     /\ failed # {}
     /\ table' = Finish(table, failed)
     /\ unresolved_count' = unresolved_count - Cardinality(failed)
  /\ UNCHANGED <<generation, next_request, settling, owner, observer, ghosts>>

(* requests_reset, at the start of an engine run: no owner and no frame     *)
(* check is under way.  The generation and the identities go on.           *)
Reset ==
  /\ Unlocked
  /\ \A o \in Owners : owner[o].pc = "idle"
  /\ \A w \in Observers : observer[w].pc \in {"none", "dispatched", "withheld"}
  /\ table' = [s \in Slots |-> FreeRecord]
  /\ unresolved_count' = 0
  /\ UNCHANGED <<generation, next_request, settling, owner, observer, ghosts>>

-----------------------------------------------------------------------------
(* The frame check, one action per lock-free read *)

Observe(w, from, to) ==
  /\ observer[w].pc = from
  /\ observer' = [observer EXCEPT ![w].pc = to]
  /\ UNCHANGED <<shared, owner, ghosts>>

Open == unresolved_count = 0
Current(w) == observer[w].generation = generation

(* The generation is taken before the search for frame sync begins. *)
Capture(w) ==
  /\ observer[w].pc \in {"none", "captured", "dispatched", "withheld"}
  /\ observer' = [observer EXCEPT ![w] = [pc |-> "captured", generation |-> generation]]
  /\ UNCHANGED <<shared, owner, ghosts>>

CheckCount(w) ==
  Observe(w, "captured", IF Open THEN "read_generation" ELSE "withheld")
CheckGeneration(w) ==
  Observe(w, "read_generation", IF Current(w) THEN "recheck_count" ELSE "withheld")
RecheckCount(w) ==
  Observe(w, "recheck_count", IF Open THEN "recheck_generation" ELSE "withheld")
(* Faulty variant of the last read: the generation is compared only once. *)
RecheckGenerationSkipped(w) ==
  Observe(w, "recheck_generation", "dispatched")
RecheckGeneration(w) ==
  Observe(w, "recheck_generation", IF Current(w) THEN "dispatched" ELSE "withheld")

-----------------------------------------------------------------------------
OwnerStep(o) ==
  \/ BeginId(o) \/ BeginRefused(o) \/ BeginSlot(o) \/ MarkReady(o)
  \/ \E result \in {"OK", "FAILED"} : Complete(o, result)

ObserverStep(w) ==
  \/ Capture(w) \/ CheckCount(w) \/ CheckGeneration(w)
  \/ RecheckCount(w) \/ RecheckGeneration(w)

Next ==
  \/ \E o \in Owners : OwnerStep(o)
  \/ \E s \in Slots : PublishOk(s) \/ PublishFailed(s)
  \/ Settle
  \/ RetireFailed
  \/ Reset
  \/ \E w \in Observers : ObserverStep(w)

Spec == Init /\ [][Next]_vars

-----------------------------------------------------------------------------
(* Properties *)

(* The counter that the lock-free check reads is the number of pending and *)
(* gated records, whatever order the reports of owner and backend come in: *)
(* every path that finishes or re-uses a record accounts for it once.      *)
UnresolvedCountExact == unresolved_count = Cardinality(Unresolved(table))

(* Two records never share an identity, although identities are drawn      *)
(* before the lock and slots are re-used: a late report reaches the        *)
(* request it belongs to or none.                                          *)
IdsDistinct ==
  \A s, r \in Slots :
    (table[s].state # "FREE" /\ table[s].request_id = table[r].request_id) => s = r

(* A state machine that polls request_status and reads OK may rely on the  *)
(* boundary being set: no gated or rolled-back record shows the backend's  *)
(* OK.                                                                     *)
StatusOkMeansBoundary ==
  \A id \in Ids : Status(id) = "OK" => id \in established

(* A request that the owner, the backend or a deadline has reported as     *)
(* failed never becomes a boundary afterwards, and none becomes one twice: *)
(* a late completion cannot resurrect an expired request.                  *)
NoResurrection ==
  [][generation' # generation =>
       \E id \in established' \ (established \cup refused) :
         /\ established' = established \cup {id}
         /\ generation' = generation + 1]_vars

(* What the three invariants above rest on.  A request's fate is decided   *)
(* once: a pending record is still undecided unless its success is being   *)
(* settled, and every other record tells who decided it.                   *)
FateOf(s) ==
  LET record == table[s] IN
  /\ record.state = "PENDING" /\ s # settling
       => record.request_id \notin established \cup refused
  /\ record.state = "FAILED_GATED" => record.request_id \in refused
  /\ record.state = "FINISHED" => record.request_id \in established \cup refused
  /\ record.state # "PENDING" /\ record.result = "OK" /\ record.state # "FREE"
       => record.request_id \in established

SettlingPending ==
  settling # 0 => /\ table[settling].state = "PENDING"
                  /\ table[settling].request_id \in established

(* Identities come from the counter, below the bound of the model. *)
IdsDrawn ==
  LET drawn == 1 .. next_request IN
  /\ next_request <= MaxRequests
  /\ established \cup refused \subseteq drawn
  /\ \A s \in Slots : IF table[s].state = "FREE" THEN table[s].request_id = 0
                      ELSE table[s].request_id \in drawn
  /\ \A o \in Owners : owner[o].pc # "idle" => owner[o].id \in drawn

(* An identity that has been drawn but not entered is nobody else's. *)
FreshIds ==
  /\ \A o \in Owners : owner[o].pc = "allocating" =>
       /\ owner[o].id \notin established \cup refused
       /\ \A s \in Slots : table[s].request_id # owner[o].id
  /\ \A o, p \in Owners :
       (o # p /\ owner[o].pc # "idle" /\ owner[p].pc # "idle") => owner[o].id # owner[p].id

FramesNotAhead == \A w \in Observers : observer[w].generation <= generation

(* The inductive invariant: every request has one identity, one record and *)
(* one fate, and the count is that of the undecided and gated records.     *)
IInv ==
  /\ TypeOK
  /\ UnresolvedCountExact
  /\ IdsDistinct
  /\ \A s \in Slots : FateOf(s)
  /\ SettlingPending
  /\ IdsDrawn
  /\ FreshIds
  /\ FramesNotAhead

(* The table, its counter and the four lock-free reads implement the gate  *)
(* that FrameGate states.                                                  *)
AbstractFrame(w) ==
  [status |-> CASE observer[w].pc \in {"none", "dispatched", "withheld"} -> observer[w].pc
                [] observer[w].pc = "recheck_generation" /\ Current(w) -> "cleared"
                [] OTHER -> "captured",
   boundary |-> observer[w].generation]

Gate == INSTANCE FrameGate WITH
          Requests <- Ids,
          unresolved <- {table[s].request_id : s \in Unresolved(table)},
          boundary <- generation,
          spent <- established \cup refused,
          frame <- [w \in Observers |-> AbstractFrame(w)]

GateSpec == Gate!Spec
-----------------------------------------------------------------------------
(* The summary of the table that ChannelScan and P25TrunkSM keep *)

InCall(s) == \E o \in Owners : owner[o].pc = "backend" /\ owner[o].id = table[s].request_id

Older(s, r) == table[s].request_id < table[r].request_id

(* Tunes whose calls have returned, and which the backend has still to      *)
(* answer.  A success counts from the generation it advances.              *)
Awaited == {s \in InState(table, "PENDING") : s # settling /\ ~ InCall(s)}

(* Failures that their owners know of, and no success has overtaken. *)
Denied ==
  {s \in InState(table, "FAILED_GATED") :
     ~ InCall(s) /\ ~ (settling # 0 /\ Older(s, settling))}

OwnersGate ==
  [shut |-> Denied # {},
   older |-> Cardinality({s \in Awaited : \E r \in Denied : Older(s, r)})]

Owned == INSTANCE OwnedTunes WITH owned <- Cardinality(Awaited), gate <- OwnersGate

(* The controller answers the oldest tune first. *)
AnsweredInOrder ==
  \A s \in Awaited \ Awaited' : Awaited' = {} \/ \A r \in Awaited : ~ Older(r, s)

(* A call that returns is about the newest tune. *)
ReturnsNewest ==
  \A o \in Owners : (owner[o].pc = "backend" /\ owner'[o].pc = "idle") =>
    \A s \in Awaited \cup Denied : table[s].request_id < owner[o].id

(* A table with room: a failure loses its slot to a request only while a   *)
(* newer failure stays.                                                    *)
NewestStays ==
  \A s \in Denied : table'[s].state = "PENDING" => \E r \in Denied : Older(s, r)

InOrder == AnsweredInOrder /\ ReturnsNewest /\ NewestStays

(* A boundary is a landing.  Without one, the gate opens only as failures  *)
(* leave the count, and the second half of a success retires what its      *)
(* generation has announced and no more.                                   *)
OpensForAReason ==
  /\ generation' # generation => Owned!Landing
  /\ (Denied # {} /\ Denied' = {}) =>
       generation' # generation \/ unresolved_count' < unresolved_count
  /\ settling # 0 => UNCHANGED Owned!vars

(* As long as tunes are answered in order, the gate is what OwnedTunes     *)
(* says: a failure keeps it shut until a newer tune succeeds, however many *)
(* older ones succeed before.                                              *)
GateOfOwnedTunes ==
  [][InOrder => (Owned!Next \/ UNCHANGED Owned!vars) /\ OpensForAReason]_vars

(* What this rests on: an owner that is ready has returned from its call.  *)
ReadyReturned ==
  \A s \in InState(table, "PENDING") : table[s].owner_ready => ~ InCall(s)
=============================================================================
