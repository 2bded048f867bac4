--------------------------- MODULE OwnedTunesProofs ---------------------------
(***************************************************************************)
(* Proofs that the table of TuneRequests keeps the gate of OwnedTunes, for *)
(* every size of the table and any number of owners and requests: step by  *)
(* step while tunes are answered in order, and as a refinement for an      *)
(* owner that has the tuner to itself.                                     *)
(***************************************************************************)
EXTENDS TuneRequestsProofs

-----------------------------------------------------------------------------
(* The gate as a function of the awaited and the denied records *)

Identities == [Slots -> Nat]

Before(A, D, f) == {s \in A : \E r \in D : f[s] < f[r]}

GateOf(A, D, f) == [shut |-> D # {}, older |-> Cardinality(Before(A, D, f))]

(* Finite sets of slots, with what the counts need of them. *)
LEMMA SummaryFinite ==
  ASSUME NEW A \in SUBSET Slots, NEW D, NEW f
  PROVE  /\ IsFiniteSet(A) /\ Cardinality(A) \in Nat
         /\ Before(A, D, f) \in SUBSET A
         /\ IsFiniteSet(Before(A, D, f)) /\ Cardinality(Before(A, D, f)) \in Nat
<1>1. Before(A, D, f) \in SUBSET A
  BY DEF Before
<1> QED
  BY <1>1, SlotsFinite

(* A tune that is kept is newer than every failure: none of them waits for it. *)
LEMMA KeptLast ==
  ASSUME NEW A \in SUBSET Slots, NEW D \in SUBSET Slots, NEW f \in Identities,
         NEW s \in Slots \ A, \A r \in D : f[r] < f[s]
  PROVE  /\ GateOf(A \cup {s}, D, f) = GateOf(A, D, f)
         /\ Cardinality(A \cup {s}) = Cardinality(A) + 1
<1>1. Before(A \cup {s}, D, f) = Before(A, D, f)
  BY DEF Before, Identities
<1> QED
  BY <1>1, SlotsFinite, FS_AddElement DEF GateOf

(* A failure newer than all owned tunes is behind all of them. *)
LEMMA GatedLast ==
  ASSUME NEW A \in SUBSET Slots, NEW D \in SUBSET Slots, NEW f \in Identities,
         NEW s \in Slots, \A r \in A : f[r] < f[s]
  PROVE  GateOf(A, D \cup {s}, f) = [shut |-> TRUE, older |-> Cardinality(A)]
<1>1. Before(A, D \cup {s}, f) = A
  BY DEF Before, Identities
<1> QED
  BY <1>1 DEF GateOf

(* Without failures the gate is open. *)
LEMMA NoneDenied ==
  ASSUME NEW A, NEW f
  PROVE  GateOf(A, {}, f) = [shut |-> FALSE, older |-> 0]
<1>1. Before(A, {}, f) = {}
  BY DEF Before
<1> QED
  BY <1>1, FS_EmptySet DEF GateOf

(* A failure that a newer one covers can be forgotten. *)
LEMMA CoveredForgotten ==
  ASSUME NEW A \in SUBSET Slots, NEW D \in SUBSET Slots, NEW f \in Identities,
         NEW s \in D, \E r \in D : f[s] < f[r]
  PROVE  GateOf(A, D \ {s}, f) = GateOf(A, D, f)
<1>1. PICK r \in D : f[s] < f[r]
  OBVIOUS
<1>2. Before(A, D \ {s}, f) = Before(A, D, f)
  BY <1>1 DEF Before, Identities
<1>3. D \ {s} # {} /\ D # {}
  BY <1>1 DEF Identities
<1> QED
  BY <1>2, <1>3 DEF GateOf

(* The oldest of the owned tunes is before a failure if any of them is. *)
LEMMA OldestBefore ==
  ASSUME NEW A \in SUBSET Slots, NEW D \in SUBSET Slots, NEW f \in Identities,
         NEW s \in A, \A r \in A : f[s] <= f[r],
         Before(A, D, f) # {}
  PROVE  s \in Before(A, D, f)
BY DEF Before, Identities

(* The oldest tune succeeds: it retires the failures older than itself,    *)
(* which are all of them unless an owned tune is older than one.           *)
LEMMA OldestSucceeds ==
  ASSUME NEW A \in SUBSET Slots, NEW D \in SUBSET Slots, NEW f \in Identities,
         NEW s \in A, \A r \in A : f[s] <= f[r],
         \A r \in D : f[r] # f[s]
  PROVE  /\ GateOf(A \ {s}, {r \in D : f[s] < f[r]}, f) =
              IF Cardinality(Before(A, D, f)) > 0
              THEN [shut |-> TRUE, older |-> Cardinality(Before(A, D, f)) - 1]
              ELSE [shut |-> FALSE, older |-> 0]
         /\ Cardinality(A) > 0
         /\ Cardinality(A \ {s}) = Cardinality(A) - 1
<1> DEFINE B == Before(A, D, f)
           E == {r \in D : f[s] < f[r]}
<1>1. /\ IsFiniteSet(A) /\ Cardinality(A) \in Nat
      /\ IsFiniteSet(B) /\ Cardinality(B) \in Nat
  BY SummaryFinite
<1>2. Cardinality(A) > 0 /\ Cardinality(A \ {s}) = Cardinality(A) - 1
  BY <1>1, FS_RemoveElement, FS_EmptySet
<1>3. Before(A \ {s}, E, f) = B \ {s}
  BY DEF Before, Identities
<1>4. CASE B # {}
  <2>1. s \in B
    BY <1>4, OldestBefore
  <2>2. Cardinality(B \ {s}) = Cardinality(B) - 1 /\ Cardinality(B) > 0
    BY <1>1, <2>1, FS_RemoveElement, FS_EmptySet
  <2>3. E # {} /\ D # {}
    BY <2>1 DEF Before
  <2> QED
    BY <1>2, <1>3, <2>2, <2>3 DEF GateOf
<1>5. CASE B = {}
  <2>1. Cardinality(B) = 0
    BY <1>5, FS_EmptySet
  <2>2. E = {}
    BY <1>5 DEF Before
  <2>3. GateOf(A \ {s}, E, f) = [shut |-> FALSE, older |-> 0]
    BY <2>2, NoneDenied
  <2> QED
    BY <1>2, <2>1, <2>3 DEF GateOf
<1> QED
  BY <1>4, <1>5

(* The oldest tune fails: only failures newer than an owned tune reach     *)
(* further than before.                                                    *)
LEMMA OldestIsDenied ==
  ASSUME NEW A \in SUBSET Slots, NEW D \in SUBSET Slots, NEW f \in Identities,
         NEW s \in A, \A r \in A : f[s] <= f[r]
  PROVE  /\ GateOf(A \ {s}, D \cup {s}, f) =
              [shut |-> TRUE, older |-> IF Cardinality(Before(A, D, f)) > 0
                                        THEN Cardinality(Before(A, D, f)) - 1 ELSE 0]
         /\ Cardinality(A) > 0
         /\ Cardinality(A \ {s}) = Cardinality(A) - 1
<1> DEFINE B == Before(A, D, f)
<1>1. /\ IsFiniteSet(A) /\ Cardinality(A) \in Nat
      /\ IsFiniteSet(B) /\ Cardinality(B) \in Nat
  BY SummaryFinite
<1>2. Cardinality(A) > 0 /\ Cardinality(A \ {s}) = Cardinality(A) - 1
  BY <1>1, FS_RemoveElement, FS_EmptySet
<1>3. Before(A \ {s}, D \cup {s}, f) = B \ {s}
  BY DEF Before, Identities
<1>4. CASE B # {}
  <2>1. s \in B
    BY <1>4, OldestBefore
  <2>2. Cardinality(B \ {s}) = Cardinality(B) - 1 /\ Cardinality(B) > 0
    BY <1>1, <2>1, FS_RemoveElement, FS_EmptySet
  <2> QED
    BY <1>2, <1>3, <2>2 DEF GateOf
<1>5. CASE B = {}
  <2>1. Cardinality(B) = 0 /\ Cardinality(B \ {s}) = 0
    <3>1. B = {} /\ B \ {s} = {}
      BY <1>5
    <3> QED
      BY <3>1, FS_EmptySet
  <2>2. D \cup {s} # {}
    OBVIOUS
  <2>3. GateOf(A \ {s}, D \cup {s}, f) = [shut |-> TRUE, older |-> 0]
    BY <1>3, <2>1, <2>2 DEF GateOf
  <2> QED
    BY <1>2, <2>1, <2>3
<1> QED
  BY <1>4, <1>5

-----------------------------------------------------------------------------
(* An owner that is ready has returned *)

(* The identity of an owner in a call is nobody else's, and is not zero. *)
LEMMA CallsApart ==
  ASSUME IInv, NEW o \in Owners, owner[o].pc = "backend"
  PROVE  /\ owner[o].id \in Nat /\ owner[o].id > 0
         /\ \A p \in Owners : p # o /\ owner[p].pc = "backend" => owner[p].id # owner[o].id
BY DEF IInv, TypeOK, IdsDrawn, FreshIds

(* As an owner returns, its own request is no longer in a call. *)
LEMMA InCallReturns ==
  ASSUME IInv, NEW o \in Owners, owner[o].pc = "backend",
         owner' = [owner EXCEPT ![o].pc = "idle"],
         NEW s \in Slots, table'[s].request_id = table[s].request_id
  PROVE  InCall(s)' <=> InCall(s) /\ table[s].request_id # owner[o].id
<1>1. \A p \in Owners : /\ owner'[p].id = owner[p].id
                        /\ owner'[p].pc = IF p = o THEN "idle" ELSE owner[p].pc
  BY DEF IInv, TypeOK
<1> QED
  BY <1>1, CallsApart DEF InCall

(* How the record of a returning owner is left: *)
Left(o, s, record) ==
  /\ record \in Record
  /\ record.request_id = table[s].request_id
  /\ table' = [table EXCEPT ![s] = record]
  /\ \/ /\ record.state = "PENDING" /\ table[s].state = "PENDING"
        /\ UNCHANGED <<settling, generation>>
     \/ /\ record.state = "FAILED_GATED"
        /\ UNCHANGED <<settling, generation>>
     \/ /\ record.state = "FINISHED"
        /\ UNCHANGED <<settling, generation>>
     \/ /\ record.state = "PENDING" /\ table[s].state = "PENDING"
        /\ settling' = s /\ generation' = generation + 1

(* awaited, gated, finished or landing, unless it had left the table. *)
Returns(o) ==
  /\ owner[o].pc = "backend" /\ Unlocked
  /\ owner' = [owner EXCEPT ![o].pc = "idle"]
  /\ \/ \E s \in Find(table, owner[o].id) : \E record : Left(o, s, record)
     \/ /\ \A s \in Find(table, owner[o].id) : table[s].state = "FINISHED"
        /\ UNCHANGED <<table, settling, generation>>

(* An owner that says it is ready returns. *)
LEMMA MarkReadyReturns ==
  ASSUME IInv, NEW o \in Owners, MarkReady(o)
  PROVE  Returns(o)
<1>1. ASSUME NEW s \in Find(table, owner[o].id)
      PROVE  s \in Slots /\ table[s] \in Record /\ table[s].state # "FREE"
  BY DEF Find, IInv, TypeOK
<1>2. ASSUME NEW s \in Find(table, owner[o].id), table[s].state = "PENDING",
             LET record == [table[s] EXCEPT !.owner_ready = TRUE] IN
             IF record.backend_complete /\ record.result = "OK"
             THEN AdvanceGeneration(s, record) ELSE KeepGate(s, record)
      PROVE  Returns(o)
  <2> DEFINE record == [table[s] EXCEPT !.owner_ready = TRUE]
  <2>1. record \in Record /\ record.request_id = table[s].request_id /\ record.state = "PENDING"
    BY <1>1, <1>2 DEF Record
  <2>2. AdvanceGeneration(s, record) \/ KeepGate(s, record)
    BY <1>2
  <2> HIDE DEF record
  <2>3. Left(o, s, record)
    BY <1>2, <2>1, <2>2 DEF Left, AdvanceGeneration, KeepGate
  <2> QED
    BY <2>3 DEF MarkReady, Returns
<1>3. ASSUME \A s \in Find(table, owner[o].id) : table[s].state # "PENDING",
             UNCHANGED <<table, generation, unresolved_count, settling, established>>
      PROVE  Returns(o)
  <2>1. CASE \A s \in Find(table, owner[o].id) : table[s].state = "FINISHED"
    BY <1>3, <2>1 DEF MarkReady, Returns
  <2>2. ASSUME NEW s \in Find(table, owner[o].id), table[s].state # "FINISHED"
        PROVE  Returns(o)
    <3>1. table[s].state = "FAILED_GATED"
      BY <1>1, <1>3, <2>2 DEF Record, States
    <3>2. table' = [table EXCEPT ![s] = table[s]]
      BY <1>1, <1>3 DEF IInv, TypeOK
    <3>3. Left(o, s, table[s])
      BY <1>1, <1>3, <3>1, <3>2 DEF Left
    <3> QED
      BY <3>3 DEF MarkReady, Returns
  <2> QED
    BY <2>1, <2>2
<1> QED
  BY <1>2, <1>3 DEF MarkReady

(* So does one that reports the outcome, in each state of its record. *)
LEMMA CompleteReturns ==
  ASSUME IInv, NEW o \in Owners, NEW result \in {"OK", "FAILED"}, Complete(o, result)
  PROVE  Returns(o)
<1>1. ASSUME NEW s \in Find(table, owner[o].id), NEW record \in Record,
             record.request_id = table[s].request_id,
             \/ AdvanceGeneration(s, record) /\ record.state = "PENDING" /\ table[s].state = "PENDING"
             \/ KeepGate(s, record) /\ record.state = "FAILED_GATED"
             \/ RollBack(s, record)
      PROVE  Returns(o)
  <2>1. CASE RollBack(s, record)
    <3> DEFINE rolled == [record EXCEPT !.state =
                 IF record.inherited_failure_gate THEN "FAILED_GATED" ELSE "FINISHED"]
    <3>1. /\ rolled \in Record /\ rolled.request_id = table[s].request_id
          /\ rolled.state \in {"FAILED_GATED", "FINISHED"}
      BY <1>1 DEF Record, States
    <3>2. table' = [table EXCEPT ![s] = rolled] /\ UNCHANGED <<settling, generation>>
      BY <2>1 DEF RollBack
    <3> HIDE DEF rolled
    <3>3. Left(o, s, rolled)
      BY <3>1, <3>2 DEF Left
    <3> QED
      BY <3>3 DEF Complete, Returns
  <2>2. CASE ~ RollBack(s, record)
    <3>1. Left(o, s, record)
      BY <1>1, <2>2 DEF Left, AdvanceGeneration, KeepGate
    <3> QED
      BY <3>1 DEF Complete, Returns
  <2> QED
    BY <2>1, <2>2
<1>2. ASSUME NEW s \in Find(table, owner[o].id),
             LET record == [table[s] EXCEPT !.owner_ready = TRUE] IN
             \/ CompleteGated(s, record, result)
             \/ CompleteUnreported(s, record, result)
             \/ CompleteReported(s, record, result)
      PROVE  Returns(o)
  <2> DEFINE record == [table[s] EXCEPT !.owner_ready = TRUE]
             reported == [record EXCEPT !.result = result, !.backend_complete = TRUE]
             gated == [record EXCEPT !.result = result, !.state = "FAILED_GATED"]
  <2>1. table[s] \in Record
    BY DEF Find, IInv, TypeOK
  <2>2. /\ record \in Record /\ reported \in Record /\ gated \in Record
        /\ record.request_id = table[s].request_id /\ record.state = table[s].state
        /\ reported.request_id = table[s].request_id /\ reported.state = table[s].state
        /\ gated.request_id = table[s].request_id /\ gated.state = "FAILED_GATED"
    BY <2>1 DEF Record, Results, States
  <2>3. CASE CompleteGated(s, record, result)
    <3>1. record.state = "FAILED_GATED" /\ (KeepGate(s, record) \/ RollBack(s, record))
      BY <2>3 DEF CompleteGated
    <3> HIDE DEF record
    <3> QED
      BY <1>1, <2>2, <3>1
  <2>4. CASE CompleteUnreported(s, record, result)
    <3>1. /\ record.state = "PENDING"
          /\ AdvanceGeneration(s, reported) \/ RollBack(s, reported)
      BY <2>4 DEF CompleteUnreported
    <3> HIDE DEF record, reported
    <3> QED
      BY <1>1, <2>2, <3>1
  <2>5. CASE CompleteReported(s, record, result)
    <3>1. /\ record.state = "PENDING"
          /\ AdvanceGeneration(s, record) \/ KeepGate(s, gated)
      BY <2>5 DEF CompleteReported
    <3> HIDE DEF record, gated
    <3> QED
      BY <1>1, <2>2, <3>1
  <2> QED
    BY <1>2, <2>3, <2>4, <2>5
<1>3. ASSUME \A s \in Find(table, owner[o].id) : table[s].state = "FINISHED",
             UNCHANGED <<table, generation, unresolved_count, settling, established>>
      PROVE  Returns(o)
  BY <1>3 DEF Complete, Returns
<1> QED
  BY <1>2, <1>3 DEF Complete

(* A pending record whose owner is ready is in nobody's call: initially, *)
LEMMA InitReady == Init => ReadyReturned
BY DEF Init, ReadyReturned, InState, FreeRecord

(* and after every step. *)
LEMMA StepReady == IInv /\ ReadyReturned /\ [Next]_vars => ReadyReturned'
<1> SUFFICES ASSUME IInv, ReadyReturned, [Next]_vars
             PROVE  ReadyReturned'
  OBVIOUS
<1>1. /\ table \in [Slots -> Record]
      /\ owner \in [Owners -> [pc : OwnerPcs, id : Nat]]
  BY DEF IInv, TypeOK
<1>2. ASSUME table' = table, \A s \in Slots : InCall(s)' => InCall(s)
      PROVE  ReadyReturned'
  BY <1>2 DEF ReadyReturned, InState
<1>3. ASSUME NEW S \in SUBSET Slots, table' = Finish(table, S), owner' = owner
      PROVE  ReadyReturned'
  BY <1>1, <1>3 DEF ReadyReturned, InState, Finish, InCall, Record
<1>4. ASSUME NEW o \in Owners, BeginId(o) \/ BeginRefused(o)
      PROVE  ReadyReturned'
  <2>1. table' = table
    BY <1>4 DEF BeginId, BeginRefused, shared
  <2>2. \A s \in Slots : InCall(s)' => InCall(s)
    BY <1>1, <1>4, <2>1 DEF BeginId, BeginRefused, InCall
  <2> QED
    BY <1>2, <2>1, <2>2
<1>5. ASSUME NEW o \in Owners, BeginSlot(o)
      PROVE  ReadyReturned'
  <2>1. PICK s \in ReusableSlot(table) :
          table' = [table EXCEPT ![s] =
            [FreeRecord EXCEPT !.request_id = owner[o].id, !.result = "PENDING",
               !.state = "PENDING",
               !.inherited_failure_gate = (table[s].state = "FAILED_GATED")]]
    BY <1>5 DEF BeginSlot
  <2>2. \A p \in Owners : owner'[p].id = owner[p].id
                          /\ owner'[p].pc = IF p = o THEN "backend" ELSE owner[p].pc
    BY <1>1, <1>5 DEF BeginSlot
  <2>3. \A r \in Slots : table[r].request_id # owner[o].id
    BY <1>5 DEF BeginSlot, IInv, FreshIds
  <2>4. \A r \in Slots : r # s => table'[r] = table[r]
    BY <1>1, <2>1
  <2>5. s \in Slots => table'[s].owner_ready = FALSE
    BY <1>1, <2>1 DEF FreeRecord
  <2> QED
    BY <2>2, <2>3, <2>4, <2>5 DEF ReadyReturned, InState, InCall
<1>6. ASSUME NEW o \in Owners, MarkReady(o) \/ \E result \in {"OK", "FAILED"} : Complete(o, result)
      PROVE  ReadyReturned'
  <2>1. Returns(o)
    BY <1>6, MarkReadyReturns, CompleteReturns
  <2>2. ASSUME \A r \in Slots : table'[r].request_id = table[r].request_id
        PROVE  \A r \in Slots : InCall(r)' <=> InCall(r) /\ table[r].request_id # owner[o].id
    BY <2>1, <2>2, InCallReturns DEF Returns
  <2>3. CASE table' = table
    BY <1>2, <2>2, <2>3
  <2>4. ASSUME NEW s \in Find(table, owner[o].id), NEW record, Left(o, s, record)
        PROVE  ReadyReturned'
    <3>1. /\ s \in Slots /\ table[s].request_id = owner[o].id
          /\ \A r \in Slots : table'[r] = IF r = s THEN record ELSE table[r]
      BY <1>1, <2>4 DEF Find, Left
    <3>2. \A r \in Slots : table'[r].request_id = table[r].request_id
      BY <2>4, <3>1 DEF Left
    <3> QED
      BY <2>2, <3>1, <3>2 DEF ReadyReturned, InState
  <2> QED
    BY <2>1, <2>3, <2>4 DEF Returns
<1>7. ASSUME NEW s \in Slots, PublishOk(s) \/ PublishFailed(s)
      PROVE  ReadyReturned'
  <2>1. PICK record : /\ table' = [table EXCEPT ![s] = record]
                      /\ record.request_id = table[s].request_id
                      /\ record.owner_ready = table[s].owner_ready
                      /\ table[s].state = "PENDING"
                      /\ owner' = owner
    <3> DEFINE reported == [table[s] EXCEPT !.result = "OK", !.backend_complete = TRUE]
               failed == [table[s] EXCEPT !.result = "FAILED", !.backend_complete = TRUE,
                                          !.state = "FAILED_GATED"]
    <3>1. /\ reported.request_id = table[s].request_id
          /\ reported.owner_ready = table[s].owner_ready
          /\ failed.request_id = table[s].request_id
          /\ failed.owner_ready = table[s].owner_ready
      BY <1>1 DEF Record
    <3>2. /\ table[s].state = "PENDING" /\ owner' = owner
          /\ \/ table' = [table EXCEPT ![s] = reported]
             \/ table' = [table EXCEPT ![s] = failed]
      BY <1>7 DEF PublishOk, PublishFailed, KeepGate, AdvanceGeneration
    <3> QED
      BY <3>1, <3>2
  <2>2. \A r \in Slots : /\ table'[r].request_id = table[r].request_id
                         /\ table'[r].owner_ready = table[r].owner_ready
                         /\ table'[r].state = "PENDING" => table[r].state = "PENDING"
    BY <1>1, <2>1
  <2> QED
    BY <2>1, <2>2 DEF ReadyReturned, InState, InCall
<1>8. CASE Settle \/ RetireFailed
  <2>1. PICK S \in SUBSET Slots : table' = Finish(table, S) /\ owner' = owner
    BY <1>8 DEF Settle, RetireFailed, Superseded, InState, IInv, TypeOK
  <2> QED
    BY <1>3, <2>1
<1>9. CASE Reset
  BY <1>9 DEF Reset, ReadyReturned, InState, FreeRecord
<1>10. CASE (\E w \in Observers : ObserverStep(w)) \/ UNCHANGED vars
  <2>1. UNCHANGED <<table, owner>>
    BY <1>10 DEF ObserverStep, Capture, CheckCount, CheckGeneration, RecheckCount,
                 RecheckGeneration, Observe, shared, vars
  <2> QED
    BY <1>2, <2>1 DEF InCall
<1> QED
  BY <1>4, <1>5, <1>6, <1>7, <1>8, <1>9, <1>10 DEF Next, OwnerStep
-----------------------------------------------------------------------------
(* The gate of the table *)

IdsOf == [s \in Slots |-> table[s].request_id]

(* The two sets are slots of distinct requests. *)
LEMMA SummaryTyped ==
  ASSUME IInv
  PROVE  /\ Awaited \in SUBSET Slots /\ Denied \in SUBSET Slots
         /\ IdsOf \in Identities
         /\ \A s, r \in Awaited \cup Denied : IdsOf[s] = IdsOf[r] => s = r
         /\ OwnersGate = GateOf(Awaited, Denied, IdsOf)
<1>1. Awaited \in SUBSET Slots /\ Denied \in SUBSET Slots
  BY DEF Awaited, Denied, InState
<1>2. IdsOf \in Identities
  BY DEF IInv, TypeOK, Record, IdsOf, Identities
<1>3. \A s, r \in Awaited \cup Denied : IdsOf[s] = IdsOf[r] => s = r
  BY <1>1 DEF Awaited, Denied, InState, IInv, IdsDistinct, IdsOf
<1>4. {s \in Awaited : \E r \in Denied : Older(s, r)} = Before(Awaited, Denied, IdsOf)
  BY <1>1 DEF Older, Before, IdsOf
<1> QED
  BY <1>1, <1>2, <1>3, <1>4 DEF OwnersGate, GateOf

(* After a step, by the identities before it, where these are still those  *)
(* of the records that matter.                                             *)
LEMMA SummaryNext ==
  ASSUME \A s \in Awaited' \cup Denied' : table'[s].request_id = table[s].request_id
  PROVE  OwnersGate' = GateOf(Awaited', Denied', IdsOf)
<1>1. Awaited' \in SUBSET Slots /\ Denied' \in SUBSET Slots
  BY DEF Awaited, Denied, InState
<1>2. \A s, r \in Awaited' \cup Denied' : Older(s, r)' <=> IdsOf[s] < IdsOf[r]
  BY <1>1 DEF Older, IdsOf
<1>3. {s \in Awaited' : \E r \in Denied' : Older(s, r)'} = Before(Awaited', Denied', IdsOf)
  BY <1>2 DEF Before
<1> QED
  BY <1>3 DEF OwnersGate, GateOf

SameIds == \A s \in Awaited' \cup Denied' : table'[s].request_id = table[s].request_id

(* What a step does to the two sets decides which step of OwnedTunes it is. *)
(* No step: the sets stay, or a covered failure is forgotten.              *)
LEMMA Stays ==
  ASSUME IInv, SameIds, Awaited' = Awaited,
         \/ Denied' = Denied
         \/ \E s \in Denied : Denied' = Denied \ {s} /\ \E r \in Denied : Older(s, r)
  PROVE  UNCHANGED Owned!vars
<1>1. OwnersGate' = GateOf(Awaited, Denied', IdsOf)
  BY SummaryNext DEF SameIds
<1>2. ASSUME NEW s \in Denied, Denied' = Denied \ {s}, \E r \in Denied : Older(s, r)
      PROVE  OwnersGate' = OwnersGate
  <2>1. \E r \in Denied : IdsOf[s] < IdsOf[r]
    BY <1>2, SummaryTyped DEF Older, IdsOf
  <2> QED
    BY <1>1, <1>2, <2>1, SummaryTyped, CoveredForgotten
<1> QED
  BY <1>1, <1>2, SummaryTyped DEF Owned!vars

(* A call returns and leaves its tune with the controller. *)
LEMMA Keeps ==
  ASSUME IInv, SameIds, Denied' = Denied,
         NEW s \in Slots \ Awaited, Awaited' = Awaited \cup {s}, \A r \in Denied : Older(r, s)
  PROVE  Owned!CallsKept
<1>1. OwnersGate' = GateOf(Awaited \cup {s}, Denied, IdsOf)
  BY SummaryNext DEF SameIds
<1>2. \A r \in Denied : IdsOf[r] < IdsOf[s]
  BY SummaryTyped DEF Older, IdsOf
<1> QED
  BY <1>1, <1>2, SummaryTyped, KeptLast DEF Owned!CallsKept

(* A call returns with a disagreement. *)
LEMMA GatesCall ==
  ASSUME IInv, SameIds, Awaited' = Awaited,
         NEW s \in Slots, Denied' = Denied \cup {s}, \A r \in Awaited : Older(r, s)
  PROVE  Owned!CallGated
<1>1. OwnersGate' = GateOf(Awaited, Denied \cup {s}, IdsOf)
  BY SummaryNext DEF SameIds
<1>2. \A r \in Awaited : IdsOf[r] < IdsOf[s]
  BY SummaryTyped DEF Older, IdsOf
<1>3. OwnersGate' = [shut |-> TRUE, older |-> Cardinality(Awaited)]
  BY <1>1, <1>2, SummaryTyped, GatedLast
<1> QED
  BY <1>3 DEF Owned!CallGated, Owned!ShutBehind

(* The last failure is gone. *)
LEMMA Opens ==
  ASSUME IInv, SameIds, Denied' = {}
  PROVE  /\ Awaited' = Awaited => Owned!CallLands /\ Owned!Retire
         /\ Awaited' = {} => Owned!Restart
<1>1. OwnersGate' = [shut |-> FALSE, older |-> 0]
  BY SummaryNext, NoneDenied DEF SameIds
<1> QED
  BY <1>1, FS_EmptySet DEF Owned!CallLands, Owned!Retire, Owned!Restart, Owned!OpenGate

(* The oldest tune succeeds. *)
LEMMA AnswersOk ==
  ASSUME IInv, SameIds, NEW s \in Awaited, \A r \in Awaited : ~ Older(r, s),
         Awaited' = Awaited \ {s}, Denied' = {r \in Denied : Older(s, r)}
  PROVE  Owned!AnswerLands
<1>1. OwnersGate' = GateOf(Awaited \ {s}, Denied', IdsOf)
  BY SummaryNext DEF SameIds
<1>2. Denied' = {r \in Denied : IdsOf[s] < IdsOf[r]}
  BY SummaryTyped DEF Older, IdsOf
<1>3. \A r \in Awaited : IdsOf[s] <= IdsOf[r]
  BY SummaryTyped DEF Older, IdsOf, Identities
<1>4. \A r \in Denied : IdsOf[r] # IdsOf[s]
  <2>1. \A r \in Denied : r # s
    BY DEF Awaited, Denied, InState
  <2> QED
    BY <2>1, SummaryTyped
<1>5. /\ GateOf(Awaited \ {s}, {r \in Denied : IdsOf[s] < IdsOf[r]}, IdsOf) =
            IF Cardinality(Before(Awaited, Denied, IdsOf)) > 0
            THEN [shut |-> TRUE, older |-> Cardinality(Before(Awaited, Denied, IdsOf)) - 1]
            ELSE [shut |-> FALSE, older |-> 0]
      /\ Cardinality(Awaited) > 0
      /\ Cardinality(Awaited \ {s}) = Cardinality(Awaited) - 1
  BY <1>3, <1>4, SummaryTyped, OldestSucceeds
<1>6. OwnersGate = [shut |-> Denied # {}, older |-> Cardinality(Before(Awaited, Denied, IdsOf))]
  BY SummaryTyped DEF GateOf
<1>7. CASE Cardinality(Before(Awaited, Denied, IdsOf)) > 0
  <2>1. Before(Awaited, Denied, IdsOf) # {}
    <3>1. Cardinality({}) = 0
      BY FS_EmptySet
    <3> QED
      BY <1>7, <3>1
  <2>2. Denied # {}
    BY <2>1 DEF Before
  <2>3. OwnersGate = [shut |-> TRUE, older |-> Cardinality(Before(Awaited, Denied, IdsOf))]
    BY <1>6, <2>2
  <2>4. [OwnersGate EXCEPT !.older = @ - 1] =
          [shut |-> TRUE, older |-> Cardinality(Before(Awaited, Denied, IdsOf)) - 1]
    <3>1. [OwnersGate EXCEPT !.older = @ - 1] =
            [shut |-> OwnersGate.shut, older |-> OwnersGate.older - 1]
      BY SummaryTyped, SummaryFinite DEF GateOf
    <3> QED
      BY <2>3, <3>1
  <2> QED
    BY <1>1, <1>2, <1>5, <1>7, <2>3, <2>4 DEF Owned!AnswerLands, Owned!OldestLands, Owned!OpenGate
<1>8. CASE ~ (Cardinality(Before(Awaited, Denied, IdsOf)) > 0)
  BY <1>1, <1>2, <1>5, <1>6, <1>8 DEF Owned!AnswerLands, Owned!OldestLands, Owned!OpenGate
<1> QED
  BY <1>7, <1>8

(* The oldest tune fails. *)
LEMMA AnswersFailed ==
  ASSUME IInv, SameIds, NEW s \in Awaited, \A r \in Awaited : ~ Older(r, s),
         Awaited' = Awaited \ {s}, Denied' = Denied \cup {s}
  PROVE  Owned!AnswerFails
<1>1. OwnersGate' = GateOf(Awaited \ {s}, Denied \cup {s}, IdsOf)
  BY SummaryNext DEF SameIds
<1>2. \A r \in Awaited : IdsOf[s] <= IdsOf[r]
  BY SummaryTyped DEF Older, IdsOf, Identities
<1>3. /\ GateOf(Awaited \ {s}, Denied \cup {s}, IdsOf) =
            [shut |-> TRUE,
             older |-> IF Cardinality(Before(Awaited, Denied, IdsOf)) > 0
                       THEN Cardinality(Before(Awaited, Denied, IdsOf)) - 1 ELSE 0]
      /\ Cardinality(Awaited) > 0
      /\ Cardinality(Awaited \ {s}) = Cardinality(Awaited) - 1
  BY <1>2, SummaryTyped, OldestIsDenied
<1>4. OwnersGate.older = Cardinality(Before(Awaited, Denied, IdsOf))
  BY SummaryTyped DEF GateOf
<1> QED
  BY <1>1, <1>3, <1>4 DEF Owned!AnswerFails, Owned!OldestFails, Owned!ShutBehind

-----------------------------------------------------------------------------
(* The steps of the table *)

GateStep == (Owned!Next \/ UNCHANGED Owned!vars) /\ OpensForAReason

(* A step that changes neither set is no step of OwnedTunes. *)
LEMMA QuietStep ==
  ASSUME IInv, SameIds, Awaited' = Awaited, Denied' = Denied, generation' = generation
  PROVE  GateStep /\ UNCHANGED Owned!vars
<1>1. UNCHANGED Owned!vars
  BY Stays
<1> QED
  BY <1>1 DEF GateStep, OpensForAReason

(* Steps that leave the table alone. *)
LEMMA TableStays ==
  ASSUME IInv, UNCHANGED <<table, settling, generation>>,
         \A s \in Slots : InCall(s)' <=> InCall(s)
  PROVE  GateStep
<1>1. Awaited' = Awaited
  BY DEF Awaited, InState
<1>2. Denied' = Denied
  BY DEF Denied, InState, Older
<1> QED
  BY <1>1, <1>2, QuietStep DEF SameIds

(* The request of an owner in a call, and the records of the others. *)
LEMMA ReturningRecord ==
  ASSUME IInv, InOrder, NEW o \in Owners, Returns(o),
         NEW s \in Find(table, owner[o].id), NEW record, Left(o, s, record)
  PROVE  /\ s \in Slots /\ s \notin Awaited \cup Denied
         /\ settling = 0
         /\ \A r \in Slots : table'[r] = IF r = s THEN record ELSE table[r]
         /\ SameIds
         /\ \A r \in Awaited \cup Denied : Older(r, s)
         /\ ~ InCall(s)'
         /\ \A r \in Slots : r # s /\ table[r].state # "FREE" => (InCall(r)' <=> InCall(r))
<1>1. s \in Slots /\ table[s].request_id = owner[o].id /\ table[s].state # "FREE"
  BY DEF Find
<1>2. \A r \in Slots : table'[r] = IF r = s THEN record ELSE table[r]
  BY DEF Left, IInv, TypeOK
<1>3. \A r \in Slots : table'[r].request_id = table[r].request_id
  BY <1>1, <1>2 DEF Left
<1>4. SameIds
  BY <1>3 DEF SameIds, Awaited, Denied, InState
<1>5. InCall(s)
  BY <1>1 DEF InCall, Returns
<1>6. \A r \in Awaited \cup Denied : Older(r, s)
  <2>1. owner'[o].pc = "idle" /\ owner[o].pc = "backend"
    BY DEF Returns, IInv, TypeOK
  <2> QED
    BY <1>1, <2>1 DEF InOrder, ReturnsNewest, Older
<1>7. \A r \in Slots : InCall(r)' <=> InCall(r) /\ table[r].request_id # owner[o].id
  BY <1>3, InCallReturns DEF Returns
<1>8. \A r \in Slots : r # s /\ table[r].state # "FREE" => table[r].request_id # owner[o].id
  BY <1>1 DEF IInv, IdsDistinct
<1> QED
  BY <1>1, <1>2, <1>4, <1>5, <1>6, <1>7, <1>8 DEF Awaited, Denied, Returns, Unlocked

(* A call returns. *)
LEMMA ReturnStep ==
  ASSUME IInv, InOrder, NEW o \in Owners, Returns(o)
  PROVE  GateStep
<1>1. ASSUME NEW s \in Find(table, owner[o].id), NEW record, Left(o, s, record)
      PROVE  GateStep
  <2>1. /\ s \in Slots /\ s \notin Awaited \cup Denied
        /\ settling = 0
        /\ \A r \in Slots : table'[r] = IF r = s THEN record ELSE table[r]
        /\ SameIds
        /\ \A r \in Awaited \cup Denied : Older(r, s)
        /\ ~ InCall(s)'
        /\ \A r \in Slots : r # s /\ table[r].state # "FREE" => (InCall(r)' <=> InCall(r))
    BY <1>1, ReturningRecord
  <2>2. CASE record.state = "PENDING" /\ UNCHANGED <<settling, generation>>
    <3>1. Awaited' = Awaited \cup {s}
      BY <2>1, <2>2 DEF Awaited, InState, Slots
    <3>2. Denied' = Denied
      BY <2>1, <2>2 DEF Denied, InState
    <3>3. Owned!CallsKept
      BY <2>1, <3>1, <3>2, Keeps
    <3> QED
      BY <2>1, <2>2, <3>2, <3>3 DEF GateStep, OpensForAReason, Owned!Next
  <2>3. CASE record.state = "FAILED_GATED" /\ UNCHANGED <<settling, generation>>
    <3>1. Awaited' = Awaited
      BY <2>1, <2>3 DEF Awaited, InState
    <3>2. Denied' = Denied \cup {s}
      BY <2>1, <2>3 DEF Denied, InState
    <3>3. Owned!CallGated
      BY <2>1, <3>1, <3>2, GatesCall
    <3> QED
      BY <2>1, <2>3, <3>2, <3>3 DEF GateStep, OpensForAReason, Owned!Next
  <2>4. CASE record.state = "FINISHED" /\ UNCHANGED <<settling, generation>>
    <3>1. Awaited' = Awaited
      BY <2>1, <2>4 DEF Awaited, InState
    <3>2. Denied' = Denied
      BY <2>1, <2>4 DEF Denied, InState
    <3> QED
      BY <2>1, <2>4, <3>1, <3>2, QuietStep
  <2>5. CASE record.state = "PENDING" /\ settling' = s /\ generation' = generation + 1
    <3>1. Awaited' = Awaited
      BY <2>1, <2>5 DEF Awaited, InState, Slots
    <3>2. \A r \in Slots : r # s => (Older(r, s)' <=> Older(r, s))
      BY <1>1, <2>1 DEF Older, Left
    <3>3. Denied' = {}
      BY <2>1, <2>5, <3>2 DEF Denied, InState, Slots
    <3>4. Owned!CallLands /\ generation' # generation
      BY <2>1, <2>5, <3>1, <3>3, Opens DEF IInv, TypeOK
    <3> QED
      BY <2>1, <3>4 DEF GateStep, OpensForAReason, Owned!Next, Owned!Landing
  <2> QED
    BY <1>1, <2>2, <2>3, <2>4, <2>5 DEF Left
<1>2. ASSUME \A s \in Find(table, owner[o].id) : table[s].state = "FINISHED",
             UNCHANGED <<table, settling, generation>>
      PROVE  GateStep
  <2>1. \A r \in Slots : InCall(r)' <=> InCall(r) /\ table[r].request_id # owner[o].id
    BY <1>2, InCallReturns DEF Returns
  <2>2. \A r \in Slots : table[r].state \in {"PENDING", "FAILED_GATED"}
          => table[r].request_id # owner[o].id
    BY <1>2 DEF Find
  <2>3. Awaited' = Awaited
    BY <1>2, <2>1, <2>2 DEF Awaited, InState
  <2>4. Denied' = Denied
    BY <1>2, <2>1, <2>2 DEF Denied, InState, Older
  <2> QED
    BY <1>2, <2>3, <2>4, QuietStep DEF SameIds
<1> QED
  BY <1>1, <1>2 DEF Returns
(* The backend answers: the oldest tune that is owned, or one in a call. *)
LEMMA PublishOkStep ==
  ASSUME IInv, ReadyReturned, InOrder, NEW s \in Slots, PublishOk(s)
  PROVE  GateStep
<1> DEFINE record == [table[s] EXCEPT !.result = "OK", !.backend_complete = TRUE]
<1>1. /\ settling = 0 /\ table[s].state = "PENDING"
      /\ table' = [table EXCEPT ![s] = record]
      /\ owner' = owner
      /\ IF record.owner_ready THEN AdvanceGeneration(s, record) ELSE KeepGate(s, record)
  BY DEF PublishOk, Unlocked, AdvanceGeneration, KeepGate
<1>2. /\ record.request_id = table[s].request_id /\ record.state = "PENDING"
      /\ record.owner_ready = table[s].owner_ready
  BY <1>1 DEF IInv, TypeOK, Record
<1> HIDE DEF record
<1>3. \A r \in Slots : table'[r] = IF r = s THEN record ELSE table[r]
  BY <1>1 DEF IInv, TypeOK
<1>4. \A r \in Slots : /\ table'[r].request_id = table[r].request_id
                       /\ table'[r].state = table[r].state
                       /\ InCall(r)' <=> InCall(r)
  BY <1>1, <1>2, <1>3 DEF InCall
<1>5. \A r, q \in Slots : Older(r, q)' <=> Older(r, q)
  BY <1>4 DEF Older
<1>6. SameIds
  BY <1>4 DEF SameIds, Awaited, Denied, InState
<1>7. CASE ~ record.owner_ready
  <2>1. UNCHANGED <<settling, generation>>
    BY <1>1, <1>7 DEF KeepGate
  <2>2. Awaited' = Awaited /\ Denied' = Denied
    BY <1>1, <1>4, <2>1 DEF Awaited, Denied, InState
  <2> QED
    BY <1>6, <2>1, <2>2, QuietStep
<1>8. CASE record.owner_ready
  <2>1. settling' = s /\ generation' = generation + 1
    BY <1>1, <1>8 DEF AdvanceGeneration
  <2>2. s \in Awaited
    <3>1. ~ InCall(s)
      BY <1>1, <1>2, <1>8 DEF ReadyReturned, InState
    <3> QED
      BY <1>1, <3>1 DEF Awaited, InState, Slots
  <2>3. Awaited' = Awaited \ {s}
    BY <1>1, <1>4, <2>1 DEF Awaited, InState, Slots
  <2>4. \A r \in Awaited : ~ Older(r, s)
    BY <2>2, <2>3, SummaryTyped DEF InOrder, AnsweredInOrder, Older, Identities, IdsOf
  <2>5. \A r \in Denied : Older(s, r) <=> ~ Older(r, s)
    <3>1. \A r \in Denied : r # s
      BY <1>1 DEF Denied, InState
    <3> QED
      BY <2>2, <3>1, SummaryTyped DEF Older, IdsOf, Identities
  <2>6. Denied' = {r \in Denied : Older(s, r)}
    BY <1>1, <1>4, <1>5, <2>1, <2>5 DEF Denied, InState, Slots
  <2>7. Owned!AnswerLands
    BY <1>6, <2>2, <2>3, <2>4, <2>6, AnswersOk
  <2> QED
    BY <1>1, <2>1, <2>7 DEF GateStep, OpensForAReason, Owned!Next, Owned!Landing, IInv, TypeOK
<1> QED
  BY <1>7, <1>8

(* The backend's failure gates a tune that is owned; one in a call is its owner's to report. *)
LEMMA PublishFailedStep ==
  ASSUME IInv, InOrder, NEW s \in Slots, PublishFailed(s)
  PROVE  GateStep
<1> DEFINE record == [table[s] EXCEPT !.result = "FAILED", !.backend_complete = TRUE,
                                      !.state = "FAILED_GATED"]
<1>1. /\ settling = 0 /\ table[s].state = "PENDING"
      /\ table' = [table EXCEPT ![s] = record]
      /\ UNCHANGED <<owner, settling, generation>>
  BY DEF PublishFailed, Unlocked, KeepGate
<1>2. record.request_id = table[s].request_id /\ record.state = "FAILED_GATED"
  BY <1>1 DEF IInv, TypeOK, Record
<1> HIDE DEF record
<1>3. \A r \in Slots : table'[r] = IF r = s THEN record ELSE table[r]
  BY <1>1 DEF IInv, TypeOK
<1>4. \A r \in Slots : /\ table'[r].request_id = table[r].request_id
                       /\ r # s => table'[r].state = table[r].state
                       /\ InCall(r)' <=> InCall(r)
  BY <1>1, <1>2, <1>3 DEF InCall
<1>5. SameIds
  BY <1>4 DEF SameIds, Awaited, Denied, InState
<1>6. CASE InCall(s)
  <2>1. Awaited' = Awaited
    BY <1>1, <1>2, <1>3, <1>4, <1>6 DEF Awaited, InState
  <2>2. Denied' = Denied
    BY <1>1, <1>2, <1>3, <1>4, <1>6 DEF Denied, InState
  <2> QED
    BY <1>1, <1>5, <2>1, <2>2, QuietStep
<1>7. CASE ~ InCall(s)
  <2>1. s \in Awaited
    BY <1>1, <1>7 DEF Awaited, InState, Slots
  <2>2. Awaited' = Awaited \ {s}
    BY <1>1, <1>2, <1>3, <1>4 DEF Awaited, InState
  <2>3. Denied' = Denied \cup {s}
    BY <1>1, <1>2, <1>3, <1>4, <1>7 DEF Denied, InState
  <2>4. \A r \in Awaited : ~ Older(r, s)
    BY <2>1, <2>2, SummaryTyped DEF InOrder, AnsweredInOrder, Older, Identities, IdsOf
  <2>5. Owned!AnswerFails
    BY <1>5, <2>1, <2>2, <2>3, <2>4, AnswersFailed
  <2> QED
    BY <1>1, <2>3, <2>5 DEF GateStep, OpensForAReason, Owned!Next
<1> QED
  BY <1>6, <1>7

(* The second half of a success retires what the first half has announced. *)
LEMMA SettleStep ==
  ASSUME IInv, Settle
  PROVE  GateStep
<1>1. /\ settling \in Slots
      /\ table' = Finish(table, Superseded(table, settling) \cup {settling})
      /\ settling' = 0
      /\ UNCHANGED <<owner, generation>>
  BY DEF Settle, IInv, TypeOK
<1>2. \A r \in Slots :
        /\ table'[r].request_id = table[r].request_id
        /\ table'[r].state = IF r = settling \/ (table[r].state = "FAILED_GATED" /\ Older(r, settling))
                             THEN "FINISHED" ELSE table[r].state
        /\ InCall(r)' <=> InCall(r)
  BY <1>1 DEF Finish, Superseded, InState, IInv, TypeOK, Record, InCall, Older
<1>3. table[settling].state = "PENDING"
  BY <1>1 DEF IInv, SettlingPending, Slots
<1>4. Awaited' = Awaited
  BY <1>1, <1>2 DEF Awaited, InState, Slots
<1>5. Denied' = Denied
  BY <1>1, <1>2, <1>3 DEF Denied, InState, Slots
<1> QED
  BY <1>1, <1>2, <1>4, <1>5, QuietStep DEF SameIds, Awaited, Denied, InState

(* Retirement opens the gate and takes the failures off the count. *)
LEMMA RetireFailedStep ==
  ASSUME IInv, RetireFailed
  PROVE  GateStep
<1> DEFINE failed == InState(table, "FAILED_GATED")
<1>1. /\ settling = 0 /\ failed # {}
      /\ table' = Finish(table, failed)
      /\ unresolved_count' = unresolved_count - Cardinality(failed)
      /\ UNCHANGED <<owner, generation, settling>>
  BY DEF RetireFailed, Unlocked
<1>2. \A r \in Slots :
        /\ table'[r].request_id = table[r].request_id
        /\ table'[r].state = IF table[r].state = "FAILED_GATED" THEN "FINISHED" ELSE table[r].state
        /\ InCall(r)' <=> InCall(r)
  BY <1>1 DEF Finish, InState, IInv, TypeOK, Record, InCall
<1>3. Awaited' = Awaited
  BY <1>1, <1>2 DEF Awaited, InState
<1>4. Denied' = {}
  BY <1>2 DEF Denied, InState
<1>5. SameIds
  BY <1>2 DEF SameIds, Awaited, Denied, InState
<1>6. Cardinality(failed) > 0 /\ Cardinality(failed) \in Nat
  <2>1. failed \in SUBSET Slots
    BY DEF InState
  <2> QED
    BY <1>1, <2>1, SlotsFinite, FS_EmptySet
<1>7. unresolved_count' < unresolved_count
  BY <1>1, <1>6 DEF IInv, TypeOK
<1>8. Owned!Retire
  BY <1>3, <1>4, <1>5, Opens
<1> QED
  BY <1>1, <1>7, <1>8 DEF GateStep, OpensForAReason, Owned!Next

(* The reset empties the table. *)
LEMMA ResetStep ==
  ASSUME IInv, Reset
  PROVE  GateStep
<1>1. /\ settling = 0 /\ UNCHANGED <<generation, settling>>
      /\ unresolved_count' = 0
      /\ \A r \in Slots : table'[r] = FreeRecord
  BY DEF Reset, Unlocked
<1>2. Awaited' = {} /\ Denied' = {}
  BY <1>1 DEF Awaited, Denied, InState, FreeRecord
<1>3. Owned!Restart
  BY <1>2, Opens DEF SameIds
<1>4. Denied # {} => unresolved_count' < unresolved_count
  <2>1. Denied \subseteq Unresolved(table) /\ Unresolved(table) \in SUBSET Slots
    BY DEF Denied, Unresolved, InState
  <2>2. Denied # {} => Cardinality(Unresolved(table)) > 0
    BY <2>1, SlotsFinite, FS_EmptySet
  <2> QED
    BY <1>1, <2>2 DEF IInv, UnresolvedCountExact
<1> QED
  BY <1>1, <1>3, <1>4 DEF GateStep, OpensForAReason, Owned!Next

(* A request enters the table in a call; a failure it displaces is covered. *)
LEMMA BeginSlotStep ==
  ASSUME IInv, InOrder, NEW o \in Owners, BeginSlot(o)
  PROVE  GateStep
<1>1. PICK s \in ReusableSlot(table) :
        table' = [table EXCEPT ![s] =
          [FreeRecord EXCEPT !.request_id = owner[o].id, !.result = "PENDING",
             !.state = "PENDING",
             !.inherited_failure_gate = (table[s].state = "FAILED_GATED")]]
  BY DEF BeginSlot
<1>2. s \in Slots /\ table[s].state # "PENDING"
  BY ReusableSlotStates
<1>3. /\ settling = 0 /\ UNCHANGED <<settling, generation>>
      /\ \A p \in Owners : owner'[p] = IF p = o THEN [owner[o] EXCEPT !.pc = "backend"] ELSE owner[p]
      /\ owner[o].pc = "allocating"
  BY DEF BeginSlot, Unlocked, IInv, TypeOK
<1>4. /\ \A r \in Slots : r # s => table'[r] = table[r]
      /\ table'[s].state = "PENDING" /\ table'[s].request_id = owner[o].id
  BY <1>1, <1>2 DEF FreeRecord, IInv, TypeOK
<1>5. \A p \in Owners : /\ owner'[p].id = owner[p].id
                        /\ owner'[p].pc = IF p = o THEN "backend" ELSE owner[p].pc
  BY <1>3 DEF IInv, TypeOK
<1>6. \A r \in Slots : table[r].request_id # owner[o].id
  BY <1>3 DEF IInv, FreshIds
<1>7. InCall(s)' /\ \A r \in Slots : r # s => (InCall(r)' <=> InCall(r))
  BY <1>3, <1>4, <1>5, <1>6 DEF InCall
<1>8. Awaited' = Awaited
  BY <1>2, <1>3, <1>4, <1>7 DEF Awaited, InState
<1>9. Denied' = Denied \ {s}
  BY <1>2, <1>3, <1>4, <1>7 DEF Denied, InState
<1>10. SameIds
  BY <1>2, <1>4, <1>7 DEF SameIds, Awaited, Denied, InState
<1>11. s \in Denied => \E r \in Denied : Older(s, r)
  BY <1>4 DEF InOrder, NewestStays
<1>12. UNCHANGED Owned!vars
  <2>1. CASE s \in Denied
    BY <1>8, <1>9, <1>10, <1>11, <2>1, Stays
  <2>2. CASE s \notin Denied
    BY <1>8, <1>9, <1>10, <2>2, Stays
  <2> QED
    BY <2>1, <2>2
<1>13. Denied # {} => Denied' # {}
  <2>1. \A r \in Denied : Older(s, r) => r # s
    BY SummaryTyped DEF Older, IdsOf, Identities
  <2> QED
    BY <1>9, <1>11, <2>1
<1> QED
  BY <1>3, <1>12, <1>13 DEF GateStep, OpensForAReason
-----------------------------------------------------------------------------
(* A tune that is answered in order moves the gate as OwnedTunes says. *)
LEMMA NextStep ==
  ASSUME IInv, ReadyReturned, InOrder, [Next]_vars
  PROVE  GateStep
<1>1. ASSUME NEW o \in Owners, BeginId(o) \/ BeginRefused(o)
      PROVE  GateStep
  <2>1. UNCHANGED <<table, settling, generation>>
    BY <1>1 DEF BeginId, BeginRefused, shared
  <2>2. \A s \in Slots : InCall(s)' <=> InCall(s)
    BY <1>1, <2>1 DEF BeginId, BeginRefused, InCall, IInv, TypeOK
  <2> QED
    BY <2>1, <2>2, TableStays
<1>2. ASSUME NEW o \in Owners, MarkReady(o) \/ \E result \in {"OK", "FAILED"} : Complete(o, result)
      PROVE  GateStep
  <2>1. Returns(o)
    BY <1>2, MarkReadyReturns, CompleteReturns
  <2> QED
    BY <2>1, ReturnStep
<1>3. CASE (\E w \in Observers : ObserverStep(w)) \/ UNCHANGED vars
  <2>1. UNCHANGED <<table, settling, generation, owner>>
    BY <1>3 DEF ObserverStep, Capture, CheckCount, CheckGeneration, RecheckCount,
                RecheckGeneration, Observe, shared, vars
  <2>2. \A s \in Slots : InCall(s)' <=> InCall(s)
    BY <2>1 DEF InCall
  <2> QED
    BY <2>1, <2>2, TableStays
<1> QED
  BY <1>1, <1>2, <1>3, BeginSlotStep, PublishOkStep, PublishFailedStep, SettleStep,
     RetireFailedStep, ResetStep DEF Next, OwnerStep

(* An owner that is ready has returned from its call, so a backend's answer *)
(* that settles a request is never about one whose call is still running.  *)
THEOREM ReadyHasReturned == Spec => []ReadyReturned
<1>1. IInv /\ ReadyReturned /\ [Next]_vars => ReadyReturned'
  BY StepReady
<1> QED
  BY <1>1, InitReady, Invariance, PTL DEF Spec

(* In every table, with any number of owners: while tunes are answered in  *)
(* order, a failure keeps the gate shut until a newer tune succeeds, the    *)
(* failures are retired or the table is reset, however many older tunes     *)
(* succeed before.                                                         *)
THEOREM TableKeepsOwnedTunes == Spec => GateOfOwnedTunes
<1>1. IInv /\ ReadyReturned /\ [Next]_vars =>
        [InOrder => (Owned!Next \/ UNCHANGED Owned!vars) /\ OpensForAReason]_vars
  BY NextStep DEF GateStep
<1> QED
  BY <1>1, Invariance, ReadyHasReturned, PTL DEF Spec, GateOfOwnedTunes

-----------------------------------------------------------------------------
(* An owner that has the tuner to itself *)

(* Fewer tunes are owned than the table has slots, with two to spare: one  *)
(* for the newest failure, one for the request that is begun.              *)
Room == Cardinality(Awaited) + 2 <= History

(* The identity that the sole owner has drawn is the newest. *)
DrawsNewest(o) == owner[o].pc # "idle" => owner[o].id = next_request
(* A sole owner has the newest identity: initially, *)
LEMMA InitNewest ==
  ASSUME NEW o \in Owners, Init
  PROVE  DrawsNewest(o)
BY DEF Init, DrawsNewest

(* and after every step. *)
LEMMA StepNewest ==
  ASSUME NEW o, Owners = {o}, IInv, DrawsNewest(o), [Next]_vars
  PROVE  DrawsNewest(o)'
<1>1. owner \in [{o} -> [pc : OwnerPcs, id : Nat]]
  BY DEF IInv, TypeOK
<1>2. CASE BeginId(o)
  BY <1>1, <1>2 DEF BeginId, DrawsNewest
<1>3. CASE BeginSlot(o)
  BY <1>1, <1>3 DEF BeginSlot, DrawsNewest
<1>4. CASE BeginRefused(o) \/ MarkReady(o) \/ \E result \in {"OK", "FAILED"} : Complete(o, result)
  BY <1>1, <1>4 DEF BeginRefused, MarkReady, Complete, DrawsNewest
<1>5. CASE UNCHANGED <<owner, next_request>>
  BY <1>5 DEF DrawsNewest
<1>6. UNCHANGED <<owner, next_request>> \/ OwnerStep(o)
  BY DEF Next, vars, shared, PublishOk, PublishFailed, Settle, RetireFailed, Reset, ObserverStep,
         Capture, CheckCount, CheckGeneration, RecheckCount, RecheckGeneration, Observe
<1> QED
  BY <1>2, <1>3, <1>4, <1>5, <1>6 DEF OwnerStep

(* Only a new request takes the slot of a failure. *)
LEMMA GatedLeaves ==
  ASSUME IInv, [Next]_vars, NEW s \in Slots,
         table[s].state = "FAILED_GATED", table'[s].state = "PENDING"
  PROVE  \E o \in Owners : BeginSlot(o) /\ s \in ReusableSlot(table)
<1>1. table \in [Slots -> Record]
  BY DEF IInv, TypeOK
<1>2. table' # table
  OBVIOUS
<1>3. ASSUME NEW o \in Owners, Returns(o) PROVE FALSE
  BY <1>1, <1>3 DEF Returns, Left, Find
<1>4. ASSUME NEW o \in Owners, BeginSlot(o) PROVE s \in ReusableSlot(table)
  BY <1>1, <1>4 DEF BeginSlot
<1>5. ASSUME NEW r \in Slots, PublishOk(r) \/ PublishFailed(r) PROVE FALSE
  <2>1. table[r].state = "PENDING" /\ \A q \in Slots : q # r => table'[q] = table[q]
    BY <1>1, <1>5 DEF PublishOk, PublishFailed, KeepGate, AdvanceGeneration
  <2> QED
    BY <2>1
<1>6. ASSUME NEW S, table' = Finish(table, S) PROVE FALSE
  BY <1>1, <1>6 DEF Finish, Record
<1>7. ~ (Settle \/ RetireFailed)
  BY <1>6 DEF Settle, RetireFailed
<1>8. ~ Reset
  BY DEF Reset, FreeRecord
<1>9. ~ \E w \in Observers : ObserverStep(w)
  BY <1>2 DEF ObserverStep, Capture, CheckCount, CheckGeneration, RecheckCount, RecheckGeneration,
              Observe, shared
<1>10. ASSUME NEW o \in Owners, BeginId(o) \/ BeginRefused(o) PROVE FALSE
  BY <1>2, <1>10 DEF BeginId, BeginRefused, shared
<1> QED
  BY <1>2, <1>3, <1>4, <1>5, <1>7, <1>8, <1>9, <1>10, MarkReadyReturns, CompleteReturns
     DEF Next, OwnerStep, vars

(* With room, the failure that loses its slot is not the newest. *)
LEMMA RoomForNewest ==
  ASSUME NEW o, Owners = {o}, IInv, Room, BeginSlot(o),
         NEW s \in ReusableSlot(table), table[s].state = "FAILED_GATED"
  PROVE  \E r \in Denied : Older(s, r)
<1>1. table \in [Slots -> Record]
  BY DEF IInv, TypeOK
<1>2. settling = 0 /\ \A r \in Slots : ~ InCall(r)
  BY DEF BeginSlot, Unlocked, InCall
<1>3. /\ InState(table, "FREE") = {} /\ InState(table, "FINISHED") = {}
      /\ s \in Oldest(table, InState(table, "FAILED_GATED"))
  BY DEF ReusableSlot, InState, Oldest
<1>4. Awaited = InState(table, "PENDING") /\ Denied = InState(table, "FAILED_GATED")
  BY <1>2 DEF Awaited, Denied, InState, Slots
<1>5. Slots = Awaited \cup Denied
  BY <1>1, <1>3, <1>4 DEF InState, Record, States
<1>6. Awaited \cap Denied = {}
  BY <1>4 DEF InState
<1>7. Cardinality(Slots) = History
  BY HistoryAssumption, FS_Interval DEF Slots
<1>8. Cardinality(Denied) >= 2
  <2>1. /\ Awaited \in SUBSET Slots /\ Denied \in SUBSET Slots
        /\ IsFiniteSet(Awaited) /\ IsFiniteSet(Denied)
        /\ Cardinality(Awaited) \in Nat /\ Cardinality(Denied) \in Nat
    BY <1>5, SlotsFinite
  <2>2. Cardinality(Slots) = Cardinality(Awaited) + Cardinality(Denied) - Cardinality({})
    BY <1>5, <1>6, <2>1, FS_Union
  <2> QED
    BY <1>7, <2>1, <2>2, FS_EmptySet, HistoryAssumption DEF Room
<1>9. PICK r \in Denied : r # s
  <2>1. Denied # {s}
    <3>1. Cardinality({s}) = 1
      BY FS_Singleton
    <3> QED
      BY <1>8, <3>1
  <2>2. s \in Denied
    BY <1>3, <1>4 DEF Oldest
  <2> QED
    BY <2>1, <2>2
<1>10. table[s].request_id <= table[r].request_id
  BY <1>3, <1>4 DEF Oldest
<1>11. table[s].request_id # table[r].request_id
  BY <1>3, <1>4, <1>9 DEF Oldest, InState, IInv, IdsDistinct
<1>12. table[s].request_id \in Nat /\ table[r].request_id \in Nat
  BY <1>1, <1>3, <1>4 DEF Oldest, InState, Record
<1> QED
  BY <1>10, <1>11, <1>12 DEF Older

(* One owner and a table with room: the order of answers is all it takes. *)
LEMMA SoleInOrder ==
  ASSUME NEW o, Owners = {o}, IInv, DrawsNewest(o), [Next]_vars, AnsweredInOrder, Room
  PROVE  InOrder
<1>1. ReturnsNewest
  <2>1. SUFFICES ASSUME owner[o].pc = "backend", NEW s \in Awaited \cup Denied
                 PROVE  table[s].request_id < owner[o].id
    BY DEF ReturnsNewest
  <2>2. s \in Slots /\ table[s].state # "FREE" /\ ~ InCall(s)
    BY DEF Awaited, Denied, InState
  <2>3. table[s].request_id \in 1 .. next_request /\ next_request \in Nat
    BY <2>2 DEF IInv, IdsDrawn, TypeOK
  <2>4. owner[o].id = next_request /\ table[s].request_id # owner[o].id
    BY <2>1, <2>2 DEF DrawsNewest, InCall
  <2> QED
    BY <2>3, <2>4
<1>2. NewestStays
  <2>1. SUFFICES ASSUME NEW s \in Denied, table'[s].state = "PENDING"
                 PROVE  \E r \in Denied : Older(s, r)
    BY DEF NewestStays
  <2>2. s \in Slots /\ table[s].state = "FAILED_GATED"
    BY DEF Denied, InState
  <2>3. BeginSlot(o) /\ s \in ReusableSlot(table)
    BY <2>1, <2>2, GatedLeaves
  <2> QED
    BY <2>2, <2>3, RoomForNewest
<1> QED
  BY <1>1, <1>2 DEF InOrder

(* The table of an owner that has the tuner to itself, whose tunes are      *)
(* answered in order and leave room in the table, implements OwnedTunes:   *)
(* the form in which ChannelScan and P25TrunkSM keep the ledger.           *)
THEOREM SoleOwnerImplements ==
  ASSUME NEW o, Owners = {o}
  PROVE  Spec /\ [][AnsweredInOrder /\ Room]_vars => Owned!Spec
<1>1. Init => Owned!Init
  <2>1. SUFFICES ASSUME Init PROVE Owned!Init
    OBVIOUS
  <2>2. Awaited = {} /\ Denied = {}
    <3>1. \A s \in Slots : table[s].state = "FREE"
      BY <2>1 DEF Init, FreeRecord
    <3> QED
      BY <3>1 DEF Awaited, Denied, InState
  <2>3. {s \in Awaited : \E r \in Denied : Older(s, r)} = {}
    BY <2>2
  <2> QED
    BY <2>2, <2>3, FS_EmptySet DEF Owned!Init, OwnersGate, Owned!OpenGate
<1>2. Spec => []DrawsNewest(o)
  <2>1. Init => DrawsNewest(o)
    BY InitNewest
  <2>2. IInv /\ DrawsNewest(o) /\ [Next]_vars => DrawsNewest(o)'
    BY StepNewest
  <2> QED
    BY <2>1, <2>2, Invariance, PTL DEF Spec
<1>3. IInv /\ ReadyReturned /\ DrawsNewest(o) /\ [Next]_vars /\ [AnsweredInOrder /\ Room]_vars
        => [Owned!Next]_(Owned!vars)
  <2>1. SUFFICES ASSUME IInv, ReadyReturned, DrawsNewest(o), [Next]_vars,
                        [AnsweredInOrder /\ Room]_vars
                 PROVE  [Owned!Next]_(Owned!vars)
    OBVIOUS
  <2>2. CASE AnsweredInOrder /\ Room
    BY <2>1, <2>2, SoleInOrder, NextStep DEF GateStep
  <2>3. CASE UNCHANGED vars
    <3>1. UNCHANGED <<table, settling, owner>>
      BY <2>3 DEF vars
    <3>2. \A s \in Slots : InCall(s)' <=> InCall(s)
      BY <3>1 DEF InCall
    <3>3. Awaited' = Awaited /\ Denied' = Denied /\ SameIds
      BY <3>1, <3>2 DEF Awaited, Denied, InState, Older, SameIds
    <3> QED
      BY <2>1, <3>3, Stays
  <2> QED
    BY <2>1, <2>2, <2>3
<1> QED
  BY <1>1, <1>2, <1>3, Invariance, ReadyHasReturned, PTL DEF Spec, Owned!Spec

=============================================================================
