------------------------- MODULE TuneRequestsProofs -------------------------
(***************************************************************************)
(* Proofs about TuneRequests, for every size of the table and any number   *)
(* of owners, observers and requests: the inductive invariant, and from it *)
(* the invariants, the action property and the refinement of FrameGate.    *)
(***************************************************************************)
EXTENDS TuneRequests, FiniteSetTheorems, TLAPS

-----------------------------------------------------------------------------
(* Counting records *)

Counted(record) == record.state \in {"PENDING", "FAILED_GATED"}

(* A set of slots is finite, so the counter can be its cardinality. *)
LEMMA SlotsFinite ==
  ASSUME NEW S \in SUBSET Slots
  PROVE  IsFiniteSet(S) /\ Cardinality(S) \in Nat
<1>1. IsFiniteSet(Slots)
  BY HistoryAssumption, FS_Interval DEF Slots
<1> QED
  BY <1>1, FS_Subset, FS_CardinalityType

(* Replacing one record moves the count by one, in the direction in which  *)
(* that record changes sides.                                              *)
LEMMA OneRecord ==
  ASSUME NEW t \in [Slots -> Record], NEW s \in Slots, NEW record \in Record
  PROVE  LET u == [t EXCEPT ![s] = record] IN
         /\ Counted(t[s]) <=> Counted(record) => Unresolved(u) = Unresolved(t)
         /\ ~ Counted(t[s]) /\ Counted(record) =>
              /\ Unresolved(u) = Unresolved(t) \cup {s}
              /\ Cardinality(Unresolved(u)) = Cardinality(Unresolved(t)) + 1
         /\ Counted(t[s]) /\ ~ Counted(record) =>
              /\ Unresolved(u) = Unresolved(t) \ {s}
              /\ Cardinality(Unresolved(u)) = Cardinality(Unresolved(t)) - 1
<1> DEFINE u == [t EXCEPT ![s] = record]
<1>1. /\ (Counted(t[s]) <=> Counted(record)) => Unresolved(u) = Unresolved(t)
      /\ ~ Counted(t[s]) /\ Counted(record) => Unresolved(u) = Unresolved(t) \cup {s}
      /\ Counted(t[s]) /\ ~ Counted(record) => Unresolved(u) = Unresolved(t) \ {s}
      /\ s \in Unresolved(t) <=> Counted(t[s])
  BY DEF Unresolved, InState, Counted
<1>2. Unresolved(t) \in SUBSET Slots
  BY DEF Unresolved, InState
<1>3. IsFiniteSet(Unresolved(t))
  BY <1>2, SlotsFinite
<1> QED
  BY <1>1, <1>3, FS_AddElement, FS_RemoveElement

(* Finishing a set of counted records takes exactly that many off the count. *)
LEMMA FinishCount ==
  ASSUME NEW t \in [Slots -> Record], NEW S \in SUBSET Unresolved(t)
  PROVE  /\ Finish(t, S) \in [Slots -> Record]
         /\ Unresolved(Finish(t, S)) = Unresolved(t) \ S
         /\ Cardinality(Unresolved(Finish(t, S))) = Cardinality(Unresolved(t)) - Cardinality(S)
         /\ IsFiniteSet(S) /\ Cardinality(S) \in Nat
<1>1. \A s \in Slots : [t[s] EXCEPT !.state = "FINISHED"] \in Record
  BY DEF Record, States
<1>2. Finish(t, S) \in [Slots -> Record]
  BY <1>1 DEF Finish
<1>3. Unresolved(Finish(t, S)) = Unresolved(t) \ S
  BY DEF Unresolved, InState, Finish, Record
<1>4. Unresolved(t) \in SUBSET Slots
  BY DEF Unresolved, InState
<1>5. IsFiniteSet(Unresolved(t)) /\ IsFiniteSet(S) /\ Cardinality(S) \in Nat
  BY <1>4, SlotsFinite
<1>6. Cardinality(Unresolved(t) \ S) = Cardinality(Unresolved(t)) - Cardinality(Unresolved(t) \cap S)
  BY <1>5, FS_Difference
<1>7. Unresolved(t) \cap S = S
  OBVIOUS
<1> QED
  BY <1>2, <1>3, <1>5, <1>6, <1>7

-----------------------------------------------------------------------------
(* The steps that touch one record *)

(* What the owners do while a record changes: nothing, or one of them      *)
(* returns.                                                                *)
OwnersReturn ==
  \/ owner' = owner
  \/ \E o \in Owners : owner' = [owner EXCEPT ![o].pc = "idle"]

SameRecord(s, record) ==
  /\ Unlocked
  /\ record.request_id = table[s].request_id
  /\ Counted(table[s])
  /\ OwnersReturn
  /\ UNCHANGED <<next_request, observer>>

(* The four things a report of owner or backend can do.  An undecided       *)
(* request becomes the boundary, its record still counted:                 *)
Advances(s, record) ==
  /\ SameRecord(s, record)
  /\ table[s].state = "PENDING" /\ record.state = "PENDING"
  /\ AdvanceGeneration(s, record)
  /\ refused' = refused

(* the gate is kept, by a record that stays undecided or is refused: *)
KeepsGate(s, record) ==
  /\ SameRecord(s, record)
  /\ KeepGate(s, record)
  /\ \/ /\ table[s].state = "PENDING" /\ record.state = "PENDING"
        /\ refused' = refused
     \/ /\ record.state = "FAILED_GATED"
        /\ \/ record.result # "OK"
           \/ record.result = table[s].result /\ table[s].state = "FAILED_GATED"
        /\ refused' = refused \cup {table[s].request_id}

(* the owner has rolled back: *)
RollsBack(s, record) ==
  /\ SameRecord(s, record)
  /\ RollBack(s, record)
  /\ \/ record.result # "OK"
     \/ record.result = table[s].result /\ table[s].state = "FAILED_GATED"
  /\ refused' = refused \cup {table[s].request_id}

(* or the report comes too late to change the table. *)
Ignored(o) ==
  /\ UNCHANGED <<shared, observer, established>>
  /\ owner[o].pc = "backend"
  /\ owner' = [owner EXCEPT ![o].pc = "idle"]
  /\ \/ refused' = refused
     \/ /\ \A s \in Find(table, owner[o].id) : table[s].state = "FINISHED"
        /\ refused' = refused \cup {owner[o].id}

(* The parts of the invariant about identities are kept by every step that *)
(* replaces a record by one of the same identity.                          *)
LEMMA IdsKept ==
  ASSUME IInv, NEW s \in Slots, NEW record \in Record, SameRecord(s, record),
         record.state # "FREE",
         table' = [table EXCEPT ![s] = record],
         established' \cup refused' \subseteq established \cup refused \cup {table[s].request_id}
  PROVE  IdsDistinct' /\ IdsDrawn' /\ FreshIds' /\ table' \in [Slots -> Record]
<1> USE DEF SameRecord
<1>1. table \in [Slots -> Record] /\ table[s].state # "FREE"
  BY DEF IInv, TypeOK, Counted
<1>2. \A r \in Slots : /\ table'[r].request_id = table[r].request_id
                       /\ table'[r].state = "FREE" <=> table[r].state = "FREE"
  BY <1>1
<1>3. owner \in [Owners -> [pc : OwnerPcs, id : Nat]]
  BY DEF IInv, TypeOK
<1>4. \A o \in Owners : /\ owner'[o].id = owner[o].id
                        /\ owner'[o].pc \in {"idle", owner[o].pc}
  BY <1>3 DEF OwnersReturn
<1>5. IdsDistinct'
  BY <1>2 DEF IInv, IdsDistinct
<1>6. IdsDrawn'
  BY <1>1, <1>2, <1>4 DEF IInv, IdsDrawn
<1>7. FreshIds'
  BY <1>1, <1>2, <1>4 DEF IInv, FreshIds
<1> QED
  BY <1>1, <1>5, <1>6, <1>7

(* An undecided request becomes the boundary; its record still counts. *)
LEMMA AdvancesInv ==
  ASSUME IInv, NEW s \in Slots, NEW record \in Record, Advances(s, record)
  PROVE  IInv' /\ table[s].request_id \notin established \cup refused
<1> USE DEF Advances, SameRecord, AdvanceGeneration
<1>1. TypeOK
  BY DEF IInv
<1>2. IdsDistinct' /\ IdsDrawn' /\ FreshIds' /\ table' \in [Slots -> Record]
  BY IdsKept
<1>3. Unresolved(table') = Unresolved(table)
  BY <1>1, OneRecord DEF TypeOK, Counted
<1>4. UnresolvedCountExact'
  BY <1>3 DEF IInv, UnresolvedCountExact
<1>5. TypeOK'
  BY <1>1, <1>2 DEF TypeOK, OwnersReturn, OwnerPcs, Record
<1>6. table[s].request_id \notin established \cup refused
  BY DEF IInv, FateOf, Unlocked, Slots
<1>7. ASSUME NEW r \in Slots PROVE FateOf(r)'
  <2>1. CASE r = s
    BY <1>1, <2>1 DEF FateOf, TypeOK
  <2>2. CASE r # s
    <3>1. table[r].state # "FREE" => table[r].request_id # table[s].request_id
      BY <2>2 DEF IInv, IdsDistinct
    <3> QED
      BY <1>1, <2>2, <3>1 DEF IInv, FateOf, TypeOK, Unlocked, Slots
  <2> QED
    BY <2>1, <2>2
<1>8. SettlingPending'
  BY <1>1 DEF SettlingPending, TypeOK
<1>9. FramesNotAhead'
  BY <1>1 DEF IInv, FramesNotAhead, TypeOK
<1> QED
  BY <1>2, <1>4, <1>5, <1>6, <1>7, <1>8, <1>9 DEF IInv

(* A step that keeps the gate: a record stays undecided, or is refused. *)
LEMMA KeepsGateInv ==
  ASSUME IInv, NEW s \in Slots, NEW record \in Record, KeepsGate(s, record)
  PROVE  IInv'
<1> USE DEF KeepsGate, SameRecord, KeepGate
<1>1. TypeOK
  BY DEF IInv
<1>2. IdsDistinct' /\ IdsDrawn' /\ FreshIds' /\ table' \in [Slots -> Record]
  BY IdsKept
<1>3. Unresolved(table') = Unresolved(table)
  BY <1>1, OneRecord DEF TypeOK, Counted
<1>4. UnresolvedCountExact'
  BY <1>3 DEF IInv, UnresolvedCountExact
<1>5. TypeOK'
  BY <1>1, <1>2 DEF TypeOK, OwnersReturn, OwnerPcs, Record
<1>6. ASSUME NEW r \in Slots PROVE FateOf(r)'
  <2>1. CASE r = s
    BY <1>1, <2>1 DEF IInv, FateOf, TypeOK, Unlocked, Slots
  <2>2. CASE r # s
    <3>1. table[r].state # "FREE" => table[r].request_id # table[s].request_id
      BY <2>2 DEF IInv, IdsDistinct
    <3> QED
      BY <1>1, <2>2, <3>1 DEF IInv, FateOf, TypeOK, Unlocked, Slots
  <2> QED
    BY <2>1, <2>2
<1>7. SettlingPending' /\ FramesNotAhead'
  BY DEF IInv, SettlingPending, FramesNotAhead, Unlocked
<1> QED
  BY <1>2, <1>4, <1>5, <1>6, <1>7 DEF IInv

(* A rollback finishes the record, unless it has inherited a gate. *)
LEMMA RollsBackInv ==
  ASSUME IInv, NEW s \in Slots, NEW record \in Record, RollsBack(s, record)
  PROVE  IInv'
<1> DEFINE rolled == [record EXCEPT !.state =
             IF record.inherited_failure_gate THEN "FAILED_GATED" ELSE "FINISHED"]
<1> USE DEF RollsBack, SameRecord
<1>1. TypeOK
  BY DEF IInv
<1>2. /\ rolled \in Record
      /\ table' = [table EXCEPT ![s] = rolled]
      /\ rolled.state \in {"FAILED_GATED", "FINISHED"}
      /\ rolled.request_id = table[s].request_id
      /\ rolled.result = record.result
      /\ Counted(rolled) <=> record.inherited_failure_gate
  BY DEF RollBack, Record, States, Counted
<1>3. UNCHANGED <<generation, settling, established>>
  BY DEF RollBack
<1> HIDE DEF rolled
<1>4. IdsDistinct' /\ IdsDrawn' /\ FreshIds' /\ table' \in [Slots -> Record]
  BY <1>2, <1>3, IdsKept
<1>5. UnresolvedCountExact'
  <2>1. CASE record.inherited_failure_gate
    <3>1. Unresolved(table') = Unresolved(table)
      BY <1>1, <1>2, <2>1, OneRecord DEF TypeOK
    <3>2. unresolved_count' = unresolved_count
      BY <1>1, <2>1 DEF RollBack, TypeOK
    <3> QED
      BY <3>1, <3>2 DEF IInv, UnresolvedCountExact
  <2>2. CASE ~ record.inherited_failure_gate
    <3>1. Cardinality(Unresolved(table')) = Cardinality(Unresolved(table)) - 1
      BY <1>1, <1>2, <2>2, OneRecord DEF TypeOK
    <3>2. unresolved_count' = unresolved_count - 1
      BY <1>1, <2>2 DEF RollBack, TypeOK
    <3> QED
      BY <3>1, <3>2 DEF IInv, UnresolvedCountExact
  <2> QED
    BY <2>1, <2>2
<1>6. unresolved_count' \in Nat
  <2>1. Unresolved(table') \in SUBSET Slots
    BY DEF Unresolved, InState
  <2> QED
    BY <1>5, <2>1, SlotsFinite DEF UnresolvedCountExact
<1>7. TypeOK'
  BY <1>1, <1>3, <1>4, <1>6 DEF TypeOK, OwnersReturn, OwnerPcs, Record
<1>8. ASSUME NEW r \in Slots PROVE FateOf(r)'
  <2>1. CASE r = s
    BY <1>1, <1>2, <1>3, <2>1 DEF IInv, FateOf, TypeOK, Unlocked, Slots
  <2>2. CASE r # s
    <3>1. table[r].state # "FREE" => table[r].request_id # table[s].request_id
      BY <2>2 DEF IInv, IdsDistinct
    <3> QED
      BY <1>1, <1>2, <1>3, <2>2, <3>1 DEF IInv, FateOf, TypeOK, Unlocked, Slots
  <2> QED
    BY <2>1, <2>2
<1>9. SettlingPending' /\ FramesNotAhead'
  BY <1>3 DEF IInv, SettlingPending, FramesNotAhead, Unlocked
<1> QED
  BY <1>4, <1>5, <1>7, <1>8, <1>9 DEF IInv

(* A report that comes too late may only add to the refused requests. *)
LEMMA IgnoredInv ==
  ASSUME IInv, NEW o \in Owners, Ignored(o)
  PROVE  IInv'
<1> USE DEF Ignored, shared
<1>1. TypeOK
  BY DEF IInv
<1>2. TypeOK'
  BY <1>1 DEF TypeOK, OwnerPcs
<1>3. /\ owner[o].id \in 1 .. next_request
      /\ \A s \in Slots : table[s].request_id = owner[o].id /\ refused' # refused
           => table[s].state = "FINISHED"
  BY DEF IInv, IdsDrawn, Find
<1>4. UnresolvedCountExact' /\ IdsDistinct' /\ SettlingPending' /\ FramesNotAhead'
  BY DEF IInv, UnresolvedCountExact, IdsDistinct, SettlingPending, FramesNotAhead
<1>5. \A p \in Owners : /\ owner'[p].id = owner[p].id
                        /\ owner'[p].pc = IF p = o THEN "idle" ELSE owner[p].pc
  BY <1>1 DEF TypeOK
<1>6. IdsDrawn'
  BY <1>3, <1>5 DEF IInv, IdsDrawn
<1>7. FreshIds'
  BY <1>3, <1>5 DEF IInv, FreshIds
<1>8. ASSUME NEW s \in Slots PROVE FateOf(s)'
  BY <1>1, <1>3 DEF IInv, FateOf, TypeOK
<1> QED
  BY <1>2, <1>4, <1>6, <1>7, <1>8 DEF IInv

-----------------------------------------------------------------------------
(* Every report is one of the four *)

Report ==
  \/ \E s \in Slots, record \in Record :
       Advances(s, record) \/ KeepsGate(s, record) \/ RollsBack(s, record)
  \/ \E o \in Owners : Ignored(o)

(* The backend's OK is a report: it settles the request if the owner is ready. *)
LEMMA PublishOkReports ==
  ASSUME IInv, NEW s \in Slots, PublishOk(s)
  PROVE  Report
<1> DEFINE record == [table[s] EXCEPT !.result = "OK", !.backend_complete = TRUE]
<1>1. /\ record \in Record
      /\ record.request_id = table[s].request_id
      /\ record.state = "PENDING"
      /\ record.owner_ready = table[s].owner_ready
  BY DEF PublishOk, IInv, TypeOK, Record, Results
<1>2. table[s].state = "PENDING" /\ SameRecord(s, record)
  BY <1>1 DEF PublishOk, SameRecord, Counted, OwnersReturn
<1>3. CASE record.owner_ready
  BY <1>1, <1>2, <1>3 DEF PublishOk, Advances, Report
<1>4. CASE ~ record.owner_ready
  BY <1>1, <1>2, <1>4 DEF PublishOk, KeepsGate, Report
<1> QED
  BY <1>3, <1>4

(* The backend's failure is a report: it gates the request and refuses it. *)
LEMMA PublishFailedReports ==
  ASSUME IInv, NEW s \in Slots, PublishFailed(s)
  PROVE  Report
<1> DEFINE record == [table[s] EXCEPT !.result = "FAILED", !.backend_complete = TRUE,
                                      !.state = "FAILED_GATED"]
<1>1. /\ record \in Record
      /\ record.request_id = table[s].request_id
      /\ record.state = "FAILED_GATED"
      /\ record.result = "FAILED"
  BY DEF IInv, TypeOK, Record, Results, States
<1>2. SameRecord(s, record)
  BY <1>1 DEF PublishFailed, SameRecord, Counted, OwnersReturn
<1> QED
  BY <1>1, <1>2 DEF PublishFailed, KeepsGate, Report

(* The owner's readiness is a report: it settles a request the backend has tuned. *)
LEMMA MarkReadyReports ==
  ASSUME IInv, NEW o \in Owners, MarkReady(o)
  PROVE  Report
<1>1. CASE \E s \in Find(table, owner[o].id) :
             /\ table[s].state = "PENDING"
             /\ LET record == [table[s] EXCEPT !.owner_ready = TRUE] IN
                IF record.backend_complete /\ record.result = "OK"
                THEN AdvanceGeneration(s, record) ELSE KeepGate(s, record)
  <2>1. PICK s \in Find(table, owner[o].id) :
             /\ table[s].state = "PENDING"
             /\ LET record == [table[s] EXCEPT !.owner_ready = TRUE] IN
                IF record.backend_complete /\ record.result = "OK"
                THEN AdvanceGeneration(s, record) ELSE KeepGate(s, record)
    BY <1>1
  <2> DEFINE record == [table[s] EXCEPT !.owner_ready = TRUE]
  <2>2. s \in Slots
    BY DEF Find
  <2>3. /\ record \in Record
        /\ record.request_id = table[s].request_id
        /\ record.state = "PENDING"
    BY <2>1, <2>2 DEF IInv, TypeOK, Record
  <2>4. SameRecord(s, record)
    BY <2>1, <2>3 DEF MarkReady, SameRecord, Counted, OwnersReturn
  <2>5. CASE record.backend_complete /\ record.result = "OK"
    BY <2>1, <2>2, <2>3, <2>4, <2>5 DEF MarkReady, Advances, Report
  <2>6. CASE ~ (record.backend_complete /\ record.result = "OK")
    BY <2>1, <2>2, <2>3, <2>4, <2>6 DEF MarkReady, KeepsGate, Report
  <2> QED
    BY <2>5, <2>6
<1>2. CASE UNCHANGED <<table, generation, unresolved_count, settling, established>>
  BY <1>2 DEF MarkReady, Ignored, Report, shared
<1> QED
  BY <1>1, <1>2 DEF MarkReady

(* The owner's verdict is a report, in each of the states its record may be in. *)
LEMMA CompleteReports ==
  ASSUME IInv, NEW o \in Owners, NEW result \in {"OK", "FAILED"}, Complete(o, result)
  PROVE  Report
<1>1. ASSUME NEW s \in Find(table, owner[o].id),
             LET record == [table[s] EXCEPT !.owner_ready = TRUE] IN
             \/ CompleteGated(s, record, result)
             \/ CompleteUnreported(s, record, result)
             \/ CompleteReported(s, record, result)
      PROVE  Report
  <2> DEFINE record == [table[s] EXCEPT !.owner_ready = TRUE]
  <2>1. /\ s \in Slots
        /\ table[s] \in Record
        /\ table[s].request_id = owner[o].id
    BY DEF Find, IInv, TypeOK
  <2>2. /\ record \in Record
        /\ record.request_id = table[s].request_id
        /\ record.state = table[s].state
        /\ record.result = table[s].result
    BY <2>1 DEF Record
  <2> HIDE DEF record
  <2>3. /\ Unlocked /\ OwnersReturn
        /\ UNCHANGED <<next_request, observer>>
        /\ refused' = IF result = "OK" THEN refused ELSE refused \cup {table[s].request_id}
    BY <2>1 DEF Complete, OwnersReturn
  <2>4. CASE CompleteGated(s, record, result)
    <3>1. table[s].state = "FAILED_GATED" /\ SameRecord(s, record)
      BY <2>2, <2>3, <2>4 DEF CompleteGated, SameRecord, Counted
    <3>2. table[s].request_id \in refused
      BY <2>1, <3>1 DEF IInv, FateOf
    <3>3. CASE result = "OK"
      <4>1. KeepGate(s, record) /\ refused' = refused \cup {table[s].request_id}
        BY <2>3, <2>4, <3>2, <3>3 DEF CompleteGated
      <4> QED
        BY <2>1, <2>2, <3>1, <4>1 DEF KeepsGate, Report
    <3>4. CASE result # "OK"
      BY <2>1, <2>2, <2>3, <2>4, <3>1, <3>4 DEF CompleteGated, RollsBack, Report
    <3> QED
      BY <3>3, <3>4
  <2>5. CASE CompleteUnreported(s, record, result)
    <3> DEFINE reported == [record EXCEPT !.result = result, !.backend_complete = TRUE]
    <3>1. /\ reported \in Record
          /\ reported.request_id = table[s].request_id
          /\ reported.state = "PENDING" /\ table[s].state = "PENDING"
          /\ reported.result = result
      BY <2>2, <2>5 DEF CompleteUnreported, Record, Results
    <3> HIDE DEF reported
    <3>2. SameRecord(s, reported)
      BY <2>3, <3>1 DEF SameRecord, Counted
    <3>3. IF result = "OK" THEN AdvanceGeneration(s, reported) ELSE RollBack(s, reported)
      BY <2>5 DEF CompleteUnreported, reported
    <3>4. CASE result = "OK"
      BY <2>1, <2>3, <3>1, <3>2, <3>3, <3>4 DEF Advances, Report
    <3>5. CASE result # "OK"
      BY <2>1, <2>3, <3>1, <3>2, <3>3, <3>5 DEF RollsBack, Report
    <3> QED
      BY <3>4, <3>5
  <2>6. CASE CompleteReported(s, record, result)
    <3> DEFINE gated == [record EXCEPT !.result = result, !.state = "FAILED_GATED"]
    <3>1. /\ gated \in Record
          /\ gated.request_id = table[s].request_id
          /\ gated.state = "FAILED_GATED" /\ table[s].state = "PENDING"
          /\ gated.result = result
      BY <2>2, <2>6 DEF CompleteReported, Record, Results, States
    <3> HIDE DEF gated
    <3>2. SameRecord(s, record) /\ SameRecord(s, gated)
      BY <2>2, <2>3, <3>1 DEF SameRecord, Counted
    <3>3. IF result = "OK" THEN AdvanceGeneration(s, record) ELSE KeepGate(s, gated)
      BY <2>6 DEF CompleteReported, gated
    <3>4. CASE result = "OK"
      BY <2>1, <2>2, <2>3, <3>1, <3>2, <3>3, <3>4 DEF Advances, Report
    <3>5. CASE result # "OK"
      BY <2>1, <2>3, <3>1, <3>2, <3>3, <3>5 DEF KeepsGate, Report
    <3> QED
      BY <3>4, <3>5
  <2> QED
    BY <1>1, <2>4, <2>5, <2>6 DEF record
<1>2. ASSUME /\ \A s \in Find(table, owner[o].id) : table[s].state = "FINISHED"
             /\ UNCHANGED <<table, generation, unresolved_count, settling, established>>
      PROVE  Report
  BY <1>2 DEF Complete, Ignored, Report, shared
<1> QED
  BY <1>1, <1>2 DEF Complete

(* A report keeps the invariant. *)
LEMMA ReportInv ==
  ASSUME IInv, Report
  PROVE  IInv'
BY AdvancesInv, KeepsGateInv, RollsBackInv, IgnoredInv DEF Report

-----------------------------------------------------------------------------
(* The steps that finish several records, and the reset *)

(* Finishing decided records settles nothing else. *)
LEMMA FinishInv ==
  ASSUME IInv, NEW S \in SUBSET Unresolved(table),
         table' = Finish(table, S),
         unresolved_count' = unresolved_count - Cardinality(S),
         settling' = 0, settling # 0 => settling \in S,
         \A s \in S : table[s].state = "FAILED_GATED" \/ s = settling,
         UNCHANGED <<generation, next_request, owner, observer, ghosts>>
  PROVE  IInv'
<1>1. TypeOK
  BY DEF IInv
<1>2. /\ table' \in [Slots -> Record]
      /\ Cardinality(Unresolved(table')) = Cardinality(Unresolved(table)) - Cardinality(S)
  BY <1>1, FinishCount DEF TypeOK
<1>3. UnresolvedCountExact'
  BY <1>2 DEF IInv, UnresolvedCountExact
<1>4. unresolved_count' \in Nat
  <2>1. Unresolved(table') \in SUBSET Slots
    BY DEF Unresolved, InState
  <2> QED
    BY <1>3, <2>1, SlotsFinite DEF UnresolvedCountExact
<1>5. TypeOK'
  BY <1>1, <1>2, <1>4 DEF TypeOK, ghosts
<1>6. ASSUME NEW s \in Slots
      PROVE  /\ table'[s].request_id = table[s].request_id
             /\ table'[s].result = table[s].result
             /\ table'[s].state = IF s \in S THEN "FINISHED" ELSE table[s].state
             /\ s \in S => table[s].state \in {"PENDING", "FAILED_GATED"}
  BY <1>1 DEF Finish, TypeOK, Record, Unresolved, InState
<1>7. IdsDistinct' /\ IdsDrawn' /\ FreshIds'
  BY <1>6 DEF IInv, IdsDistinct, IdsDrawn, FreshIds, ghosts
<1>8. ASSUME NEW s \in Slots PROVE FateOf(s)'
  <2>1. s = settling => table[s].request_id \in established
    BY DEF IInv, SettlingPending, Slots
  <2> QED
    BY <1>6, <2>1 DEF IInv, FateOf, ghosts
<1>9. SettlingPending' /\ FramesNotAhead'
  BY DEF IInv, SettlingPending, FramesNotAhead
<1> QED
  BY <1>3, <1>5, <1>7, <1>8, <1>9 DEF IInv

(* The second half of a success takes its record, and what it supersedes, off the count. *)
LEMMA SettleInv ==
  ASSUME IInv, Settle
  PROVE  IInv'
<1> DEFINE retired == Superseded(table, settling)
           S == retired \cup {settling}
<1>1. /\ settling \in Slots
      /\ table[settling].state = "PENDING"
  BY DEF Settle, IInv, TypeOK, SettlingPending
<1>2. /\ retired \in SUBSET Slots
      /\ settling \notin retired
      /\ S \in SUBSET Unresolved(table)
      /\ \A s \in S : table[s].state = "FAILED_GATED" \/ s = settling
  BY <1>1 DEF Superseded, Unresolved, InState
<1>3. Cardinality(S) = 1 + Cardinality(retired)
  BY <1>2, SlotsFinite, FS_AddElement
<1>4. /\ table' = Finish(table, S)
      /\ unresolved_count' = unresolved_count - Cardinality(S)
      /\ settling' = 0
      /\ settling \in S
  BY <1>3 DEF Settle
<1> HIDE DEF S
<1> QED
  BY <1>2, <1>4, FinishInv DEF Settle

(* Retiring the gated failures takes exactly those records off the count. *)
LEMMA RetireFailedInv ==
  ASSUME IInv, RetireFailed
  PROVE  IInv'
<1>1. InState(table, "FAILED_GATED") \in SUBSET Unresolved(table)
  BY DEF Unresolved
<1>2. \A s \in InState(table, "FAILED_GATED") : table[s].state = "FAILED_GATED"
  BY DEF InState
<1> QED
  BY <1>1, <1>2, FinishInv DEF RetireFailed, Unlocked

(* A reset empties the table and the count together. *)
LEMMA ResetInv ==
  ASSUME IInv, Reset
  PROVE  IInv'
<1>1. FreeRecord \in Record
  BY DEF FreeRecord, Record, Results, States
<1>2. Unresolved(table') = {}
  BY DEF Reset, Unresolved, InState, FreeRecord
<1>3. UnresolvedCountExact'
  BY <1>2, FS_EmptySet DEF Reset, UnresolvedCountExact
<1>4. TypeOK'
  BY <1>1 DEF Reset, IInv, TypeOK, ghosts
<1>5. \A s \in Slots : table'[s].state = "FREE" /\ table'[s].request_id = 0
  BY DEF Reset, FreeRecord
<1>6. IdsDistinct' /\ IdsDrawn' /\ FreshIds'
  BY <1>5 DEF Reset, IInv, IdsDistinct, IdsDrawn, FreshIds, ghosts
<1>7. \A s \in Slots : FateOf(s)'
  BY <1>5 DEF FateOf
<1>8. SettlingPending' /\ FramesNotAhead'
  BY DEF Reset, Unlocked, IInv, SettlingPending, FramesNotAhead
<1> QED
  BY <1>3, <1>4, <1>6, <1>7, <1>8 DEF IInv

-----------------------------------------------------------------------------
(* The steps that begin a request, and the frame check *)

(* An identity that is drawn is above every one drawn before. *)
LEMMA BeginIdInv ==
  ASSUME IInv, NEW o \in Owners, BeginId(o)
  PROVE  IInv'
<1> USE DEF BeginId, ghosts
<1>1. TypeOK
  BY DEF IInv
<1>2. /\ next_request' = next_request + 1
      /\ next_request \in Nat /\ next_request' <= MaxRequests
      /\ \A p \in Owners : owner'[p] = IF p = o
              THEN [pc |-> "allocating", id |-> next_request + 1] ELSE owner[p]
  BY <1>1, BoundAssumption DEF TypeOK
<1>3. TypeOK'
  BY <1>1 DEF TypeOK, OwnerPcs
<1>4. UnresolvedCountExact' /\ IdsDistinct' /\ SettlingPending' /\ FramesNotAhead'
  BY DEF IInv, UnresolvedCountExact, IdsDistinct, SettlingPending, FramesNotAhead
<1>5. \A s \in Slots : FateOf(s)'
  BY DEF IInv, FateOf
<1>6. IdsDrawn'
  BY <1>2 DEF IInv, IdsDrawn
<1>7. \A i \in 1 .. next_request : i # next_request + 1
  BY <1>2
<1>8. FreshIds'
  <2>1. next_request + 1 \notin established \cup refused
    BY <1>7 DEF IInv, IdsDrawn
  <2>2. \A s \in Slots : table[s].request_id # next_request + 1
    BY <1>2, <1>7 DEF IInv, IdsDrawn
  <2>3. \A p \in Owners : owner[p].pc # "idle" => owner[p].id # next_request + 1
    BY <1>7 DEF IInv, IdsDrawn
  <2> QED
    BY <1>2, <2>1, <2>2, <2>3 DEF IInv, FreshIds
<1> QED
  BY <1>3, <1>4, <1>5, <1>6, <1>8 DEF IInv

(* A request that finds no slot leaves the table as it was. *)
LEMMA BeginRefusedInv ==
  ASSUME IInv, NEW o \in Owners, BeginRefused(o)
  PROVE  IInv'
<1> USE DEF BeginRefused, shared, ghosts
<1>1. TypeOK
  BY DEF IInv
<1>2. \A p \in Owners : /\ owner'[p].id = owner[p].id
                        /\ owner'[p].pc \in {"idle", owner[p].pc}
  BY <1>1 DEF TypeOK
<1>3. TypeOK'
  BY <1>1 DEF TypeOK, OwnerPcs
<1>4. UnresolvedCountExact' /\ IdsDistinct' /\ SettlingPending' /\ FramesNotAhead'
  BY DEF IInv, UnresolvedCountExact, IdsDistinct, SettlingPending, FramesNotAhead
<1>5. (\A s \in Slots : FateOf(s)') /\ IdsDrawn'
  BY <1>2 DEF IInv, FateOf, IdsDrawn
<1>6. FreshIds'
  BY <1>2 DEF IInv, FreshIds
<1> QED
  BY <1>3, <1>4, <1>5, <1>6 DEF IInv

(* A slot a new request may take is undecided only if it is gated. *)
LEMMA ReusableSlotStates ==
  ASSUME NEW s \in ReusableSlot(table)
  PROVE  s \in Slots /\ table[s].state \in {"FREE", "FINISHED", "FAILED_GATED"}
BY DEF ReusableSlot, InState, Oldest

(* A new request is counted, unless it takes over a slot that is counted already. *)
LEMMA BeginSlotInv ==
  ASSUME IInv, NEW o \in Owners, BeginSlot(o)
  PROVE  IInv'
<1>1. TypeOK
  BY DEF IInv
<1>2. PICK s \in ReusableSlot(table) :
        LET inherited == table[s].state = "FAILED_GATED" IN
        /\ table' = [table EXCEPT ![s] =
             [FreeRecord EXCEPT !.request_id = owner[o].id, !.result = "PENDING",
                !.state = "PENDING", !.inherited_failure_gate = inherited]]
        /\ unresolved_count' = unresolved_count + (IF inherited THEN 0 ELSE 1)
  BY DEF BeginSlot
<1> DEFINE inherited == table[s].state = "FAILED_GATED"
           record == [FreeRecord EXCEPT !.request_id = owner[o].id, !.result = "PENDING",
                        !.state = "PENDING", !.inherited_failure_gate = inherited]
<1>3. s \in Slots /\ table[s].state \in {"FREE", "FINISHED", "FAILED_GATED"}
  BY ReusableSlotStates
<1>4. owner[o].pc = "allocating" /\ owner[o].id \in 1 .. next_request /\ owner[o].id \in Nat
  BY <1>1 DEF BeginSlot, IInv, IdsDrawn, TypeOK
<1>5. /\ record \in Record
      /\ record.request_id = owner[o].id
      /\ record.state = "PENDING"
  BY <1>4 DEF FreeRecord, Record, Results, States
<1>6. /\ table' = [table EXCEPT ![s] = record]
      /\ unresolved_count' = unresolved_count + (IF inherited THEN 0 ELSE 1)
  BY <1>2
<1> HIDE DEF record
<1>7. UnresolvedCountExact'
  <2>1. CASE inherited
    <3>1. Unresolved(table') = Unresolved(table)
      BY <1>1, <1>3, <1>5, <1>6, <2>1, OneRecord DEF TypeOK, Counted
    <3>2. unresolved_count' = unresolved_count
      BY <1>1, <1>6, <2>1 DEF TypeOK
    <3> QED
      BY <3>1, <3>2 DEF IInv, UnresolvedCountExact
  <2>2. CASE ~ inherited
    <3>1. ~ Counted(table[s]) /\ Counted(record)
      BY <1>3, <1>5, <2>2 DEF Counted
    <3>3. Cardinality(Unresolved(table')) = Cardinality(Unresolved(table)) + 1
      BY <1>1, <1>3, <1>5, <1>6, <3>1, OneRecord DEF TypeOK
    <3>2. unresolved_count' = unresolved_count + 1
      BY <1>1, <1>6, <2>2 DEF TypeOK
    <3> QED
      BY <3>2, <3>3 DEF IInv, UnresolvedCountExact
  <2> QED
    BY <2>1, <2>2
<1>8. \A r \in Slots : table'[r] = IF r = s THEN record ELSE table[r]
  BY <1>1, <1>6 DEF TypeOK
<1>9. \A p \in Owners : /\ owner'[p].id = owner[p].id
                        /\ owner'[p].pc = IF p = o THEN "backend" ELSE owner[p].pc
  BY <1>1 DEF BeginSlot, TypeOK
<1>10. TypeOK'
  <2>1. table' \in [Slots -> Record]
    BY <1>1, <1>5, <1>6 DEF TypeOK
  <2>2. unresolved_count' \in Nat
    BY <1>1, <1>6 DEF TypeOK
  <2>3. owner' \in [Owners -> [pc : OwnerPcs, id : Nat]]
    BY <1>1 DEF BeginSlot, TypeOK, OwnerPcs
  <2> QED
    BY <1>1, <2>1, <2>2, <2>3 DEF BeginSlot, TypeOK, ghosts
<1>11. \A r \in Slots : table[r].request_id # owner[o].id
  BY <1>4 DEF IInv, FreshIds
<1>12. IdsDistinct'
  BY <1>5, <1>8, <1>11 DEF IInv, IdsDistinct
<1>13. \A r \in Slots : FateOf(r)'
  <2>1. owner[o].id \notin established \cup refused
    BY <1>4 DEF IInv, FreshIds
  <2> QED
    BY <1>5, <1>8, <2>1 DEF BeginSlot, IInv, FateOf, ghosts
<1>14. SettlingPending' /\ FramesNotAhead'
  BY DEF BeginSlot, Unlocked, IInv, SettlingPending, FramesNotAhead
<1>15. IdsDrawn'
  BY <1>4, <1>5, <1>8, <1>9 DEF BeginSlot, IInv, IdsDrawn, ghosts
<1>16. FreshIds'
  BY <1>4, <1>5, <1>8, <1>9 DEF BeginSlot, IInv, FreshIds, ghosts
<1> QED
  BY <1>7, <1>10, <1>12, <1>13, <1>14, <1>15, <1>16 DEF IInv

(* A frame check changes nothing of the table. *)
LEMMA ObserverInv ==
  ASSUME IInv, NEW w \in Observers, ObserverStep(w)
  PROVE  IInv'
<1> DEFINE checks == \E from \in ObserverPcs, to \in ObserverPcs : Observe(w, from, to)
<1>1. Capture(w) \/ checks
  BY DEF ObserverStep, CheckCount, CheckGeneration, RecheckCount, RecheckGeneration, ObserverPcs
<1>2. TypeOK
  BY DEF IInv
<1>3. UNCHANGED <<shared, owner, ghosts>>
  BY <1>1 DEF Capture, Observe
<1>4. observer' \in [Observers -> [pc : ObserverPcs, generation : Nat]] /\ FramesNotAhead'
  <2>1. CASE Capture(w)
    BY <1>2, <2>1 DEF Capture, TypeOK, ObserverPcs, IInv, FramesNotAhead, shared
  <2>2. CASE checks
    BY <1>2, <2>2 DEF Observe, TypeOK, IInv, FramesNotAhead, shared
  <2> QED
    BY <1>1, <2>1, <2>2
<1>5. TypeOK'
  BY <1>2, <1>3, <1>4 DEF TypeOK, shared, ghosts
<1>6. /\ UnresolvedCountExact' /\ IdsDistinct' /\ SettlingPending' /\ IdsDrawn' /\ FreshIds'
      /\ \A s \in Slots : FateOf(s)'
  BY <1>3 DEF IInv, UnresolvedCountExact, IdsDistinct, SettlingPending, IdsDrawn, FreshIds,
              FateOf, shared, ghosts
<1> QED
  BY <1>4, <1>5, <1>6 DEF IInv

-----------------------------------------------------------------------------
(* The inductive invariant and what follows from it *)

(* The empty table satisfies the invariant. *)
LEMMA InitInv == Init => IInv
<1> SUFFICES ASSUME Init PROVE IInv
  OBVIOUS
<1> USE DEF Init
<1>1. FreeRecord \in Record
  BY DEF FreeRecord, Record, Results, States
<1>2. TypeOK
  BY <1>1 DEF TypeOK, OwnerPcs, ObserverPcs
<1>3. \A s \in Slots : table[s].state = "FREE" /\ table[s].request_id = 0
  BY DEF FreeRecord
<1>4. Unresolved(table) = {}
  BY <1>3 DEF Unresolved, InState
<1>5. UnresolvedCountExact
  BY <1>4, FS_EmptySet DEF UnresolvedCountExact
<1>6. IdsDistinct /\ \A s \in Slots : FateOf(s)
  BY <1>3 DEF IdsDistinct, FateOf
<1>7. SettlingPending /\ IdsDrawn /\ FreshIds /\ FramesNotAhead
  BY <1>3, BoundAssumption DEF SettlingPending, IdsDrawn, FreshIds, FramesNotAhead
<1> QED
  BY <1>2, <1>5, <1>6, <1>7 DEF IInv

(* Every step of the table, or none, keeps the invariant. *)
LEMMA StepInv == IInv /\ [Next]_vars => IInv'
<1> SUFFICES ASSUME IInv, [Next]_vars PROVE IInv'
  OBVIOUS
<1>1. ASSUME NEW o \in Owners, OwnerStep(o) PROVE IInv'
  <2>1. ASSUME NEW result \in {"OK", "FAILED"}, Complete(o, result) PROVE IInv'
    BY <2>1, CompleteReports, ReportInv
  <2> QED
    BY <1>1, <2>1, BeginIdInv, BeginRefusedInv, BeginSlotInv, MarkReadyReports, ReportInv
       DEF OwnerStep
<1>2. ASSUME NEW s \in Slots, PublishOk(s) \/ PublishFailed(s) PROVE IInv'
  BY <1>2, PublishOkReports, PublishFailedReports, ReportInv
<1>3. CASE UNCHANGED vars
  BY <1>3 DEF vars, IInv, TypeOK, UnresolvedCountExact, IdsDistinct, FateOf, SettlingPending,
              IdsDrawn, FreshIds, FramesNotAhead
<1> QED
  BY <1>1, <1>2, <1>3, SettleInv, RetireFailedInv, ResetInv, ObserverInv DEF Next

(* The invariant holds of every behaviour. *)
THEOREM Invariance == Spec => []IInv
BY InitInv, StepInv, PTL DEF Spec

(* Every variable keeps its type; the count, in particular, is never        *)
(* negative.                                                               *)
THEOREM TypeCorrect == Spec => []TypeOK
<1>1. IInv => TypeOK
  BY DEF IInv
<1> QED
  BY <1>1, Invariance, PTL

(* The counter read without the lock is always the number of pending and   *)
(* gated records.                                                          *)
THEOREM CountExact == Spec => []UnresolvedCountExact
<1>1. IInv => UnresolvedCountExact
  BY DEF IInv
<1> QED
  BY <1>1, Invariance, PTL

(* No two records ever share an identity. *)
THEOREM OneRecordPerRequest == Spec => []IdsDistinct
<1>1. IInv => IdsDistinct
  BY DEF IInv
<1> QED
  BY <1>1, Invariance, PTL

(* A request whose status is OK has set its boundary. *)
THEOREM StatusSound == Spec => []StatusOkMeansBoundary
<1>1. IInv => StatusOkMeansBoundary
  <2> SUFFICES ASSUME IInv, NEW id \in Ids, Status(id) = "OK" PROVE id \in established
    BY DEF StatusOkMeansBoundary
  <2> DEFINE s == CHOOSE r \in Find(table, id) : TRUE
  <2>1. Find(table, id) # {}
    BY DEF Status
  <2>2. s \in Find(table, id)
    BY <2>1
  <2>3. s \in Slots /\ table[s].request_id = id /\ table[s].state # "FREE"
    BY <2>2 DEF Find
  <2>4. table[s].state # "PENDING" /\ table[s].result = "OK"
    BY <2>1 DEF Status
  <2> HIDE DEF s
  <2> QED
    BY <2>3, <2>4 DEF IInv, FateOf
<1> QED
  BY <1>1, Invariance, PTL

(* Only the settlement of an undecided request advances the generation. *)
LEMMA StepResurrectsNothing ==
  ASSUME IInv, [Next]_vars, generation' # generation
  PROVE  \E id \in established' \ (established \cup refused) :
           /\ established' = established \cup {id}
           /\ generation' = generation + 1
<1>1. Report
  <2>1. ASSUME NEW o \in Owners, OwnerStep(o) PROVE Report
    <3>1. ASSUME NEW result \in {"OK", "FAILED"}, Complete(o, result) PROVE Report
      BY <3>1, CompleteReports
    <3>2. ~ BeginId(o) /\ ~ BeginRefused(o) /\ ~ BeginSlot(o)
      BY DEF BeginId, BeginRefused, BeginSlot, shared
    <3> QED
      BY <2>1, <3>1, <3>2, MarkReadyReports DEF OwnerStep
  <2>2. ASSUME NEW w \in Observers, ObserverStep(w) PROVE FALSE
    BY <2>2 DEF ObserverStep, Capture, CheckCount, CheckGeneration, RecheckCount,
                RecheckGeneration, Observe, shared
  <2>3. ~ Settle /\ ~ RetireFailed /\ ~ Reset /\ vars' # vars
    BY DEF Settle, RetireFailed, Reset, vars
  <2> QED
    BY <2>1, <2>2, <2>3, PublishOkReports, PublishFailedReports DEF Next
<1>2. PICK s \in Slots, record \in Record : Advances(s, record)
  BY <1>1 DEF Report, KeepsGate, KeepGate, RollsBack, RollBack, Ignored, shared
<1>3. table[s].request_id \notin established \cup refused
  BY <1>2, AdvancesInv
<1> QED
  BY <1>2, <1>3 DEF Advances, SameRecord, AdvanceGeneration

(* A request that was reported as failed never sets a boundary afterwards, *)
(* and no request sets two.                                                *)
THEOREM NeverResurrected == Spec => NoResurrection
<1>1. IInv /\ [Next]_vars =>
        [generation' # generation =>
           \E id \in established' \ (established \cup refused) :
             /\ established' = established \cup {id}
             /\ generation' = generation + 1]_vars
  BY StepResurrectsNothing
<1> QED
  BY <1>1, Invariance, PTL DEF Spec, NoResurrection

-----------------------------------------------------------------------------
(* The table implements the gate.  An undecided or gated record is an       *)
(* unresolved request; a request is spent once it is decided.              *)

Gated(t) == {t[s].request_id : s \in Unresolved(t)}
Spent == established \cup refused
Frames == [w \in Observers |-> AbstractFrame(w)]

(* The empty table is the open gate. *)
LEMMA GateInit == Init => Gate!Init
BY DEF Init, Gate!Init, Unresolved, InState, FreeRecord, AbstractFrame

(* What replacing a record does to the unresolved requests. *)
LEMMA OneRecordGated ==
  ASSUME IInv, NEW s \in Slots, NEW record \in Record, Counted(table[s]),
         record.request_id = table[s].request_id,
         table' = [table EXCEPT ![s] = record]
  PROVE  /\ table[s].request_id \in Gated(table)
         /\ table[s].request_id \in Ids
         /\ Counted(record) => Gated(table') = Gated(table)
         /\ ~ Counted(record) => Gated(table') = Gated(table) \ {table[s].request_id}
<1>1. TypeOK /\ table[s].state # "FREE"
  BY DEF IInv, Counted
<1>2. s \in Unresolved(table)
  BY DEF Unresolved, InState, Counted
<1>3. table[s].request_id \in Gated(table)
  BY <1>2 DEF Gated
<1>4. table[s].request_id \in Ids
  BY <1>1, BoundAssumption DEF IInv, TypeOK, IdsDrawn, Ids
<1>5. \A r \in Slots : table'[r].request_id = table[r].request_id
  BY <1>1 DEF TypeOK
<1>6. Unresolved(table') \in SUBSET Slots /\ Unresolved(table) \in SUBSET Slots
  BY DEF Unresolved, InState
<1>7. CASE Counted(record)
  <2>1. Unresolved(table') = Unresolved(table)
    BY <1>1, <1>7, OneRecord DEF TypeOK
  <2> QED
    BY <1>3, <1>4, <1>5, <1>6, <1>7, <2>1 DEF Gated
<1>8. CASE ~ Counted(record)
  <2>1. Unresolved(table') = Unresolved(table) \ {s}
    BY <1>1, <1>8, OneRecord DEF TypeOK
  <2>2. \A r \in Slots : r # s => table[r].request_id # table[s].request_id
    BY <1>1 DEF IInv, IdsDistinct
  <2>3. Gated(table') = {table[r].request_id : r \in Unresolved(table) \ {s}}
    BY <1>5, <1>6, <2>1 DEF Gated
  <2>4. {table[r].request_id : r \in Unresolved(table) \ {s}}
           = Gated(table) \ {table[s].request_id}
    BY <1>6, <2>2 DEF Gated
  <2> QED
    BY <1>3, <1>4, <1>8, <2>3, <2>4
<1> QED
  BY <1>7, <1>8

(* A report establishes, refuses, or leaves the gate as it is. *)
LEMMA ReportRefines ==
  ASSUME IInv, Report
  PROVE  [Gate!Next]_(Gate!vars)
<1>1. ASSUME NEW s \in Slots, NEW record \in Record, Advances(s, record)
      PROVE  \E r \in Ids : Gate!Establish(r)
  <2> DEFINE r == table[s].request_id
  <2>1. /\ SameRecord(s, record) /\ record.state = "PENDING"
        /\ AdvanceGeneration(s, record)
        /\ refused' = refused
        /\ observer' = observer
    BY <1>1 DEF Advances, SameRecord
  <2>2. r \in Gated(table) /\ r \in Ids /\ Gated(table') = Gated(table)
    BY <2>1, OneRecordGated DEF SameRecord, AdvanceGeneration, Counted
  <2>3. r \notin established \cup refused
    BY <1>1, AdvancesInv
  <2>4. /\ generation' = generation + 1
        /\ established' \cup refused' = (established \cup refused) \cup {r}
    BY <2>1 DEF AdvanceGeneration, SameRecord
  <2>5. \A w \in Observers : /\ observer[w].generation \in Nat
                             /\ observer[w].generation <= generation
                             /\ generation \in Nat
    BY DEF IInv, TypeOK, FramesNotAhead
  <2>6. ASSUME NEW w \in Observers
        PROVE  AbstractFrame(w)' = IF AbstractFrame(w).status = "cleared"
                                   THEN [AbstractFrame(w) EXCEPT !.status = "captured"]
                                   ELSE AbstractFrame(w)
    BY <2>1, <2>4, <2>5 DEF AbstractFrame, Current
  <2> QED
    BY <2>2, <2>3, <2>4, <2>6 DEF Gate!Establish, Gated
<1>2. ASSUME NEW s \in Slots, NEW record \in Record,
             KeepsGate(s, record) \/ RollsBack(s, record)
      PROVE  (\E r \in Ids : Gate!Refuse(r)) \/ UNCHANGED Gate!vars
  <2>1. PICK rec \in Record :
          /\ rec.request_id = table[s].request_id
          /\ table' = [table EXCEPT ![s] = rec]
    <3>1. CASE KeepsGate(s, record)
      BY <3>1 DEF KeepsGate, KeepGate, SameRecord
    <3>2. CASE RollsBack(s, record)
      <4> DEFINE rolled == [record EXCEPT !.state =
                 IF record.inherited_failure_gate THEN "FAILED_GATED" ELSE "FINISHED"]
      <4>1. rolled \in Record /\ rolled.request_id = record.request_id
        BY DEF Record, States
      <4> QED
        BY <3>2, <4>1 DEF RollsBack, RollBack, SameRecord
    <3> QED
      BY <1>2, <3>1, <3>2
  <2>2. /\ UNCHANGED <<generation, established, observer>>
        /\ Counted(table[s])
    BY <1>2 DEF KeepsGate, KeepGate, RollsBack, RollBack, SameRecord
  <2>3. /\ table[s].request_id \in Ids
        /\ Gated(table') \in {Gated(table), Gated(table) \ {table[s].request_id}}
    BY <2>1, <2>2, OneRecordGated
  <2>4. Frames' = Frames
    BY <2>2 DEF Frames, AbstractFrame, Current
  <2>5. CASE refused' = refused \cup {table[s].request_id}
    BY <2>2, <2>3, <2>4, <2>5 DEF Gate!Refuse, Gated, Frames
  <2>6. CASE refused' = refused /\ KeepsGate(s, record) /\ record.state = "PENDING"
    <3>1. Gated(table') = Gated(table)
      BY <2>6, OneRecordGated DEF KeepsGate, KeepGate, SameRecord, Counted
    <3> QED
      BY <2>2, <2>4, <2>6, <3>1 DEF Gate!vars, Gated, Frames
  <2> QED
    BY <1>2, <2>5, <2>6 DEF KeepsGate, RollsBack
<1>3. ASSUME NEW o \in Owners, Ignored(o)
      PROVE  (\E r \in Ids : Gate!Refuse(r)) \/ UNCHANGED Gate!vars
  <2>1. UNCHANGED <<table, generation, established, observer>>
    BY <1>3 DEF Ignored, shared
  <2>2. Gated(table') = Gated(table) /\ Frames' = Frames
    BY <2>1 DEF Gated, Frames, AbstractFrame, Current
  <2>3. owner[o].id \in Ids
    BY <1>3, BoundAssumption DEF Ignored, IInv, TypeOK, IdsDrawn, Ids
  <2>4. refused' = refused \/ refused' = refused \cup {owner[o].id}
    BY <1>3 DEF Ignored
  <2> QED
    BY <2>1, <2>2, <2>3, <2>4 DEF Gate!Refuse, Gate!vars, Gated, Frames
<1>4. CASE \E s \in Slots, record \in Record :
             Advances(s, record) \/ KeepsGate(s, record) \/ RollsBack(s, record)
  BY <1>1, <1>2, <1>4 DEF Gate!Next, Gate!vars
<1>5. CASE \E o \in Owners : Ignored(o)
  BY <1>3, <1>5 DEF Gate!Next, Gate!vars
<1> QED
  BY <1>4, <1>5 DEF Report

(* A new request opens; it may take over the oldest gate. *)
LEMMA BeginSlotRefines ==
  ASSUME IInv, NEW o \in Owners, BeginSlot(o)
  PROVE  \E r \in Ids : Gate!Open(r)
<1>1. TypeOK
  BY DEF IInv
<1>2. PICK s \in ReusableSlot(table) :
        table' = [table EXCEPT ![s] =
             [FreeRecord EXCEPT !.request_id = owner[o].id, !.result = "PENDING",
                !.state = "PENDING", !.inherited_failure_gate = table[s].state = "FAILED_GATED"]]
  BY DEF BeginSlot
<1> DEFINE q == table[s].request_id
           r == owner[o].id
<1>3. s \in Slots /\ table[s].state \in {"FREE", "FINISHED", "FAILED_GATED"}
  BY ReusableSlotStates
<1>4. owner[o].pc = "allocating" /\ r \in 1 .. next_request
  BY DEF BeginSlot, IInv, IdsDrawn
<1>5. r \in Ids
  BY <1>1, <1>4, BoundAssumption DEF IInv, TypeOK, IdsDrawn, Ids
<1>6. /\ r \notin established \cup refused
      /\ \A p \in Slots : table[p].request_id # r
  BY <1>4 DEF IInv, FreshIds
<1>7. /\ table'[s].request_id = r /\ table'[s].state = "PENDING"
      /\ \A p \in Slots : p # s => table'[p] = table[p]
  BY <1>1, <1>2, <1>3 DEF TypeOK, FreeRecord
<1>8. r \notin Gated(table)
  BY <1>6 DEF Gated, Unresolved, InState
<1>9. Unresolved(table') = Unresolved(table) \cup {s}
  BY <1>3, <1>7 DEF Unresolved, InState
<1>10. Gated(table') = {table[p].request_id : p \in Unresolved(table) \ {s}} \cup {r}
  BY <1>3, <1>7, <1>9 DEF Gated, Unresolved, InState
<1>11. UNCHANGED <<generation, established, refused>> /\ Frames' = Frames
  BY DEF BeginSlot, ghosts, Frames, AbstractFrame, Current
<1>12. CASE table[s].state = "FAILED_GATED"
  <2>1. s \in Unresolved(table) /\ q \in Gated(table) \cap Spent
    BY <1>3, <1>12 DEF Unresolved, InState, Gated, Spent, IInv, FateOf
  <2>2. \A p \in Slots : p # s => table[p].request_id # q
    BY <1>3, <1>12 DEF IInv, IdsDistinct
  <2>3. {table[p].request_id : p \in Unresolved(table) \ {s}} = Gated(table) \ {q}
    BY <2>2 DEF Gated, Unresolved, InState
  <2> QED
    BY <1>5, <1>6, <1>8, <1>10, <1>11, <2>1, <2>3 DEF Gate!Open, Gated, Frames, Spent
<1>13. CASE table[s].state # "FAILED_GATED"
  <2>1. s \notin Unresolved(table)
    BY <1>3, <1>13 DEF Unresolved, InState
  <2>2. {table[p].request_id : p \in Unresolved(table) \ {s}} = Gated(table)
    BY <2>1 DEF Gated
  <2> QED
    BY <1>5, <1>6, <1>8, <1>10, <1>11, <2>2 DEF Gate!Open, Gated, Frames
<1> QED
  BY <1>12, <1>13

(* Finishing decided records resolves spent requests. *)
LEMMA FinishRefines ==
  ASSUME IInv, NEW S \in SUBSET Unresolved(table), table' = Finish(table, S),
         \A s \in S : table[s].request_id \in Spent,
         UNCHANGED <<generation, observer, ghosts>>
  PROVE  Gate!Resolve
<1>1. TypeOK
  BY DEF IInv
<1>2. Unresolved(table') = Unresolved(table) \ S
  BY <1>1, FinishCount DEF TypeOK
<1>3. \A s \in Slots : table'[s].request_id = table[s].request_id
  BY <1>1 DEF Finish, TypeOK, Record
<1>4. Gated(table') = {table[s].request_id : s \in Unresolved(table) \ S}
  BY <1>2, <1>3 DEF Gated, Unresolved, InState
<1>5. Gated(table') \subseteq Gated(table) /\ Gated(table) \ Spent \subseteq Gated(table')
  BY <1>4 DEF Gated
<1>6. Frames' = Frames /\ Spent' = Spent
  BY DEF Frames, AbstractFrame, Current, Spent, ghosts
<1> QED
  BY <1>5, <1>6 DEF Gate!Resolve, Gated, Frames, Spent

(* Settling is the resolution of spent requests. *)
LEMMA SettleRefines ==
  ASSUME IInv, Settle
  PROVE  Gate!Resolve
<1> DEFINE S == Superseded(table, settling) \cup {settling}
<1>1. /\ settling \in Slots
      /\ table[settling].state = "PENDING"
      /\ table[settling].request_id \in established
  BY DEF Settle, IInv, TypeOK, SettlingPending
<1>2. S \in SUBSET Unresolved(table)
  BY <1>1 DEF Superseded, Unresolved, InState
<1>3. \A s \in S : table[s].request_id \in Spent
  BY <1>1 DEF IInv, FateOf, Superseded, InState, Spent
<1>4. table' = Finish(table, S) /\ UNCHANGED <<generation, observer, ghosts>>
  BY DEF Settle
<1> HIDE DEF S
<1> QED
  BY <1>2, <1>3, <1>4, FinishRefines

(* Retirement is the resolution of spent requests. *)
LEMMA RetireFailedRefines ==
  ASSUME IInv, RetireFailed
  PROVE  Gate!Resolve
<1>1. InState(table, "FAILED_GATED") \in SUBSET Unresolved(table)
  BY DEF Unresolved
<1>2. \A s \in InState(table, "FAILED_GATED") : table[s].request_id \in Spent
  BY DEF InState, IInv, FateOf, Spent
<1> QED
  BY <1>1, <1>2, FinishRefines DEF RetireFailed

(* A reset of the table is a reset of the gate: no frame is held. *)
LEMMA ResetRefines ==
  ASSUME IInv, Reset
  PROVE  Gate!Reset
<1>1. Gated(table') = {}
  BY DEF Reset, Gated, Unresolved, InState, FreeRecord
<1>2. \A w \in Observers : AbstractFrame(w).status \notin {"captured", "cleared"}
  BY DEF Reset, AbstractFrame
<1>3. Frames' = Frames /\ UNCHANGED <<generation, ghosts>>
  BY DEF Reset, Frames, AbstractFrame, Current
<1> QED
  BY <1>1, <1>2, <1>3 DEF Gate!Reset, Gated, Frames, ghosts

(* A zero count means that nothing is unresolved. *)
LEMMA OpenMeansResolved ==
  ASSUME IInv, Open
  PROVE  Gated(table) = {}
<1>1. Unresolved(table) \in SUBSET Slots
  BY DEF Unresolved, InState
<1>2. Unresolved(table) = {}
  BY <1>1, SlotsFinite, FS_EmptySet DEF IInv, UnresolvedCountExact, Open
<1> QED
  BY <1>2 DEF Gated

(* A frame check changes one frame and nothing else of the gate. *)
LEMMA ObserveFrames ==
  ASSUME IInv, NEW w \in Observers, NEW from \in ObserverPcs, NEW to \in ObserverPcs,
         Observe(w, from, to)
  PROVE  /\ UNCHANGED <<generation, ghosts, Gated(table)>>
         /\ AbstractFrame(w)' =
              [status |-> CASE to \in {"none", "dispatched", "withheld"} -> to
                            [] to = "recheck_generation" /\ Current(w) -> "cleared"
                            [] OTHER -> "captured",
               boundary |-> observer[w].generation]
         /\ Frames' = [Frames EXCEPT ![w] = AbstractFrame(w)']
<1> USE DEF Observe
<1>1. observer \in [Observers -> [pc : ObserverPcs, generation : Nat]]
  BY DEF IInv, TypeOK
<1>2. UNCHANGED <<table, generation, ghosts, Gated(table)>>
  BY DEF shared, Gated
<1>3. /\ observer'[w].pc = to /\ observer'[w].generation = observer[w].generation
      /\ \A v \in Observers : v # w => observer'[v] = observer[v]
  BY <1>1
<1>4. AbstractFrame(w)' =
              [status |-> CASE to \in {"none", "dispatched", "withheld"} -> to
                            [] to = "recheck_generation" /\ Current(w) -> "cleared"
                            [] OTHER -> "captured",
               boundary |-> observer[w].generation]
  BY <1>2, <1>3 DEF AbstractFrame, Current
<1>5. \A v \in Observers : v # w => AbstractFrame(v)' = AbstractFrame(v)
  BY <1>2, <1>3 DEF AbstractFrame, Current
<1>6. Frames' = [Frames EXCEPT ![w] = AbstractFrame(w)']
  BY <1>5 DEF Frames
<1> QED
  BY <1>2, <1>4, <1>6

(* The four reads of a frame check are a clearance between two stutters. *)
LEMMA ObserverRefines ==
  ASSUME IInv, NEW w \in Observers, ObserverStep(w)
  PROVE  [Gate!Next]_(Gate!vars)
<1> DEFINE f == AbstractFrame(w)
<1>1. Frames[w] = f
  BY DEF Frames
<1>2. ASSUME Capture(w) PROVE \E v \in Observers : Gate!Capture(v)
  <2>1. UNCHANGED <<table, generation, ghosts>>
    BY <1>2 DEF Capture, shared
  <2>2. f.status # "cleared"
    BY <1>2 DEF Capture, AbstractFrame
  <2>3. AbstractFrame(w)' = [status |-> "captured", boundary |-> generation]
    BY <1>2, <2>1 DEF Capture, AbstractFrame, IInv, TypeOK
  <2>4. \A v \in Observers : v # w => AbstractFrame(v)' = AbstractFrame(v)
    BY <1>2, <2>1 DEF Capture, AbstractFrame, Current, IInv, TypeOK
  <2> QED
    BY <2>1, <2>2, <2>3, <2>4 DEF Gate!Capture, ghosts
<1>3. ASSUME NEW from \in {"captured", "read_generation", "recheck_count", "recheck_generation"},
             Observe(w, from, "withheld")
      PROVE  \E v \in Observers : Gate!Withhold(v)
  <2>1. /\ UNCHANGED <<generation, ghosts, Gated(table)>>
        /\ f' = [status |-> "withheld", boundary |-> observer[w].generation]
        /\ Frames' = [Frames EXCEPT ![w] = f']
    BY <1>3, ObserveFrames DEF ObserverPcs
  <2>2. f.status \in {"captured", "cleared"} /\ f' = [f EXCEPT !.status = "withheld"]
    BY <1>3, <2>1 DEF Observe, AbstractFrame
  <2> QED
    BY <2>1, <2>2 DEF Gate!Withhold, ghosts, Gated, Frames
<1>4. ASSUME NEW from \in {"captured", "read_generation"},
             NEW to \in {"read_generation", "recheck_count"},
             Observe(w, from, to)
      PROVE  UNCHANGED Gate!vars
  <2>1. /\ UNCHANGED <<generation, ghosts, Gated(table)>>
        /\ f' = [status |-> "captured", boundary |-> observer[w].generation]
        /\ Frames' = [Frames EXCEPT ![w] = f']
    BY <1>4, ObserveFrames DEF ObserverPcs
  <2>2. f' = f
    BY <1>4, <2>1 DEF Observe, AbstractFrame
  <2>3. Frames' = Frames
    BY <1>1, <2>1, <2>2 DEF Frames
  <2> QED
    BY <2>1, <2>3 DEF Gate!vars, ghosts, Gated, Frames
<1>5. ASSUME Open, Observe(w, "recheck_count", "recheck_generation")
      PROVE  (\E v \in Observers : Gate!Clear(v)) \/ UNCHANGED Gate!vars
  <2>1. /\ UNCHANGED <<generation, ghosts, Gated(table)>>
        /\ f' = [status |-> IF Current(w) THEN "cleared" ELSE "captured",
                 boundary |-> observer[w].generation]
        /\ Frames' = [Frames EXCEPT ![w] = f']
    BY <1>5, ObserveFrames DEF ObserverPcs
  <2>2. f = [status |-> "captured", boundary |-> observer[w].generation]
    BY <1>5 DEF Observe, AbstractFrame
  <2>3. CASE Current(w)
    <3>1. f = [status |-> "captured", boundary |-> generation]
      BY <2>2, <2>3 DEF Current
    <3>2. f' = [f EXCEPT !.status = "cleared"]
      BY <2>1, <2>2, <2>3
    <3>3. Gated(table) = {}
      BY <1>5, OpenMeansResolved
    <3> QED
      BY <2>1, <3>1, <3>2, <3>3 DEF Gate!Clear, ghosts, Gated, Frames
  <2>4. CASE ~ Current(w)
    <3>1. Frames' = Frames
      BY <1>1, <2>1, <2>2, <2>4 DEF Frames
    <3> QED
      BY <2>1, <3>1 DEF Gate!vars, ghosts, Gated, Frames
  <2> QED
    BY <2>3, <2>4
<1>6. ASSUME Current(w), Observe(w, "recheck_generation", "dispatched")
      PROVE  \E v \in Observers : Gate!Dispatch(v)
  <2>1. /\ UNCHANGED <<generation, ghosts, Gated(table)>>
        /\ f' = [status |-> "dispatched", boundary |-> observer[w].generation]
        /\ Frames' = [Frames EXCEPT ![w] = f']
    BY <1>6, ObserveFrames DEF ObserverPcs
  <2>2. f = [status |-> "cleared", boundary |-> generation]
    BY <1>6 DEF Observe, AbstractFrame, Current
  <2>3. f' = [f EXCEPT !.status = "dispatched"]
    BY <1>6, <2>1, <2>2 DEF Current
  <2> QED
    BY <2>1, <2>2, <2>3 DEF Gate!Dispatch, ghosts, Gated, Frames
<1>7. \/ Capture(w)
      \/ \E from \in {"captured", "read_generation", "recheck_count", "recheck_generation"} :
           Observe(w, from, "withheld")
      \/ \E from \in {"captured", "read_generation"}, to \in {"read_generation", "recheck_count"} :
           Observe(w, from, to)
      \/ Open /\ Observe(w, "recheck_count", "recheck_generation")
      \/ Current(w) /\ Observe(w, "recheck_generation", "dispatched")
  BY DEF ObserverStep, CheckCount, CheckGeneration, RecheckCount, RecheckGeneration
<1> QED
  BY <1>2, <1>3, <1>4, <1>5, <1>6, <1>7 DEF Gate!Next

(* Every step of the table is a step of the gate, or changes nothing of it. *)
LEMMA StepRefines == IInv /\ [Next]_vars => [Gate!Next]_(Gate!vars)
<1> SUFFICES ASSUME IInv, [Next]_vars PROVE [Gate!Next]_(Gate!vars)
  OBVIOUS
<1>1. ASSUME NEW o \in Owners, OwnerStep(o) PROVE [Gate!Next]_(Gate!vars)
  <2>1. CASE BeginId(o) \/ BeginRefused(o)
    <3>1. UNCHANGED <<table, generation, observer, ghosts>>
      BY <2>1 DEF BeginId, BeginRefused, shared
    <3> QED
      BY <3>1 DEF Gate!vars, Unresolved, InState, AbstractFrame, Current, ghosts
  <2>2. CASE BeginSlot(o)
    BY <2>2, BeginSlotRefines DEF Gate!Next
  <2>3. CASE MarkReady(o) \/ \E result \in {"OK", "FAILED"} : Complete(o, result)
    BY <2>3, MarkReadyReports, CompleteReports, ReportRefines
  <2> QED
    BY <1>1, <2>1, <2>2, <2>3 DEF OwnerStep
<1>2. ASSUME NEW s \in Slots, PublishOk(s) \/ PublishFailed(s)
      PROVE  [Gate!Next]_(Gate!vars)
  BY <1>2, PublishOkReports, PublishFailedReports, ReportRefines
<1>3. CASE Settle \/ RetireFailed
  BY <1>3, SettleRefines, RetireFailedRefines DEF Gate!Next
<1>4. CASE Reset
  BY <1>4, ResetRefines DEF Gate!Next
<1>5. CASE UNCHANGED vars
  BY <1>5 DEF vars, Gate!vars, Unresolved, InState, AbstractFrame, Current
<1> QED
  BY <1>1, <1>2, <1>3, <1>4, <1>5, ObserverRefines DEF Next

(* The table, its counter and the four lock-free reads implement the gate: *)
(* a frame is dispatched only if no tune was unresolved at some instant    *)
(* during its check and no newer boundary has been set since.              *)
THEOREM TableImplementsGate == Spec => GateSpec
BY GateInit, StepRefines, Invariance, PTL DEF Spec, GateSpec, Gate!Spec

=============================================================================
