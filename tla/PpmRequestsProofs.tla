-------------------------- MODULE PpmRequestsProofs --------------------------
(***************************************************************************)
(* A refused correction is taken back, tried once more at most, and nothing *)
(* else is ever taken back.  The argument follows one identity, the         *)
(* desired one: once it has been refused its rollback is due, and before   *)
(* the reader has passed the flag it can schedule it only once.            *)
(***************************************************************************)
EXTENDS PpmRequests, TLAPS

(* Tries of a request the device may still see, and those it has refused.   *)
Tries(id) ==
  refused[id] + (IF controller = "apply" /\ active.id = id THEN 1 ELSE 0)
              + (IF queued.pending /\ queued.id = id THEN 1 ELSE 0)

(* An identity is spent for a publication, or for a refusal taken back.     *)
Counted ==
  /\ requested.id + (IF refused[requested.id] > 0 THEN 1 ELSE 0) <= published + refusals
  /\ \A id \in Ids : refused[id] <= refusals

(* Requests are queued, taken and refused in the order they are published.  *)
Ordered ==
  /\ queued.id <= requested.id /\ active.id <= requested.id
  /\ active.pending <=> controller # "wait"
  /\ queued.pending /\ active.pending => active.id <= queued.id
  /\ queued.pending /\ queued.id = requested.id => queued.ppm = requested.ppm
  /\ active.pending /\ active.id = requested.id => active.ppm = requested.ppm
  /\ reader.requested.id <= requested.id
  /\ \A id \in Ids : refused[id] > 0 =>
       /\ id <= requested.id
       /\ active.pending => id <= active.id
       /\ queued.pending => id <= queued.id

(* The identity beside the flag is one the device refused.                  *)
RefusalKnown ==
  /\ failure.pending \/ reader.pc \in {"applied", "snapshot", "failed"} =>
       refused[failure.id] > 0
  /\ reader.pc = "rollback" => refused[reader.requested.id] > 0
  /\ controller \in {"noted", "failed"} => refused[active.id] > 0
  /\ controller = "failed" => failure.id = active.id

(* The desired request was refused, and nothing can hide it from the reader. *)
RollbackDue ==
  /\ failure.id = requested.id
  /\ \/ failure.pending
     \/ reader.pc \in {"applied", "snapshot"}
     \/ reader.pc \in {"failed", "rollback"} /\ reader.requested.id = requested.id

FirstRefusalInHand ==
  /\ controller \in {"noted", "failed"} /\ active.id = requested.id
  /\ Tries(requested.id) = 1

TriedTwice ==
  /\ \A id \in Ids : Tries(id) <= 2
  /\ refused[requested.id] > 0 => RollbackDue \/ FirstRefusalInHand
  /\ Tries(requested.id) = 2 =>
       refused[requested.id] > 0 /\ reader.pc \notin {"adjust", "publish", "load", "schedule"}
  /\ reader.pc \in {"failed", "rollback"} /\ reader.requested.id # requested.id =>
       Tries(requested.id) = 0

IInv == TypeOK /\ Counted /\ Ordered /\ RefusalKnown /\ TriedTwice

-----------------------------------------------------------------------------
(* What the steps that draw an identity, and the one that refuses, do. *)

(* An empty slot has the type of a slot. *)
LEMMA EmptySlot == Empty \in Slots /\ ~ Empty.pending /\ Empty.id = 0 /\ Empty.ppm = 0
BY PpmAssumption, SMT DEF Empty, Slots, Ppms, Ids

(* Where identities are read they are identities. *)
LEMMA IdOfRequest ==
  ASSUME TypeOK
  PROVE  requested.id \in Nat /\ active.id \in Ids /\ queued.id \in Ids /\ requested.id \in Ids
BY PpmAssumption DEF TypeOK, Requests, Slots, Ids

(* A publication draws the next identity, and there is one. *)
LEMMA PublishDraws ==
  ASSUME TypeOK, Counted, NEW ppm \in Int, Publish(ppm)
  PROVE  /\ requested' \in Requests /\ requested'.id = requested.id + 1
         /\ published' = published + 1 /\ published' \in 0 .. MaxPublished
<1>1. Clamp(ppm) \in Ppms  BY PpmAssumption DEF Clamp, Ppms
<1>2. requested.id \in Nat /\ refused[requested.id] \in Nat
  BY PpmAssumption DEF TypeOK, Requests, Ids
<1>3. published < MaxPublished /\ published' = published + 1
  BY DEF Publish
<1>4. published \in Nat /\ refusals \in Nat /\ refusals <= MaxRefusals
  BY PpmAssumption DEF TypeOK
<1>5. requested.id <= published + refusals  BY <1>2, <1>4 DEF Counted
<1>6. requested.id + 1 \in Ids  BY PpmAssumption, <1>2, <1>3, <1>4, <1>5 DEF Ids
<1>7. requested' = [ppm |-> Clamp(ppm), id |-> requested.id + 1]  BY DEF Publish
<1>8. QED  BY PpmAssumption, <1>1, <1>3, <1>4, <1>6, <1>7 DEF Requests

(* A user's request does nothing else. *)
LEMMA UserDraws ==
  ASSUME TypeOK, Counted, User
  PROVE  /\ requested' \in Requests /\ requested'.id = requested.id + 1
         /\ published' = published + 1 /\ published' \in 0 .. MaxPublished
         /\ UNCHANGED <<applied, failure, queued, active, controller, reader, refused, refusals>>
<1>1. requested.ppm \in Int  BY PpmAssumption DEF TypeOK, Requests, Ppms
<1>2. \E ppm \in Int : Publish(ppm)
  <2>1. CASE \E ppm \in Ppms : Publish(ppm)
    BY <2>1, PpmAssumption DEF Ppms
  <2>2. CASE \E delta \in {-1, 1} : Publish(requested.ppm + delta)
    BY <2>2, <1>1
  <2>3. QED  BY <2>1, <2>2 DEF User
<1>3. QED  BY <1>2, PublishDraws DEF User

(* The auto correction publishes, or has nothing left to publish. *)
LEMMA AdjustDraws ==
  ASSUME TypeOK, Counted, AdjustPublish
  PROVE  /\ \/ /\ requested' \in Requests /\ requested'.id = requested.id + 1
               /\ published' = published + 1 /\ published' \in 0 .. MaxPublished
            \/ requested' = requested /\ published' = published
         /\ reader.pc = "publish" /\ reader' = [reader EXCEPT !.pc = "load"]
         /\ UNCHANGED <<failure, queued, applied, active, controller, refused, refusals>>
<1>1. CASE \E ppm \in Ppms : Publish(ppm)
  <2>1. PICK ppm \in Ppms : Publish(ppm)  BY <1>1
  <2>2. ppm \in Int  BY PpmAssumption DEF Ppms
  <2>3. QED  BY <2>1, <2>2, PublishDraws DEF AdjustPublish, Goto, OthersOfReader
<1>2. CASE UNCHANGED <<requested, published>>
  BY <1>2 DEF AdjustPublish, Goto, OthersOfReader
<1>3. QED  BY <1>1, <1>2 DEF AdjustPublish

(* A rollback draws an identity for the refused one, if it is the newest. *)
LEMMA RollBackDraws ==
  ASSUME TypeOK, Counted, RefusalKnown, RollBack
  PROVE  /\ IF requested.id = reader.requested.id
            THEN /\ requested' \in Requests /\ requested'.id = requested.id + 1
                 /\ refused[requested.id] > 0
            ELSE requested' = requested
         /\ reader.pc = "rollback" /\ reader' = [reader EXCEPT !.pc = "adjust"]
         /\ UNCHANGED <<published, failure, queued, applied, active, controller, refused, refusals>>
<1>1. CASE requested.id = reader.requested.id
  <2>1. requested' = [ppm |-> reader.applied, id |-> requested.id + 1]
    BY <1>1 DEF RollBack
  <2>2. refused[requested.id] > 0  BY <1>1 DEF RefusalKnown, RollBack
  <2>3. reader.applied \in Ppms /\ requested.id \in Nat
    BY PpmAssumption DEF TypeOK, Requests, Ids
  <2>4. requested.id + 1 <= published + refusals  BY <2>2 DEF Counted
  <2>5. published <= MaxPublished /\ refusals <= MaxRefusals /\ published \in Nat /\ refusals \in Nat
    BY PpmAssumption DEF TypeOK
  <2>6. requested.id + 1 \in Ids  BY PpmAssumption, <2>3, <2>4, <2>5 DEF Ids
  <2>7. QED  BY <1>1, <2>1, <2>2, <2>3, <2>6 DEF RollBack, Goto, OthersOfReader, Requests
<1>2. CASE requested.id # reader.requested.id
  BY <1>2 DEF RollBack, Goto, OthersOfReader
<1>3. QED  BY <1>1, <1>2

(* A refusal counts for the active request and for no other. *)
LEMMA RefuseCounts ==
  ASSUME TypeOK, Counted, Refuse
  PROVE  /\ \A id \in Ids : refused'[id] = IF id = active.id THEN refused[id] + 1 ELSE refused[id]
         /\ \A id \in Ids : refused[id] \in Nat /\ refused'[id] \in 0 .. MaxRefusals
         /\ refused' \in [Ids -> 0 .. MaxRefusals]
         /\ refusals' = refusals + 1 /\ refusals' \in 0 .. MaxRefusals
         /\ controller = "apply" /\ controller' = "noted"
         /\ UNCHANGED <<applied, failure, queued, active, requested, published, reader>>
<1>1. refusals' = refusals + 1 /\ refusals' \in 0 .. MaxRefusals /\ refusals \in Nat
  BY PpmAssumption DEF Refuse, TypeOK
<1>2. \A id \in Ids : refused'[id] = IF id = active.id THEN refused[id] + 1 ELSE refused[id]
  BY IdOfRequest DEF Refuse, TypeOK
<1>3. \A id \in Ids : refused[id] \in Nat /\ refused[id] <= refusals
  BY PpmAssumption DEF TypeOK, Counted
<1>4. \A id \in Ids : refused'[id] \in 0 .. MaxRefusals
  BY PpmAssumption, <1>1, <1>2, <1>3 DEF Counted
<1>5. refused' \in [Ids -> 0 .. MaxRefusals]
  BY <1>4 DEF Refuse, TypeOK
<1>6. QED  BY <1>1, <1>2, <1>3, <1>4, <1>5 DEF Refuse, OthersOfController

-----------------------------------------------------------------------------
(* The invariant is inductive. *)

(* The fields arithmetic is done on. *)
LEMMA FieldTypes ==
  ASSUME TypeOK
  PROVE  /\ requested.id \in Nat /\ queued.id \in Nat /\ active.id \in Nat
         /\ reader.requested.id \in Nat /\ reader.requested.id \in Ids /\ failure.id \in Ids
         /\ published \in Nat /\ refusals \in Nat
         /\ \A id \in Ids : refused[id] \in Nat /\ id \in Nat
BY PpmAssumption DEF TypeOK, Requests, Slots, Ids

(* A fresh identity has not been refused, and nobody tries it. *)
LEMMA FreshUntried ==
  ASSUME TypeOK, TypeOK', Ordered, requested'.id = requested.id + 1,
         refused' = refused, queued' = queued, active' = active, controller' = controller
  PROVE  /\ requested'.id \in Ids /\ refused'[requested'.id] = 0
         /\ Tries(requested.id)' = 0
<1>1. requested'.id \in Ids  BY DEF TypeOK, Requests
<1>2. requested.id \in Nat /\ queued.id \in Nat /\ active.id \in Nat  BY FieldTypes
<1>3. refused[requested'.id] \in Nat  BY <1>1, FieldTypes
<1>4. ~ (refused[requested'.id] > 0)  BY <1>1, <1>2 DEF Ordered
<1>5. queued.id # requested'.id /\ active.id # requested'.id  BY <1>2 DEF Ordered
<1>6. QED  BY <1>1, <1>3, <1>4, <1>5 DEF Tries

(* Tries are counted. *)
LEMMA TriesIsNat ==
  ASSUME TypeOK
  PROVE  \A id \in Ids : Tries(id) \in Nat
BY FieldTypes DEF Tries

(* No identity is spent beyond the publications and the refusals. *)
LEMMA TypePreserved ==
  ASSUME TypeOK, Counted, RefusalKnown, [Next]_vars
  PROVE  TypeOK'
<1>1. CASE User
  BY <1>1, UserDraws, PpmAssumption DEF TypeOK, Ppms, Ids, Requests, Slots
<1>2. CASE ReadFailure
  BY <1>2, PpmAssumption DEF ReadFailure, Goto, OthersOfReader, TypeOK, Ppms, Ids, Requests, Slots
<1>3. CASE ReadApplied
  BY <1>3, PpmAssumption DEF ReadApplied, OthersOfReader, TypeOK, Ppms, Ids, Requests, Slots
<1>4. CASE ReadRequested
  BY <1>4, PpmAssumption DEF ReadRequested, OthersOfReader, TypeOK, Ppms, Ids, Requests, Slots
<1>5. CASE ReadFailed
  BY <1>5, PpmAssumption DEF ReadFailed, IsRefused, OthersOfReader, TypeOK, Ppms, Ids, Requests, Slots
<1>6. CASE RollBack
  BY <1>6, RollBackDraws, PpmAssumption DEF TypeOK, Ppms, Ids, Requests, Slots
<1>7. CASE Adjust
  BY <1>7, PpmAssumption DEF Adjust, Goto, OthersOfReader, TypeOK, Ppms, Ids, Requests, Slots
<1>8. CASE AdjustPublish
  BY <1>8, AdjustDraws, PpmAssumption DEF TypeOK, Ppms, Ids, Requests, Slots
<1>9. CASE LoadApplied
  BY <1>9, PpmAssumption DEF LoadApplied, OthersOfReader, TypeOK, Ppms, Ids, Requests, Slots
<1>10. CASE Schedule
  BY <1>10, PpmAssumption DEF Schedule, Goto, OthersOfReader, TypeOK, Ppms, Ids, Requests, Slots
<1>11. CASE Take
  BY <1>11, PpmAssumption DEF Take, OthersOfController, TypeOK, Ppms, Ids, Requests, Slots
<1>12. CASE Accept
  BY <1>12, PpmAssumption DEF Accept, OthersOfController, TypeOK, Ppms, Ids, Requests, Slots
<1>13. CASE Refuse
  BY <1>13, RefuseCounts, PpmAssumption DEF TypeOK, Ppms, Ids, Requests, Slots
<1>14. CASE NoteIdentity
  BY <1>14, PpmAssumption DEF NoteIdentity, OthersOfController, TypeOK, Ppms, Ids, Requests, Slots
<1>15. CASE NoteFlag
  BY <1>15, PpmAssumption DEF NoteFlag, OthersOfController, TypeOK, Ppms, Ids, Requests, Slots
<1>16. CASE ClearActive
  BY <1>16, EmptySlot, PpmAssumption DEF ClearActive, OthersOfController, TypeOK, Ppms, Ids, Requests, Slots
<1>17. CASE UNCHANGED vars
  BY <1>17 DEF vars, TypeOK, Ppms, Ids, Requests, Slots
<1>18. QED  BY <1>1, <1>2, <1>3, <1>4, <1>5, <1>6, <1>7, <1>8, <1>9, <1>10, <1>11, <1>12, <1>13, <1>14, <1>15, <1>16, <1>17 DEF Next, Reader, Controller

(* A rollback pays with the refusal of the identity it gives up. *)
LEMMA CountedPreserved ==
  ASSUME TypeOK, TypeOK', Counted, Ordered, RefusalKnown, [Next]_vars
  PROVE  Counted'
<1>1. CASE User
  <2>1. refused'[requested'.id] = 0  BY <1>1, UserDraws, FreshUntried
  <2>2. QED  BY <1>1, <2>1, UserDraws, FieldTypes DEF Counted
<1>2. CASE ReadFailure
  BY <1>2, PpmAssumption DEF ReadFailure, Goto, OthersOfReader, TypeOK, Counted, Ordered, Ppms, Ids, Requests, Slots
<1>3. CASE ReadApplied
  BY <1>3, PpmAssumption DEF ReadApplied, OthersOfReader, TypeOK, Counted, Ordered, Ppms, Ids, Requests, Slots
<1>4. CASE ReadRequested
  BY <1>4, PpmAssumption DEF ReadRequested, OthersOfReader, TypeOK, Counted, Ordered, Ppms, Ids, Requests, Slots
<1>5. CASE ReadFailed
  BY <1>5, PpmAssumption DEF ReadFailed, IsRefused, OthersOfReader, TypeOK, Counted, Ordered, Ppms, Ids, Requests, Slots
<1>6. CASE RollBack
  <2>1. CASE requested.id = reader.requested.id
    <3>1. refused'[requested'.id] = 0  BY <1>6, <2>1, RollBackDraws, FreshUntried
    <3>2. QED  BY <1>6, <2>1, <3>1, RollBackDraws, FieldTypes DEF Counted
  <2>2. CASE requested.id # reader.requested.id
    BY <1>6, <2>2, RollBackDraws, FieldTypes DEF Counted
  <2>3. QED  BY <2>1, <2>2
<1>7. CASE Adjust
  BY <1>7, PpmAssumption DEF Adjust, Goto, OthersOfReader, TypeOK, Counted, Ordered, Ppms, Ids, Requests, Slots
<1>8. CASE AdjustPublish
  <2>1. CASE requested'.id = requested.id + 1
    <3>1. refused'[requested'.id] = 0  BY <1>8, <2>1, AdjustDraws, FreshUntried
    <3>2. QED  BY <1>8, <2>1, <3>1, AdjustDraws, FieldTypes DEF Counted
  <2>2. CASE requested' = requested
    BY <1>8, <2>2, AdjustDraws, FieldTypes DEF Counted
  <2>3. QED  BY <1>8, <2>1, <2>2, AdjustDraws
<1>9. CASE LoadApplied
  BY <1>9, PpmAssumption DEF LoadApplied, OthersOfReader, TypeOK, Counted, Ordered, Ppms, Ids, Requests, Slots
<1>10. CASE Schedule
  BY <1>10, PpmAssumption DEF Schedule, Goto, OthersOfReader, TypeOK, Counted, Ordered, Ppms, Ids, Requests, Slots
<1>11. CASE Take
  BY <1>11, PpmAssumption DEF Take, OthersOfController, TypeOK, Counted, Ordered, Ppms, Ids, Requests, Slots
<1>12. CASE Accept
  BY <1>12, PpmAssumption DEF Accept, OthersOfController, TypeOK, Counted, Ordered, Ppms, Ids, Requests, Slots
<1>13. CASE Refuse
  <2>1. requested.id \in Ids /\ refused[requested.id] \in Nat  BY IdOfRequest, FieldTypes
  <2>2. refused'[requested'.id] \in {refused[requested.id], refused[requested.id] + 1}
    BY <1>13, <2>1, RefuseCounts
  <2>3. refused'[requested'.id] > 0 => refused[requested.id] > 0 \/ refusals' = refusals + 1
    BY <1>13, RefuseCounts
  <2>4. requested'.id + (IF refused'[requested'.id] > 0 THEN 1 ELSE 0) <= published' + refusals'
    BY <1>13, <2>1, RefuseCounts, FieldTypes DEF Counted
  <2>5. \A id \in Ids : refused'[id] <= refusals'
    BY <1>13, RefuseCounts, FieldTypes DEF Counted
  <2>6. QED  BY <2>4, <2>5 DEF Counted
<1>14. CASE NoteIdentity
  BY <1>14, PpmAssumption DEF NoteIdentity, OthersOfController, TypeOK, Counted, Ordered, Ppms, Ids, Requests, Slots
<1>15. CASE NoteFlag
  BY <1>15, PpmAssumption DEF NoteFlag, OthersOfController, TypeOK, Counted, Ordered, Ppms, Ids, Requests, Slots
<1>16. CASE ClearActive
  BY <1>16, EmptySlot, PpmAssumption DEF ClearActive, OthersOfController, TypeOK, Counted, Ordered, Ppms, Ids, Requests, Slots
<1>17. CASE UNCHANGED vars
  BY <1>17 DEF vars, TypeOK, Counted, Ordered, Ppms, Ids, Requests, Slots
<1>18. QED  BY <1>1, <1>2, <1>3, <1>4, <1>5, <1>6, <1>7, <1>8, <1>9, <1>10, <1>11, <1>12, <1>13, <1>14, <1>15, <1>16, <1>17 DEF Next, Reader, Controller

(* Only the reader schedules, and what it schedules is the newest. *)
LEMMA OrderedPreserved ==
  ASSUME TypeOK, TypeOK', Counted, Ordered, RefusalKnown, [Next]_vars
  PROVE  Ordered'
<1>1. CASE User
  BY <1>1, UserDraws, FieldTypes DEF Ordered
<1>2. CASE ReadFailure
  BY <1>2, PpmAssumption DEF ReadFailure, Goto, OthersOfReader, TypeOK, Ordered, Ppms, Ids, Requests, Slots
<1>3. CASE ReadApplied
  BY <1>3, PpmAssumption DEF ReadApplied, OthersOfReader, TypeOK, Ordered, Ppms, Ids, Requests, Slots
<1>4. CASE ReadRequested
  BY <1>4, PpmAssumption DEF ReadRequested, OthersOfReader, TypeOK, Ordered, Ppms, Ids, Requests, Slots
<1>5. CASE ReadFailed
  BY <1>5, PpmAssumption DEF ReadFailed, IsRefused, OthersOfReader, TypeOK, Ordered, Ppms, Ids, Requests, Slots
<1>6. CASE RollBack
  <2>1. CASE requested.id = reader.requested.id
    BY <1>6, <2>1, RollBackDraws, FieldTypes DEF Ordered, TypeOK
  <2>2. CASE requested.id # reader.requested.id
    BY <1>6, <2>2, RollBackDraws, FieldTypes DEF Ordered, TypeOK
  <2>3. QED  BY <2>1, <2>2
<1>7. CASE Adjust
  BY <1>7, PpmAssumption DEF Adjust, Goto, OthersOfReader, TypeOK, Ordered, Ppms, Ids, Requests, Slots
<1>8. CASE AdjustPublish
  <2>1. CASE requested'.id = requested.id + 1
    BY <1>8, <2>1, AdjustDraws, FieldTypes DEF Ordered, TypeOK
  <2>2. CASE requested' = requested
    BY <1>8, <2>2, AdjustDraws, FieldTypes DEF Ordered, TypeOK
  <2>3. QED  BY <1>8, <2>1, <2>2, AdjustDraws
<1>9. CASE LoadApplied
  BY <1>9, PpmAssumption DEF LoadApplied, OthersOfReader, TypeOK, Ordered, Ppms, Ids, Requests, Slots
<1>10. CASE Schedule
  <2>1. reader'.requested = reader.requested  BY <1>10 DEF Schedule, Goto, TypeOK
  <2>2. CASE ShouldSchedule
    <3>1. queued' = [pending |-> TRUE, ppm |-> requested.ppm, id |-> requested.id]
      BY <1>10, <2>2 DEF Schedule
    <3>2. QED  BY <1>10, <2>1, <3>1, FieldTypes DEF Schedule, OthersOfReader, Ordered
  <2>3. CASE ~ ShouldSchedule
    <3>1. queued' = queued  BY <1>10, <2>3 DEF Schedule
    <3>2. QED  BY <1>10, <2>1, <3>1 DEF Schedule, OthersOfReader, Ordered
  <2>4. QED  BY <2>2, <2>3
<1>11. CASE Take
  BY <1>11, PpmAssumption DEF Take, OthersOfController, TypeOK, Ordered, Ppms, Ids, Requests, Slots
<1>12. CASE Accept
  BY <1>12, PpmAssumption DEF Accept, OthersOfController, TypeOK, Ordered, Ppms, Ids, Requests, Slots
<1>13. CASE Refuse
  <2>1. active.pending /\ active'.pending /\ controller' # "wait"
    BY <1>13, RefuseCounts DEF Ordered
  <2>2. active.id <= requested.id /\ (queued.pending => active.id <= queued.id)
    BY <2>1 DEF Ordered
  <2>3. \A id \in Ids : refused'[id] > 0 => id = active.id \/ refused[id] > 0
    BY <1>13, RefuseCounts
  <2>4. QED  BY <1>13, <2>1, <2>2, <2>3, RefuseCounts, FieldTypes DEF Ordered
<1>14. CASE NoteIdentity
  BY <1>14, PpmAssumption DEF NoteIdentity, OthersOfController, TypeOK, Ordered, Ppms, Ids, Requests, Slots
<1>15. CASE NoteFlag
  BY <1>15, PpmAssumption DEF NoteFlag, OthersOfController, TypeOK, Ordered, Ppms, Ids, Requests, Slots
<1>16. CASE ClearActive
  BY <1>16, EmptySlot, PpmAssumption DEF ClearActive, OthersOfController, TypeOK, Ordered, Ppms, Ids, Requests, Slots
<1>17. CASE UNCHANGED vars
  BY <1>17 DEF vars, TypeOK, Ordered, Ppms, Ids, Requests, Slots
<1>18. QED  BY <1>1, <1>2, <1>3, <1>4, <1>5, <1>6, <1>7, <1>8, <1>9, <1>10, <1>11, <1>12, <1>13, <1>14, <1>15, <1>16, <1>17 DEF Next, Reader, Controller

(* The identity is stored before the flag, and refusals are not forgotten. *)
LEMMA RefusalKnownPreserved ==
  ASSUME TypeOK, TypeOK', Counted, Ordered, RefusalKnown, [Next]_vars
  PROVE  RefusalKnown'
<1>1. CASE User
  BY <1>1, UserDraws, PpmAssumption DEF TypeOK, Ordered, RefusalKnown, Ppms, Ids, Requests, Slots
<1>2. CASE ReadFailure
  BY <1>2, PpmAssumption DEF ReadFailure, Goto, OthersOfReader, TypeOK, Ordered, RefusalKnown, Ppms, Ids, Requests, Slots
<1>3. CASE ReadApplied
  BY <1>3, PpmAssumption DEF ReadApplied, OthersOfReader, TypeOK, Ordered, RefusalKnown, Ppms, Ids, Requests, Slots
<1>4. CASE ReadRequested
  BY <1>4, PpmAssumption DEF ReadRequested, OthersOfReader, TypeOK, Ordered, RefusalKnown, Ppms, Ids, Requests, Slots
<1>5. CASE ReadFailed
  BY <1>5, PpmAssumption DEF ReadFailed, IsRefused, OthersOfReader, TypeOK, Ordered, RefusalKnown, Ppms, Ids, Requests, Slots
<1>6. CASE RollBack
  BY <1>6, RollBackDraws, PpmAssumption DEF TypeOK, Ordered, RefusalKnown, Ppms, Ids, Requests, Slots
<1>7. CASE Adjust
  BY <1>7, PpmAssumption DEF Adjust, Goto, OthersOfReader, TypeOK, Ordered, RefusalKnown, Ppms, Ids, Requests, Slots
<1>8. CASE AdjustPublish
  BY <1>8, AdjustDraws, PpmAssumption DEF TypeOK, Ordered, RefusalKnown, Ppms, Ids, Requests, Slots
<1>9. CASE LoadApplied
  BY <1>9, PpmAssumption DEF LoadApplied, OthersOfReader, TypeOK, Ordered, RefusalKnown, Ppms, Ids, Requests, Slots
<1>10. CASE Schedule
  BY <1>10, PpmAssumption DEF Schedule, Goto, OthersOfReader, TypeOK, Ordered, RefusalKnown, Ppms, Ids, Requests, Slots
<1>11. CASE Take
  BY <1>11, PpmAssumption DEF Take, OthersOfController, TypeOK, Ordered, RefusalKnown, Ppms, Ids, Requests, Slots
<1>12. CASE Accept
  BY <1>12, PpmAssumption DEF Accept, OthersOfController, TypeOK, Ordered, RefusalKnown, Ppms, Ids, Requests, Slots
<1>13. CASE Refuse
  <2>1. \A id \in Ids : refused[id] > 0 => refused'[id] > 0
    BY <1>13, RefuseCounts, FieldTypes
  <2>2. refused'[active.id] > 0  BY <1>13, RefuseCounts, IdOfRequest, FieldTypes
  <2>3. QED  BY <1>13, <2>1, <2>2, RefuseCounts, FieldTypes DEF RefusalKnown
<1>14. CASE NoteIdentity
  BY <1>14, PpmAssumption DEF NoteIdentity, OthersOfController, TypeOK, Ordered, RefusalKnown, Ppms, Ids, Requests, Slots
<1>15. CASE NoteFlag
  <2>1. failure'.id = failure.id /\ refused[failure.id] > 0
    BY <1>15 DEF NoteFlag, RefusalKnown, TypeOK
  <2>2. QED  BY <1>15, <2>1 DEF NoteFlag, OthersOfController, RefusalKnown
<1>16. CASE ClearActive
  BY <1>16, EmptySlot, PpmAssumption DEF ClearActive, OthersOfController, TypeOK, Ordered, RefusalKnown, Ppms, Ids, Requests, Slots
<1>17. CASE UNCHANGED vars
  BY <1>17 DEF vars, TypeOK, Ordered, RefusalKnown, Ppms, Ids, Requests, Slots
<1>18. QED  BY <1>1, <1>2, <1>3, <1>4, <1>5, <1>6, <1>7, <1>8, <1>9, <1>10, <1>11, <1>12, <1>13, <1>14, <1>15, <1>16, <1>17 DEF Next, Reader, Controller

(* From a first refusal to its rollback the reader schedules it only once. *)
LEMMA TriedTwicePreserved ==
  ASSUME TypeOK, TypeOK', Counted, Ordered, RefusalKnown, TriedTwice, [Next]_vars
  PROVE  TriedTwice'
<1>1. CASE User
  <2>1. Tries(requested.id)' = 0 /\ refused'[requested'.id] = 0
    BY <1>1, UserDraws, FreshUntried
  <2>2. \A id \in Ids : Tries(id)' = Tries(id)  BY <1>1, UserDraws DEF Tries
  <2>3. QED  BY <2>1, <2>2 DEF TriedTwice
<1>2. CASE ReadFailure
  BY <1>2, PpmAssumption DEF ReadFailure, Goto, OthersOfReader, TypeOK, Ordered, RefusalKnown, TriedTwice, RollbackDue, FirstRefusalInHand, Tries, Ppms, Ids, Requests, Slots
<1>3. CASE ReadApplied
  BY <1>3, PpmAssumption DEF ReadApplied, OthersOfReader, TypeOK, Ordered, RefusalKnown, TriedTwice, RollbackDue, FirstRefusalInHand, Tries, Ppms, Ids, Requests, Slots
<1>4. CASE ReadRequested
  BY <1>4, PpmAssumption DEF ReadRequested, OthersOfReader, TypeOK, Ordered, RefusalKnown, TriedTwice, RollbackDue, FirstRefusalInHand, Tries, Ppms, Ids, Requests, Slots
<1>5. CASE ReadFailed
  <2>1. Tries(requested.id)' = Tries(requested.id) /\ \A id \in Ids : Tries(id)' = Tries(id)
    BY <1>5 DEF ReadFailed, OthersOfReader, Tries
  <2>2. reader.pc = "failed" /\ reader'.requested = reader.requested
    BY <1>5 DEF ReadFailed, TypeOK
  <2>3. reader'.pc = IF reader.requested.id = failure.id THEN "rollback" ELSE "adjust"
    BY <1>5 DEF ReadFailed, IsRefused, TypeOK
  <2>4. UNCHANGED <<requested, failure, refused, controller, active>>
    BY <1>5 DEF ReadFailed, OthersOfReader
  <2>5. CASE refused[requested.id] > 0
    <3>1. Tries(requested.id) # 0  BY <2>5, FieldTypes, IdOfRequest DEF Tries
    <3>2. reader.requested.id = requested.id  BY <2>2, <3>1 DEF TriedTwice
    <3>3. CASE RollbackDue
      BY <2>1, <2>2, <2>3, <2>4, <2>5, <3>2, <3>3 DEF TriedTwice, RollbackDue
    <3>4. CASE FirstRefusalInHand
      BY <2>1, <2>2, <2>3, <2>4, <2>5, <3>2, <3>4 DEF TriedTwice, FirstRefusalInHand
    <3>5. QED  BY <2>5, <3>3, <3>4 DEF TriedTwice
  <2>6. CASE ~ (refused[requested.id] > 0)
    BY <2>1, <2>2, <2>3, <2>4, <2>6 DEF TriedTwice
  <2>7. QED  BY <2>5, <2>6
<1>6. CASE RollBack
  <2>1. CASE requested.id = reader.requested.id
    <3>1. Tries(requested.id)' = 0 /\ refused'[requested'.id] = 0
      BY <1>6, <2>1, RollBackDraws, FreshUntried
    <3>2. \A id \in Ids : Tries(id)' = Tries(id)  BY <1>6, RollBackDraws DEF Tries
    <3>3. QED  BY <3>1, <3>2 DEF TriedTwice
  <2>2. CASE requested.id # reader.requested.id
    <3>1. Tries(requested.id)' = Tries(requested.id) /\ \A id \in Ids : Tries(id)' = Tries(id)
      BY <1>6, <2>2, RollBackDraws DEF Tries
    <3>2. Tries(requested.id) = 0  BY <1>6, <2>2, RollBackDraws DEF TriedTwice
    <3>3. refused[requested.id] = 0  BY <3>2, FieldTypes, IdOfRequest DEF Tries
    <3>4. QED  BY <1>6, <2>2, <3>1, <3>2, <3>3, RollBackDraws DEF TriedTwice
  <2>3. QED  BY <2>1, <2>2
<1>7. CASE Adjust
  BY <1>7, PpmAssumption DEF Adjust, Goto, OthersOfReader, TypeOK, Ordered, RefusalKnown, TriedTwice, RollbackDue, FirstRefusalInHand, Tries, Ppms, Ids, Requests, Slots
<1>8. CASE AdjustPublish
  <2>1. CASE requested'.id = requested.id + 1
    <3>1. Tries(requested.id)' = 0 /\ refused'[requested'.id] = 0
      BY <1>8, <2>1, AdjustDraws, FreshUntried
    <3>2. \A id \in Ids : Tries(id)' = Tries(id)  BY <1>8, AdjustDraws DEF Tries
    <3>3. QED  BY <3>1, <3>2 DEF TriedTwice
  <2>2. CASE requested' = requested
    <3>1. Tries(requested.id)' = Tries(requested.id) /\ \A id \in Ids : Tries(id)' = Tries(id)
      BY <1>8, <2>2, AdjustDraws DEF Tries
    <3>2. QED
      BY <1>8, <2>2, <3>1, AdjustDraws DEF TriedTwice, RollbackDue, FirstRefusalInHand, TypeOK
  <2>3. QED  BY <1>8, <2>1, <2>2, AdjustDraws
<1>9. CASE LoadApplied
  BY <1>9, PpmAssumption DEF LoadApplied, OthersOfReader, TypeOK, Ordered, RefusalKnown, TriedTwice, RollbackDue, FirstRefusalInHand, Tries, Ppms, Ids, Requests, Slots
<1>10. CASE Schedule
  <2>1. reader.pc = "schedule" /\ reader'.pc = "idle" /\ reader'.requested = reader.requested
    BY <1>10 DEF Schedule, Goto, TypeOK
  <2>2. UNCHANGED <<requested, failure, refused, controller, active>>
    BY <1>10 DEF Schedule, OthersOfReader
  <2>3. Tries(requested.id) # 2 /\ Tries(requested.id) <= 2  BY <2>1, IdOfRequest DEF TriedTwice
  <2>4. CASE ~ ShouldSchedule
    <3>1. queued' = queued  BY <1>10, <2>4 DEF Schedule
    <3>2. Tries(requested.id)' = Tries(requested.id) /\ \A id \in Ids : Tries(id)' = Tries(id)
      BY <2>2, <3>1 DEF Tries
    <3>3. QED
      BY <2>1, <2>2, <2>3, <3>2 DEF TriedTwice, RollbackDue, FirstRefusalInHand
  <2>5. CASE ShouldSchedule
    <3>1. queued' = [pending |-> TRUE, ppm |-> requested.ppm, id |-> requested.id]
      BY <1>10, <2>5 DEF Schedule
    <3>2. ~ (queued.pending /\ queued.id = requested.id)
      BY <2>5 DEF ShouldSchedule, Matches, Ordered, TypeOK, Slots
    <3>3. ~ (active.pending /\ active.id = requested.id)
      <4>1. SUFFICES ASSUME active.pending, active.id = requested.id  PROVE FALSE
        OBVIOUS
      <4>2. Matches(active)  BY <4>1 DEF Matches, Ordered, TypeOK, Slots
      <4>3. queued.pending  BY <2>5, <4>2 DEF ShouldSchedule
      <4>4. queued.id = requested.id  BY <4>1, <4>3, FieldTypes DEF Ordered
      <4>5. QED  BY <3>2, <4>3, <4>4
    <3>4. controller # "wait" => active.id # requested.id
      BY <3>3 DEF Ordered
    <3>5. Tries(requested.id) = refused[requested.id] /\ refused[requested.id] \in Nat
      BY <3>2, <3>4, FieldTypes, IdOfRequest DEF Tries
    <3>6. Tries(requested.id)' = refused[requested.id] + 1
      BY <2>2, <3>1, <3>4, <3>5 DEF Tries
    <3>7. \A id \in Ids : id # requested.id => Tries(id)' <= Tries(id)
      BY <2>2, <3>1, FieldTypes DEF Tries
    <3>8. \A id \in Ids : Tries(id)' <= 2
      <4>1. TAKE id \in Ids
      <4>2. CASE id = requested.id
        <5>1. Tries(id)' = refused[requested.id] + 1  BY <2>2, <3>6, <4>2 DEF Tries
        <5>2. QED  BY <2>3, <3>5, <5>1
      <4>3. CASE id # requested.id
        <5>1. Tries(id) \in Nat /\ Tries(id)' \in Nat /\ Tries(id) <= 2
          BY TriesIsNat, FieldTypes, <2>2, <3>1 DEF TriedTwice, Tries
        <5>2. QED  BY <3>7, <4>3, <5>1
      <4>4. QED  BY <4>2, <4>3
    <3>9. refused[requested.id] > 0 => failure.pending /\ failure.id = requested.id
      BY <2>1, <3>4 DEF TriedTwice, RollbackDue, FirstRefusalInHand
    <3>10. QED
      BY <2>1, <2>2, <2>3, <3>5, <3>6, <3>8, <3>9 DEF TriedTwice, RollbackDue
  <2>6. QED  BY <2>4, <2>5
<1>11. CASE Take
  <2>1. UNCHANGED <<requested, failure, refused, reader>> /\ controller \notin {"noted", "failed"}
    BY <1>11 DEF Take, OthersOfController
  <2>2. \A id \in Ids : Tries(id)' <= Tries(id)
    BY <1>11, FieldTypes DEF Take, OthersOfController, Tries, TypeOK, Slots
  <2>3. \A id \in Ids : Tries(id) \in Nat /\ Tries(id)' \in Nat
    <3>1. \A id \in Ids : refused'[id] \in Nat  BY <2>1, FieldTypes
    <3>2. QED  BY <3>1, TriesIsNat DEF Tries
  <2>4. requested.id \in Ids /\ requested'.id = requested.id  BY <2>1, IdOfRequest
  <2>5. Tries(requested.id)' <= Tries(requested.id) /\ Tries(requested.id) \in Nat
        /\ Tries(requested.id)' \in Nat
    BY <2>2, <2>3, <2>4, <2>1 DEF Tries
  <2>6. QED
    BY <2>1, <2>2, <2>3, <2>4, <2>5 DEF TriedTwice, RollbackDue, FirstRefusalInHand
<1>12. CASE Accept
  <2>1. UNCHANGED <<requested, failure, refused, reader>> /\ controller \notin {"noted", "failed"}
    BY <1>12 DEF Accept, OthersOfController
  <2>2. \A id \in Ids : Tries(id)' <= Tries(id)
    BY <1>12, FieldTypes DEF Accept, OthersOfController, Tries, TypeOK, Slots
  <2>3. \A id \in Ids : Tries(id) \in Nat /\ Tries(id)' \in Nat
    <3>1. \A id \in Ids : refused'[id] \in Nat  BY <2>1, FieldTypes
    <3>2. QED  BY <3>1, TriesIsNat DEF Tries
  <2>4. requested.id \in Ids /\ requested'.id = requested.id  BY <2>1, IdOfRequest
  <2>5. Tries(requested.id)' <= Tries(requested.id) /\ Tries(requested.id) \in Nat
        /\ Tries(requested.id)' \in Nat
    BY <2>2, <2>3, <2>4, <2>1 DEF Tries
  <2>6. QED
    BY <2>1, <2>2, <2>3, <2>4, <2>5 DEF TriedTwice, RollbackDue, FirstRefusalInHand
<1>13. CASE Refuse
  <2>1. requested.id \in Ids /\ requested' = requested /\ active.id \in Ids
    BY <1>13, RefuseCounts, IdOfRequest
  <2>2. \A id \in Ids : Tries(id)' = Tries(id)
    BY <1>13, RefuseCounts, FieldTypes DEF Tries
  <2>3. Tries(requested.id)' = Tries(requested.id)
    BY <1>13, <2>1, RefuseCounts, FieldTypes DEF Tries
  <2>4. CASE refused[requested.id] > 0
    <3>1. RollbackDue  BY <1>13, <2>4, RefuseCounts DEF TriedTwice, FirstRefusalInHand
    <3>2. RollbackDue'  BY <1>13, <3>1, RefuseCounts DEF RollbackDue
    <3>3. refused'[requested'.id] > 0  BY <1>13, <2>1, <2>4, RefuseCounts, FieldTypes
    <3>4. QED  BY <1>13, <2>1, <2>2, <2>3, <3>2, <3>3, RefuseCounts DEF TriedTwice
  <2>5. CASE ~ (refused[requested.id] > 0)
    <3>1. refused[requested.id] = 0  BY <2>1, <2>5, FieldTypes
    <3>2. Tries(requested.id) # 2  BY <2>5 DEF TriedTwice
    <3>3. refused'[requested'.id] > 0 => active.id = requested.id
      BY <1>13, <2>1, <3>1, RefuseCounts
    <3>4. active.id = requested.id => Tries(requested.id) = 1
      BY <1>13, <3>1, <3>2, RefuseCounts DEF Tries
    <3>5. refused'[requested'.id] > 0 => FirstRefusalInHand'
      BY <1>13, <2>1, <2>3, <3>3, <3>4, RefuseCounts DEF FirstRefusalInHand
    <3>6. QED  BY <1>13, <2>1, <2>2, <2>3, <3>2, <3>5, RefuseCounts DEF TriedTwice
  <2>6. QED  BY <2>4, <2>5
<1>14. CASE NoteIdentity
  <2>1. UNCHANGED <<requested, refused, reader, active, queued>> /\ failure'.pending = failure.pending
        /\ failure'.id = active.id /\ controller = "noted" /\ controller' = "failed"
    BY <1>14 DEF NoteIdentity, OthersOfController, TypeOK
  <2>2. Tries(requested.id)' = Tries(requested.id) /\ \A id \in Ids : Tries(id)' = Tries(id)
    BY <2>1 DEF Tries
  <2>3. refused[requested.id] > 0 => active.id = requested.id
    BY <2>1, FieldTypes, IdOfRequest DEF Ordered
  <2>4. QED
    BY <2>1, <2>2, <2>3 DEF TriedTwice, RollbackDue, FirstRefusalInHand
<1>15. CASE NoteFlag
  BY <1>15, PpmAssumption DEF NoteFlag, OthersOfController, TypeOK, Ordered, RefusalKnown, TriedTwice, RollbackDue, FirstRefusalInHand, Tries, Ppms, Ids, Requests, Slots
<1>16. CASE ClearActive
  BY <1>16, EmptySlot, PpmAssumption DEF ClearActive, OthersOfController, TypeOK, Ordered, RefusalKnown, TriedTwice, RollbackDue, FirstRefusalInHand, Tries, Ppms, Ids, Requests, Slots
<1>17. CASE UNCHANGED vars
  BY <1>17 DEF vars, TypeOK, Ordered, RefusalKnown, TriedTwice, RollbackDue, FirstRefusalInHand, Tries, Ppms, Ids, Requests, Slots
<1>18. QED  BY <1>1, <1>2, <1>3, <1>4, <1>5, <1>6, <1>7, <1>8, <1>9, <1>10, <1>11, <1>12, <1>13, <1>14, <1>15, <1>16, <1>17 DEF Next, Reader, Controller

-----------------------------------------------------------------------------
(* Initially nothing is asked for. *)
LEMMA InitEstablishes == Init => IInv
<1> SUFFICES ASSUME Init PROVE IInv  OBVIOUS
<1>1. TypeOK
  BY PpmAssumption, EmptySlot DEF Init, TypeOK, Ppms, Ids, Requests
<1>2. Tries(requested.id) = 0 /\ \A id \in Ids : Tries(id) = 0
  BY PpmAssumption, EmptySlot DEF Init, Tries, Ids
<1>3. Counted  BY PpmAssumption DEF Init, Counted, Ids
<1>4. Ordered  BY PpmAssumption, EmptySlot DEF Init, Ordered
<1>5. RefusalKnown  BY DEF Init, RefusalKnown
<1>6. TriedTwice
  <2>1. refused[requested.id] = 0 /\ reader.pc = "idle"
    BY PpmAssumption DEF Init, Ids
  <2>2. QED  BY <1>2, <2>1 DEF TriedTwice
<1>7. QED  BY <1>1, <1>3, <1>4, <1>5, <1>6 DEF IInv

(* The parts together. *)
LEMMA StepPreserves == IInv /\ [Next]_vars => IInv'
<1> SUFFICES ASSUME IInv, [Next]_vars PROVE IInv'  OBVIOUS
<1> USE DEF IInv
<1>1. TypeOK'  BY TypePreserved
<1>2. Counted'  BY <1>1, CountedPreserved
<1>3. Ordered'  BY <1>1, OrderedPreserved
<1>4. RefusalKnown'  BY <1>1, RefusalKnownPreserved
<1>5. TriedTwice'  BY <1>1, TriedTwicePreserved
<1>6. QED  BY <1>1, <1>2, <1>3, <1>4, <1>5

(* The inductive invariant, for any range of corrections and any number of   *)
(* publications and refusals.                                              *)
THEOREM Invariance == Spec => []IInv
BY InitEstablishes, StepPreserves, PTL DEF Spec

(* Every variable keeps its type: no identity is drawn beyond the           *)
(* publications and the refusals.                                          *)
THEOREM TypeCorrect == Spec => []TypeOK
<1>1. IInv => TypeOK  BY DEF IInv
<1>2. QED  BY <1>1, Invariance, PTL

(* rtl_ppm_should_schedule_request: the device is asked for a correction it *)
(* has refused at most once more.                                          *)
THEOREM RefusedAtMostTwiceAlways == Spec => []RefusedAtMostTwice
<1>1. IInv => RefusedAtMostTwice
  <2> SUFFICES ASSUME IInv, NEW id \in Ids PROVE refused[id] <= 2
    BY DEF RefusedAtMostTwice
  <2>1. TypeOK /\ Tries(id) <= 2  BY DEF IInv, TriedTwice
  <2>2. refused[id] \in Nat  BY <2>1, FieldTypes
  <2>3. QED  BY <2>1, <2>2 DEF Tries
<1>2. QED  BY <1>1, Invariance, PTL

(* rollback_requested_ppm_if_latest: whatever is published meanwhile, only  *)
(* a request the device refused is taken back.                             *)
THEOREM OnlyRefusedTakenBackAlways == Spec => OnlyRefusedTakenBack
<1> DEFINE Step ==
      reader.pc = "rollback" /\ reader' # reader /\ requested' # requested =>
        refused[requested.id] > 0
<1>1. IInv /\ [Next]_vars => [Step]_vars
  <2> SUFFICES ASSUME IInv, Next, reader.pc = "rollback", reader' # reader, requested' # requested
               PROVE  refused[requested.id] > 0
    BY DEF vars
  <2>1. CASE RollBack
    BY <2>1, RollBackDraws DEF IInv
  <2>2. CASE User  BY <2>2 DEF User
  <2>3. CASE Controller
    BY <2>3 DEF Controller, Take, Accept, Refuse, NoteIdentity, NoteFlag, ClearActive,
                OthersOfController
  <2>4. CASE Reader /\ ~ RollBack
    BY <2>4 DEF Reader, ReadFailure, ReadApplied, ReadRequested, ReadFailed, Adjust,
                AdjustPublish, LoadApplied, Schedule
  <2>5. QED  BY <2>1, <2>2, <2>3, <2>4 DEF Next
<1>2. QED  BY <1>1, Invariance, PTL DEF Spec, OnlyRefusedTakenBack
=============================================================================
