----------------------- MODULE RetuneControllerProofs -----------------------
(***************************************************************************)
(* Proofs about RetuneController, for every number of callers, frequencies *)
(* and calls and every size of the result table: the inductive invariant,  *)
(* kept part by part (types, identities, gate, outcomes, callers, tokens), *)
(* and from it every safety invariant the run checks.                      *)
(***************************************************************************)
EXTENDS RetuneController, FiniteSetTheorems, SequenceTheorems, TLAPS

AtMostOne(S) == \A v, w \in S : v = w

(* The size of a set of at most one element. *)
One(S) == IF S = {} THEN 0 ELSE 1

-----------------------------------------------------------------------------
(* The inductive invariant *)

(* Where a request may be.  Identities are aligned because whoever holds a *)
(* request still owes its completion, and because the stopper holds one    *)
(* only when nobody can queue behind it and completes it only when the     *)
(* controller has ended.                                                   *)
QueueInv ==
  /\ AtMostOne(pending) /\ AtMostOne(controller.work) /\ AtMostOne(stopper.work)
  /\ controller.work = {} <=> controller.pc \in {"waiting", "exited"}
  /\ stopper.pc \in {"running", "stopping", "stopped"} => stopper.work = {}
  /\ stopper.pc \in {"publishing", "signalling"} =>
       stopper.work # {} /\ controller.pc = "exited"
  /\ stopper.pc \notin {"running", "stopping"} => ~ accepting /\ pending = {}
  /\ stopper.work # {} => stopper.id = request_id
  /\ request_id = complete_id + One(pending) + One(controller.work) + One(stopper.work)

(* A timeout may install the identity of its caller as the gate, because   *)
(* that identity has been given out.                                       *)
GateInv ==
  /\ \A c \in Callers : caller[c].pc = "waiting" => caller[c].id \in 1 .. request_id
  /\ GateAhead

(* The record of outcomes runs ahead of the completions by the one that is *)
(* decided and not signalled yet.                                          *)
WithOutcome == controller.pc \in {"publishing", "signalling"} \/ stopper.pc = "signalling"

OutcomesCounted == Len(executed) = complete_id + (IF WithOutcome THEN 1 ELSE 0)

OutcomeHeld ==
  /\ controller.pc \in {"publishing", "signalling"} =>
       \A w \in controller.work : executed[complete_id + 1] = <<w, controller.result>>
  /\ stopper.pc = "signalling" =>
       \A w \in stopper.work : executed[complete_id + 1] = <<w, "FAILED">>

(* A slot of the result table is unused or holds the outcome of a completed *)
(* request that belongs there, *)
SlotsTruthful ==
  \A s \in 0 .. ResultSlots - 1 : results[s].id # 0 =>
     /\ results[s].id \in 1 .. complete_id
     /\ results[s].id % ResultSlots = s
     /\ results[s].result = executed[results[s].id][2]

(* and never an older one than any completed request that belongs there. *)
SlotsCurrent == \A n \in 1 .. complete_id : results[n % ResultSlots].id >= n

OutcomeInv == OutcomesCounted /\ OutcomeHeld /\ SlotsTruthful /\ SlotsCurrent

(* Where the request of a waiting caller with a token is, until its place  *)
(* in the record is that of its identity; and what the caller was told.    *)
Asked(c) == [freq |-> caller[c].freq, token |-> caller[c].token]
Decided(c) == caller[c].id \in 1 .. Len(executed) /\ executed[caller[c].id][1] = Asked(c)

Located(c) ==
  caller[c].pc = "waiting" /\ caller[c].token # NoToken =>
    \/ Decided(c)
    \/ controller.pc = "applying" /\ caller[c].id = complete_id + 1 /\ Asked(c) \in controller.work
    \/ caller[c].id = request_id /\ Asked(c) \in pending
    \/ stopper.pc # "signalling" /\ caller[c].id = request_id /\ Asked(c) \in stopper.work

Told(c) ==
  LET id == caller[c].id IN
  /\ caller[c].pc = "waiting" => caller[c].rc = "none"
  /\ caller[c].rc = "OK" =>
       /\ id \in 1 .. Len(executed) /\ executed[id][2] = "OK"
       /\ caller[c].token # NoToken => Decided(c)
  /\ caller[c].rc = "FAILED" =>
       \/ exiting
       \/ id \in 1 .. Len(executed) /\ executed[id][2] = "FAILED"
       \/ complete_id >= id + ResultSlots

CallerInv == \A c \in Callers : Located(c) /\ Told(c)

(* Requests that are not in the record of outcomes yet: queued, taken by   *)
(* the controller, or detached by the stop.                                *)
Applying == IF controller.pc = "applying" THEN controller.work ELSE {}
Undecided == pending \cup Applying \cup Detached
Token(n) == executed[n][1].token

(* The controller has still to publish the outcome it has recorded last. *)
Publishable(n) ==
  n \in 1 .. Len(executed) /\ (controller.pc = "publishing" => n <= complete_id)

(* Every token is that of an earlier call and belongs to one request. *)
TokensDrawn ==
  /\ \A w \in Undecided : w.token <= calls
  /\ \A n \in 1 .. Len(executed) : Token(n) <= calls

TokensApart ==
  \A w \in Applying, v \in pending \cup Detached : w.token # NoToken => v.token # w.token

TokensDistinct ==
  /\ \A m, n \in 1 .. Len(executed) : Token(m) # NoToken /\ Token(m) = Token(n) => m = n
  /\ \A w \in Undecided, n \in 1 .. Len(executed) : w.token # NoToken => w.token # Token(n)

(* What is published is the publishable part of the record, each token once. *)
PublishedOnce ==
  \A i, j \in 1 .. Len(published) : published[i].token = published[j].token => i = j

PublishedTrue ==
  \A i \in 1 .. Len(published) : \E n \in 1 .. Len(executed) :
     Publishable(n) /\ Token(n) = published[i].token /\ executed[n][2] = published[i].result

PublishedAll ==
  \A n \in 1 .. Len(executed) : Publishable(n) /\ Token(n) # NoToken =>
     \E i \in 1 .. Len(published) : published[i].token = Token(n)

TokenInv ==
  /\ TokensDrawn /\ TokensApart /\ TokensDistinct
  /\ PublishedOnce /\ PublishedTrue /\ PublishedAll

-----------------------------------------------------------------------------
(* Types *)

(* The records the actions build have the types TypeOK gives them. *)
LEMMA TypeInit == Init => TypeOK
<1> SUFFICES ASSUME Init PROVE TypeOK
  OBVIOUS
<1>1. results \in [0 .. ResultSlots - 1 -> [id : Nat, result : Outcomes]]
  BY DEF Init, Outcomes
<1>2. PICK f \in Freqs :
        caller = [c \in Callers |-> [pc |-> "idle", id |-> 0, token |-> NoToken,
                                     freq |-> f, rc |-> "none"]]
  BY DEF Init
<1>3. calls \in 0 .. MaxCalls
  BY CallsAssumption DEF Init
<1>4. /\ published \in Seq([token : Tokens, result : Outcomes])
      /\ executed \in Seq(Work \X Outcomes)
  BY DEF Init
<1>5. /\ controller \in [pc : {"waiting", "applying", "publishing", "signalling", "exited"},
                         work : SUBSET Work, result : Outcomes]
      /\ stopper \in [pc : {"running", "stopping", "joining", "publishing", "signalling", "stopped"},
                      work : SUBSET Work, id : Nat]
  BY DEF Init, Outcomes
<1>6. caller \in [Callers -> [pc : {"idle", "waiting"}, id : Nat,
                             token : Tokens \cup {NoToken}, freq : Freqs,
                             rc : {"none", "OK", "FAILED", "TIMEOUT", "DEFERRED"}]]
  BY <1>2
<1>7. /\ accepting \in BOOLEAN /\ exiting \in BOOLEAN /\ pending \in SUBSET Work
      /\ request_id \in Nat /\ complete_id \in Nat /\ gate \in Nat
  BY DEF Init
<1> QED
  BY <1>1, <1>3, <1>4, <1>5, <1>6, <1>7 DEF TypeOK

(* Queueing keeps the types of the queue. *)
LEMMA EnqueueType ==
  ASSUME TypeOK, NEW f \in Freqs, NEW token \in Tokens \cup {NoToken}, Enqueue(f, token)
  PROVE  accepting' \in BOOLEAN /\ pending' \in SUBSET Work /\ request_id' \in Nat
BY DEF TypeOK, Enqueue, Work

(* Signalling keeps the types of the completion. *)
LEMMA SignalType ==
  ASSUME TypeOK, NEW result \in Outcomes, Signal(result)
  PROVE  /\ complete_id' \in Nat /\ gate' \in Nat
         /\ results' \in [0 .. ResultSlots - 1 -> [id : Nat, result : Outcomes]]
<1>1. (complete_id + 1) % ResultSlots \in 0 .. ResultSlots - 1
  BY SlotsAssumption DEF TypeOK
<1> QED
  BY <1>1 DEF TypeOK, Signal

(* Publishing keeps the type of the published completions. *)
LEMMA PublishType ==
  ASSUME TypeOK, NEW work \in SUBSET Work, NEW result \in Outcomes, Publish(work, result)
  PROVE  published' \in Seq([token : Tokens, result : Outcomes])
<1>1. PICK w \in work :
        published' = IF w.token = NoToken THEN published
                     ELSE Append(published, [token |-> w.token, result |-> result])
  BY DEF Publish
<1>2. w.token \in Tokens \cup {NoToken}
  BY DEF Work
<1>3. CASE w.token = NoToken
  BY <1>1, <1>3 DEF TypeOK
<1>4. CASE w.token # NoToken
  <2>1. [token |-> w.token, result |-> result] \in [token : Tokens, result : Outcomes]
    BY <1>2, <1>4
  <2> QED
    BY <1>1, <1>4, <2>1 DEF TypeOK
<1> QED
  BY <1>3, <1>4

(* A caller that changes its place or its return code keeps its type. *)
LEMMA ReturnType ==
  ASSUME TypeOK, NEW c \in Callers, NEW pc \in {"idle", "waiting"},
         NEW rc \in {"none", "OK", "FAILED", "TIMEOUT", "DEFERRED"}
  PROVE  [caller EXCEPT ![c].pc = pc, ![c].rc = rc] \in
           [Callers -> [pc : {"idle", "waiting"}, id : Nat,
                        token : Tokens \cup {NoToken}, freq : Freqs,
                        rc : {"none", "OK", "FAILED", "TIMEOUT", "DEFERRED"}]]
BY DEF TypeOK

(* Recording the outcome of a request keeps the type of the record. *)
LEMMA ExecuteType ==
  ASSUME TypeOK, NEW w \in Work, NEW result \in Outcomes
  PROVE  Append(executed, <<w, result>>) \in Seq(Work \X Outcomes)
<1>1. <<w, result>> \in Work \X Outcomes
  OBVIOUS
<1> QED
  BY <1>1 DEF TypeOK

(* Every step keeps every variable in its type. *)
LEMMA TypeStep == TypeOK /\ [Next]_vars => TypeOK'
<1> SUFFICES ASSUME TypeOK, [Next]_vars
             PROVE  TypeOK'
  OBVIOUS
<1> USE DEF queue, completion, history
<1>1. ASSUME NEW c \in Callers, NEW f \in Freqs, NEW tagged \in BOOLEAN, Tune(c, f, tagged)
      PROVE  TypeOK'
  <2>1. calls' \in 0 .. MaxCalls
    BY <1>1, CallsAssumption DEF TypeOK, Tune, Call
  <2>2. NextToken(tagged) \in Tokens \cup {NoToken}
    BY <1>1, CallsAssumption DEF TypeOK, Tune, Call, NextToken, Tokens
  <2>3. accepting' \in BOOLEAN /\ pending' \in SUBSET Work /\ request_id' \in Nat
    BY <1>1, <2>2, EnqueueType DEF Tune
  <2> QED
    BY <1>1, <2>1, <2>2, <2>3 DEF TypeOK, Tune, Call
<1>2. ASSUME NEW f \in Freqs, TuneFromUdp(f) PROVE TypeOK'
  <2>1. calls' \in 0 .. MaxCalls
    BY <1>2, CallsAssumption DEF TypeOK, TuneFromUdp, Call
  <2>2. accepting' \in BOOLEAN /\ pending' \in SUBSET Work /\ request_id' \in Nat
    BY <1>2, EnqueueType DEF TuneFromUdp
  <2> QED
    BY <1>2, <2>1, <2>2 DEF TypeOK, TuneFromUdp, Call
<1>3. ASSUME NEW c \in Callers, TuneDeferred(c) PROVE TypeOK'
  <2>1. calls' \in 0 .. MaxCalls
    BY <1>3, CallsAssumption DEF TypeOK, TuneDeferred, Call
  <2>2. caller' = [caller EXCEPT ![c].rc = "DEFERRED"]
    BY <1>3 DEF TuneDeferred
  <2>3. UNCHANGED <<queue, completion, exiting, controller, stopper, published, executed>>
    BY <1>3 DEF TuneDeferred, Call
  <2> QED
    BY <2>1, <2>2, <2>3 DEF TypeOK
<1>4. ASSUME NEW c \in Callers, WaitDone(c) \/ WaitShutdown(c) \/ WaitTimeout(c)
      PROVE  TypeOK'
  <2>1. SlotOf(caller[c].id).result \in Outcomes
    <3>1. caller[c].id % ResultSlots \in 0 .. ResultSlots - 1
      BY SlotsAssumption DEF TypeOK
    <3> QED
      BY <3>1 DEF TypeOK, SlotOf
  <2>2. UNCHANGED OthersOfCaller /\ gate' \in Nat
    BY <1>4 DEF TypeOK, WaitDone, WaitShutdown, WaitTimeout
  <2>3. PICK rc \in {"OK", "FAILED", "TIMEOUT"} : Return(c, rc)
    BY <1>4, <2>1 DEF WaitDone, WaitShutdown, WaitTimeout, Outcomes
  <2>4. caller' \in [Callers -> [pc : {"idle", "waiting"}, id : Nat,
                                 token : Tokens \cup {NoToken}, freq : Freqs,
                                 rc : {"none", "OK", "FAILED", "TIMEOUT", "DEFERRED"}]]
    BY <2>3, ReturnType DEF Return
  <2> QED
    BY <2>2, <2>4 DEF TypeOK, OthersOfCaller
<1>5. CASE ControllerTake
  BY <1>5 DEF TypeOK, ControllerTake, OthersOfController
<1>6. CASE ControllerExit
  BY <1>6 DEF TypeOK, ControllerExit, OthersOfController
<1>7. ASSUME NEW result \in Outcomes, ControllerApply(result) PROVE TypeOK'
  <2>1. executed' \in Seq(Work \X Outcomes)
    <3>1. PICK w \in controller.work : executed' = Append(executed, <<w, result>>)
      BY <1>7 DEF ControllerApply
    <3>2. w \in Work
      BY DEF TypeOK
    <3> QED
      BY <3>1, <3>2, ExecuteType
  <2>2. controller' = [controller EXCEPT !.pc = "publishing", !.result = result]
    BY <1>7 DEF ControllerApply
  <2>3. UNCHANGED <<queue, completion, published, OthersOfController>>
    BY <1>7 DEF ControllerApply
  <2> QED
    BY <2>1, <2>2, <2>3 DEF TypeOK, OthersOfController
<1>8. CASE ControllerPublish
  <2>1. published' \in Seq([token : Tokens, result : Outcomes])
    BY <1>8, PublishType DEF TypeOK, ControllerPublish
  <2> QED
    BY <1>8, <2>1 DEF TypeOK, ControllerPublish, OthersOfController
<1>9. CASE ControllerSignal
  <2>1. controller.result \in Outcomes /\ Signal(controller.result)
    BY <1>9 DEF TypeOK, ControllerSignal
  <2> QED
    BY <1>9, <2>1, SignalType DEF TypeOK, ControllerSignal, OthersOfController
<1>10. CASE RaiseExit \/ StopBegin \/ StopDetach \/ StopJoin
  <2>1. CASE RaiseExit
    BY <2>1 DEF TypeOK, RaiseExit
  <2>2. CASE StopBegin
    BY <2>2 DEF TypeOK, StopBegin, OthersOfStopper
  <2>3. CASE StopDetach
    BY <2>3 DEF TypeOK, StopDetach, OthersOfStopper
  <2>4. CASE StopJoin
    BY <2>4 DEF TypeOK, StopJoin, OthersOfStopper
  <2> QED
    BY <1>10, <2>1, <2>2, <2>3, <2>4
<1>11. CASE StopPublish
  <2>1. published' \in Seq([token : Tokens, result : Outcomes])
    BY <1>11, PublishType DEF TypeOK, StopPublish, Outcomes
  <2>2. executed' \in Seq(Work \X Outcomes)
    <3>1. PICK w \in stopper.work : executed' = Append(executed, <<w, "FAILED">>)
      BY <1>11 DEF StopPublish
    <3>2. w \in Work /\ "FAILED" \in Outcomes
      BY DEF TypeOK, Outcomes
    <3> QED
      BY <3>1, <3>2, ExecuteType
  <2>3. stopper' = [stopper EXCEPT !.pc = "signalling"]
    BY <1>11 DEF StopPublish
  <2>4. UNCHANGED <<accepting, pending, completion, exiting, OthersOfStopper>>
    BY <1>11 DEF StopPublish
  <2> QED
    BY <2>1, <2>2, <2>3, <2>4 DEF TypeOK, OthersOfStopper
<1>12. CASE StopSignal
  <2>1. "FAILED" \in Outcomes /\ Signal("FAILED")
    BY <1>12 DEF StopSignal, Outcomes
  <2> QED
    BY <1>12, <2>1, SignalType DEF TypeOK, StopSignal, OthersOfStopper
<1>13. CASE UNCHANGED vars
  BY <1>13 DEF vars, TypeOK
<1> QED
  BY <1>1, <1>2, <1>3, <1>4, <1>5, <1>6, <1>7, <1>8, <1>9, <1>10, <1>11, <1>12, <1>13
  DEF Next, CallerStep, ControllerStep, StopperStep
-----------------------------------------------------------------------------
(* Identities *)

(* The clauses of TypeOK the alignment of identities rests on. *)
QueueTypes ==
  /\ request_id \in Nat /\ complete_id \in Nat
  /\ controller.pc \in {"waiting", "applying", "publishing", "signalling", "exited"}
  /\ stopper.pc \in {"running", "stopping", "joining", "publishing", "signalling", "stopped"}
  /\ controller = [pc |-> controller.pc, work |-> controller.work, result |-> controller.result]
  /\ stopper = [pc |-> stopper.pc, work |-> stopper.work, id |-> stopper.id]

(* They follow from it. *)
LEMMA TypesOfQueue == TypeOK => QueueTypes
BY DEF TypeOK, QueueTypes

(* A set of at most one element has One(S) elements. *)
LEMMA SizeOfOne ==
  ASSUME NEW S, AtMostOne(S)
  PROVE  Cardinality(S) = One(S)
<1>1. CASE S = {}
  BY <1>1, FS_EmptySet DEF One
<1>2. CASE S # {}
  <2>1. PICK v : S = {v}
    BY <1>2 DEF AtMostOne
  <2> QED
    BY <1>2, <2>1, FS_Singleton DEF One
<1> QED
  BY <1>1, <1>2

(* Nobody holds a request when the stream opens. *)
LEMMA QueueInit == Init => QueueInv
BY DEF Init, QueueInv, AtMostOne, One

(* Every step keeps the identities aligned. *)
LEMMA QueueStep == TypeOK /\ QueueInv /\ [Next]_vars => QueueInv'
<1> SUFFICES ASSUME TypeOK, QueueInv, [Next]_vars
             PROVE  QueueInv'
  OBVIOUS
<1> USE DEF queue, completion, history, QueueInv
<1>0. QueueTypes
  BY TypesOfQueue
<1>1. ASSUME NEW f, NEW token, Enqueue(f, token),
             UNCHANGED <<complete_id, controller, stopper>>
      PROVE  QueueInv'
  <2>1. accepting /\ UNCHANGED accepting
    BY <1>1 DEF Enqueue, Refused
  <2>2. stopper.pc \in {"running", "stopping"} /\ stopper.work = {}
    BY <1>0, <2>1 DEF QueueTypes
  <2>3. /\ AtMostOne(pending') /\ One(pending') = 1
        /\ request_id' = request_id + 1 - One(pending)
    <3>1. PICK w : pending' = {w}
      BY <1>1 DEF Enqueue
    <3>2. AtMostOne(pending') /\ One(pending') = 1
      BY <3>1 DEF AtMostOne, One
    <3>3. request_id' = request_id + 1 - One(pending)
      BY <1>0, <1>1 DEF Enqueue, QueueTypes, One
    <3> QED
      BY <3>2, <3>3
  <2>4. One(controller.work) \in Nat /\ One(pending) \in Nat /\ One(stopper.work) = 0
    BY <2>2 DEF One
  <2>5. request_id' = complete_id' + One(pending') + One(controller'.work) + One(stopper'.work)
    BY <1>0, <1>1, <2>3, <2>4 DEF QueueTypes
  <2> QED
    BY <1>1, <2>1, <2>2, <2>3, <2>5
<1>2. ASSUME UNCHANGED <<queue, complete_id, controller, stopper>>
      PROVE  QueueInv'
  BY <1>2 DEF AtMostOne, One
<1>3. ASSUME NEW c \in Callers, CallerStep(c) PROVE QueueInv'
  BY <1>1, <1>2, <1>3 DEF CallerStep, Tune, TuneDeferred, Call, WaitDone, WaitShutdown,
                          WaitTimeout, OthersOfCaller
<1>4. ASSUME NEW f \in Freqs, TuneFromUdp(f) PROVE QueueInv'
  BY <1>1, <1>4 DEF TuneFromUdp, Call
<1>5. CASE ControllerTake
  BY <1>0, <1>5 DEF ControllerTake, OthersOfController, QueueTypes, AtMostOne, One
<1>6. CASE ControllerExit
  BY <1>0, <1>6 DEF ControllerExit, OthersOfController, QueueTypes, AtMostOne, One
<1>7. ASSUME NEW result \in Outcomes, ControllerApply(result) PROVE QueueInv'
  BY <1>0, <1>7 DEF ControllerApply, OthersOfController, QueueTypes, AtMostOne, One
<1>8. CASE ControllerPublish
  BY <1>0, <1>8 DEF ControllerPublish, OthersOfController, QueueTypes, AtMostOne, One
<1>9. CASE ControllerSignal
  BY <1>0, <1>9 DEF ControllerSignal, Signal, OthersOfController, QueueTypes, AtMostOne, One
<1>10. CASE RaiseExit
  BY <1>2, <1>10 DEF RaiseExit
<1>11. CASE StopBegin
  BY <1>0, <1>11 DEF StopBegin, OthersOfStopper, QueueTypes, AtMostOne, One
<1>12. CASE StopDetach
  BY <1>0, <1>12 DEF StopDetach, OthersOfStopper, QueueTypes, AtMostOne, One
<1>13. CASE StopJoin
  BY <1>0, <1>13 DEF StopJoin, OthersOfStopper, QueueTypes, AtMostOne, One
<1>14. CASE StopPublish
  BY <1>0, <1>14 DEF StopPublish, OthersOfStopper, QueueTypes, AtMostOne, One
<1>15. CASE StopSignal
  BY <1>0, <1>15 DEF StopSignal, Signal, OthersOfStopper, QueueTypes, AtMostOne, One
<1>16. CASE UNCHANGED vars
  BY <1>2, <1>16 DEF vars
<1> QED
  BY <1>3, <1>4, <1>5, <1>6, <1>7, <1>8, <1>9, <1>10, <1>11, <1>12, <1>13, <1>14, <1>15,
     <1>16
  DEF Next, ControllerStep, StopperStep

(* The alignment the runs check. *)
LEMMA QueueAligned == TypeOK /\ QueueInv => IdsAligned
<1> SUFFICES ASSUME TypeOK, QueueInv
             PROVE  IdsAligned
  OBVIOUS
<1>1. /\ Cardinality(pending) = One(pending)
      /\ Cardinality(controller.work) = One(controller.work)
      /\ Cardinality(stopper.work) = One(stopper.work)
  BY SizeOfOne DEF QueueInv
<1>2. QueueTypes
  BY TypesOfQueue
<1>3. stopper.pc \in {"publishing", "signalling"} => stopper.id = complete_id + 1
  BY <1>2 DEF QueueInv, QueueTypes, One
<1> QED
  BY <1>1, <1>3 DEF QueueInv, IdsAligned

-----------------------------------------------------------------------------
(* The read gate *)

(* No gate is installed and nobody waits when the stream opens. *)
LEMMA GateInit == Init => GateInv
BY DEF Init, GateInv, GateAhead

(* Signalling the next completion opens the gate if it is the gated one.   *)
LEMMA SignalGate ==
  ASSUME TypeOK, GateInv, NEW result, Signal(result), UNCHANGED <<request_id, caller>>
  PROVE  GateInv'
<1>1. complete_id \in Nat /\ gate \in Nat
  BY DEF TypeOK
<1> QED
  BY <1>1 DEF Signal, GateInv, GateAhead

(* Every step keeps the gate ahead of the completions. *)
LEMMA GateStep == TypeOK /\ QueueInv /\ GateInv /\ [Next]_vars => GateInv'
<1> SUFFICES ASSUME TypeOK, QueueInv, GateInv, [Next]_vars
             PROVE  GateInv'
  OBVIOUS
<1> USE DEF queue, completion, history
<1>0. /\ request_id \in Nat /\ complete_id \in Nat /\ gate \in Nat
      /\ \A c \in Callers : caller[c].id \in Nat
  BY DEF TypeOK
<1>1. ASSUME NEW f, NEW token, Enqueue(f, token)
      PROVE  request_id' \in {request_id, request_id + 1} /\ request_id' > 0
  <2>1. request_id = 0 => pending = {}
    BY <1>0 DEF QueueInv, One
  <2> QED
    BY <1>0, <1>1, <2>1 DEF Enqueue
<1>2. ASSUME NEW c \in Callers, NEW f \in Freqs, NEW tagged \in BOOLEAN, Tune(c, f, tagged)
      PROVE  GateInv'
  <2>1. \A d \in Callers : caller'[d] = IF d = c THEN
           [pc |-> "waiting", id |-> request_id', token |-> NextToken(tagged),
            freq |-> f, rc |-> "none"] ELSE caller[d]
    BY <1>2 DEF Tune, TypeOK
  <2>2. request_id' \in {request_id, request_id + 1} /\ request_id' > 0
    BY <1>1, <1>2 DEF Tune
  <2>3. UNCHANGED <<complete_id, gate>>
    BY <1>2 DEF Tune, Call
  <2> QED
    BY <1>0, <2>1, <2>2, <2>3 DEF GateInv, GateAhead
<1>3. ASSUME NEW c \in Callers, TuneDeferred(c) PROVE GateInv'
  BY <1>3 DEF TuneDeferred, Call, GateInv, GateAhead, TypeOK
<1>4. ASSUME NEW c \in Callers, NEW rc, Return(c, rc), UNCHANGED <<request_id, complete_id>>,
             \/ UNCHANGED gate
             \/ /\ caller[c].pc = "waiting" /\ complete_id < caller[c].id
                /\ gate' \in {gate, caller[c].id}
      PROVE  GateInv'
  <2>1. \A d \in Callers : caller'[d].pc = "waiting" =>
            caller[d].pc = "waiting" /\ caller'[d].id = caller[d].id
    BY <1>4 DEF Return, TypeOK
  <2> QED
    BY <1>0, <1>4, <2>1 DEF GateInv, GateAhead
<1>5. ASSUME NEW c \in Callers, WaitDone(c) \/ WaitShutdown(c) \/ WaitTimeout(c)
      PROVE  GateInv'
  BY <1>4, <1>5 DEF WaitDone, WaitShutdown, WaitTimeout, OthersOfCaller
<1>6. ASSUME NEW f \in Freqs, TuneFromUdp(f) PROVE GateInv'
  BY <1>0, <1>1, <1>6 DEF TuneFromUdp, Call, GateInv, GateAhead
<1>7. CASE ControllerSignal
  BY <1>7, SignalGate DEF ControllerSignal, OthersOfController
<1>8. CASE StopSignal
  BY <1>8, SignalGate DEF StopSignal, OthersOfStopper
<1>9. ASSUME UNCHANGED <<request_id, complete_id, gate, caller>> PROVE GateInv'
  BY <1>9 DEF GateInv, GateAhead
<1>10. CASE ControllerTake \/ ControllerExit \/ ControllerPublish
            \/ \E result \in Outcomes : ControllerApply(result)
  BY <1>9, <1>10 DEF ControllerTake, ControllerExit, ControllerPublish, ControllerApply,
                     OthersOfController
<1>11. CASE RaiseExit \/ StopBegin \/ StopDetach \/ StopJoin \/ StopPublish
  BY <1>9, <1>11 DEF RaiseExit, StopBegin, StopDetach, StopJoin, StopPublish, OthersOfStopper
<1>12. CASE UNCHANGED vars
  BY <1>9, <1>12 DEF vars
<1> QED
  BY <1>2, <1>3, <1>5, <1>6, <1>7, <1>8, <1>10, <1>11, <1>12
  DEF Next, CallerStep, ControllerStep, StopperStep

-----------------------------------------------------------------------------
(* Outcomes *)

(* Two identities of one slot are as far apart as the table is long. *)
LEMMA SlotDistance ==
  ASSUME NEW m \in Nat, NEW n \in Nat, m > n, m % ResultSlots = n % ResultSlots
  PROVE  m >= n + ResultSlots
<1> DEFINE R == ResultSlots
<1>1. R \in Nat \ {0}
  BY SlotsAssumption
<1> HIDE DEF R
<1>2. m = R * (m \div R) + (m % R) /\ n = R * (n \div R) + (n % R)
  BY <1>1
<1>3. m \div R \in Nat /\ n \div R \in Nat /\ (m % R) \in 0 .. R - 1 /\ (n % R) \in 0 .. R - 1
  BY <1>1
<1>4. m % R = n % R
  BY DEF R
<1>5. \A a, b \in Nat : a <= b => R * a <= R * b
  BY <1>1
<1>6. \A a, b \in Nat : a > b => R * a >= R * b + R
  <2>1. SUFFICES ASSUME NEW a \in Nat, NEW b \in Nat, a > b
                 PROVE  R * a >= R * b + R
    OBVIOUS
  <2>2. R * (a - b) = R * a - R * b
    BY <1>1
  <2>3. R * (a - b) >= R
    BY <1>1, <2>1
  <2>4. R * a \in Nat /\ R * b \in Nat
    BY <1>1
  <2> QED
    BY <1>1, <2>2, <2>3, <2>4
<1>7. R * (m \div R) \in Nat /\ R * (n \div R) \in Nat
  BY <1>1, <1>3
<1>8. m \div R > n \div R
  BY <1>2, <1>3, <1>4, <1>5, <1>7
<1>9. m >= n + R
  BY <1>1, <1>2, <1>3, <1>4, <1>6, <1>7, <1>8
<1> QED
  BY <1>9 DEF R

(* Recording an outcome keeps the earlier ones. *)
LEMMA Recorded ==
  ASSUME TypeOK, NEW outcome, executed' = Append(executed, outcome)
  PROVE  /\ Len(executed') = Len(executed) + 1
         /\ \A n \in 1 .. Len(executed) : executed'[n] = executed[n]
         /\ executed'[Len(executed) + 1] = outcome
         /\ Len(executed) \in Nat
BY DEF TypeOK

(* Nothing is decided when the stream opens. *)
LEMMA OutcomeInit == Init => OutcomeInv
BY SlotsAssumption DEF Init, OutcomeInv, OutcomesCounted, OutcomeHeld, WithOutcome, SlotsTruthful,
   SlotsCurrent

(* Signalling a decided outcome enters it into the result table. *)
LEMMA SignalOutcome ==
  ASSUME TypeOK, SlotsTruthful, SlotsCurrent, NEW result \in Outcomes, Signal(result),
         UNCHANGED executed, executed[complete_id + 1][2] = result
  PROVE  SlotsTruthful' /\ SlotsCurrent'
<1> DEFINE id == complete_id + 1
<1>1. id \in Nat /\ complete_id \in Nat /\ id > 0
  BY DEF TypeOK
<1>2. id % ResultSlots \in 0 .. ResultSlots - 1
  BY <1>1, SlotsAssumption
<1>3. complete_id' = id
  BY DEF Signal
<1>4. \A s \in 0 .. ResultSlots - 1 :
        results'[s] = IF s = id % ResultSlots THEN [id |-> id, result |-> result] ELSE results[s]
  BY <1>2 DEF Signal, TypeOK
<1> HIDE DEF id
<1>5. executed[id][2] = result
  BY DEF id
<1>6. ASSUME NEW s \in 0 .. ResultSlots - 1, results'[s].id # 0
      PROVE  /\ results'[s].id \in 1 .. complete_id'
             /\ results'[s].id % ResultSlots = s
             /\ results'[s].result = executed'[results'[s].id][2]
  <2>1. CASE s = id % ResultSlots
    BY <1>1, <1>3, <1>4, <1>5, <2>1
  <2>2. CASE s # id % ResultSlots
    <3>1. results'[s] = results[s]
      BY <1>4, <2>2
    <3>2. /\ results[s].id \in 1 .. complete_id
          /\ results[s].id % ResultSlots = s
          /\ results[s].result = executed[results[s].id][2]
      BY <1>6, <3>1 DEF SlotsTruthful
    <3>3. results[s].id \in 1 .. complete_id'
      BY <1>1, <1>3, <3>2 DEF id
    <3> QED
      BY <3>1, <3>2, <3>3
  <2> QED
    BY <2>1, <2>2
<1>7. ASSUME NEW n \in 1 .. complete_id' PROVE results'[n % ResultSlots].id >= n
  <2>1. n \in Nat /\ n % ResultSlots \in 0 .. ResultSlots - 1
    BY <1>1, <1>3, SlotsAssumption
  <2>2. CASE n % ResultSlots = id % ResultSlots
    BY <1>1, <1>3, <1>4, <2>1, <2>2
  <2>3. CASE n % ResultSlots # id % ResultSlots
    <3>1. n \in 1 .. complete_id
      BY <1>1, <1>3, <2>1, <2>3 DEF id
    <3> QED
      BY <1>4, <2>1, <2>3, <3>1 DEF SlotsCurrent
  <2> QED
    BY <2>2, <2>3
<1> QED
  BY <1>6, <1>7 DEF SlotsTruthful, SlotsCurrent

(* Deciding an outcome keeps the invariant. *)
LEMMA DecideOutcome ==
  ASSUME TypeOK, OutcomeInv, NEW w, NEW result,
         executed' = Append(executed, <<w, result>>),
         ~ WithOutcome, WithOutcome', UNCHANGED <<complete_id, results>>
  PROVE  /\ OutcomesCounted' /\ SlotsTruthful' /\ SlotsCurrent'
         /\ executed'[complete_id + 1] = <<w, result>>
<1>1. complete_id \in Nat /\ Len(executed) = complete_id
  BY DEF TypeOK, OutcomeInv, OutcomesCounted
<1>2. /\ Len(executed') = complete_id + 1
      /\ \A n \in 1 .. complete_id : executed'[n] = executed[n]
      /\ executed'[complete_id + 1] = <<w, result>>
  BY <1>1, Recorded
<1>3. OutcomesCounted'
  BY <1>2 DEF OutcomesCounted
<1>4. SlotsTruthful' /\ SlotsCurrent'
  BY <1>2 DEF OutcomeInv, SlotsTruthful, SlotsCurrent
<1> QED
  BY <1>2, <1>3, <1>4

(* Every step keeps the record of outcomes and the result table together. *)
LEMMA OutcomeStep == TypeOK /\ QueueInv /\ OutcomeInv /\ [Next]_vars => OutcomeInv'
<1> SUFFICES ASSUME TypeOK, QueueInv, OutcomeInv, [Next]_vars
             PROVE  OutcomeInv'
  OBVIOUS
<1> USE DEF queue, completion, history
<1>0. QueueTypes
  BY TypesOfQueue
<1>1. ASSUME UNCHANGED <<complete_id, results, executed, controller, stopper>>
      PROVE  OutcomeInv'
  BY <1>1 DEF OutcomeInv, OutcomesCounted, OutcomeHeld, SlotsTruthful, SlotsCurrent, WithOutcome
<1>2. ASSUME UNCHANGED <<complete_id, results, executed>>, WithOutcome' = WithOutcome, OutcomeHeld'
      PROVE  OutcomeInv'
  BY <1>2 DEF OutcomeInv, OutcomesCounted, SlotsTruthful, SlotsCurrent
<1>3. ASSUME NEW c \in Callers, CallerStep(c) PROVE OutcomeInv'
  BY <1>1, <1>3 DEF CallerStep, Tune, TuneDeferred, Call, WaitDone, WaitShutdown,
                    WaitTimeout, OthersOfCaller
<1>4. ASSUME NEW f \in Freqs, TuneFromUdp(f) PROVE OutcomeInv'
  BY <1>1, <1>4 DEF TuneFromUdp, Call
<1>5. CASE ControllerTake \/ ControllerExit \/ ControllerPublish
  <2>1. UNCHANGED <<complete_id, results, executed, stopper>>
    BY <1>5 DEF ControllerTake, ControllerExit, ControllerPublish, OthersOfController
  <2>2. WithOutcome' = WithOutcome /\ OutcomeHeld'
    BY <1>0, <1>5, <2>1 DEF ControllerTake, ControllerExit, ControllerPublish, WithOutcome,
       OutcomeInv, OutcomeHeld, QueueTypes
  <2> QED
    BY <1>2, <2>1, <2>2
<1>6. ASSUME NEW result \in Outcomes, ControllerApply(result) PROVE OutcomeInv'
  <2>1. PICK w \in controller.work : executed' = Append(executed, <<w, result>>)
    BY <1>6 DEF ControllerApply
  <2>2. /\ controller.pc = "applying" /\ stopper.pc # "signalling"
        /\ controller'.pc = "publishing" /\ controller'.result = result
        /\ controller'.work = controller.work
        /\ UNCHANGED <<complete_id, results, stopper>>
    BY <1>0, <1>6 DEF ControllerApply, OthersOfController, QueueTypes, QueueInv
  <2>3. ~ WithOutcome /\ WithOutcome'
    BY <2>2 DEF WithOutcome
  <2>4. /\ OutcomesCounted' /\ SlotsTruthful' /\ SlotsCurrent'
        /\ executed'[complete_id + 1] = <<w, result>>
    BY <2>1, <2>2, <2>3, DecideOutcome
  <2>5. OutcomeHeld'
    BY <2>2, <2>4 DEF OutcomeHeld, QueueInv, AtMostOne
  <2> QED
    BY <2>4, <2>5 DEF OutcomeInv
<1>7. CASE ControllerSignal
  <2>1. PICK w : w \in controller.work
    BY <1>7 DEF ControllerSignal, QueueInv
  <2>2. /\ controller.result \in Outcomes /\ Signal(controller.result) /\ UNCHANGED executed
        /\ executed[complete_id + 1][2] = controller.result
    BY <1>7, <2>1 DEF TypeOK, ControllerSignal, OutcomeInv, OutcomeHeld
  <2>3. SlotsTruthful' /\ SlotsCurrent'
    BY <2>2, SignalOutcome DEF OutcomeInv
  <2>4. WithOutcome /\ stopper.pc # "signalling" /\ ~ WithOutcome'
    BY <1>0, <1>7 DEF ControllerSignal, OthersOfController, WithOutcome, QueueTypes, QueueInv
  <2>5. OutcomesCounted' /\ OutcomeHeld'
    BY <1>0, <2>2, <2>4 DEF OutcomeInv, OutcomesCounted, OutcomeHeld, Signal, QueueTypes, WithOutcome
  <2> QED
    BY <2>3, <2>5 DEF OutcomeInv
<1>8. CASE RaiseExit
  BY <1>1, <1>8 DEF RaiseExit
<1>9. CASE StopBegin \/ StopDetach \/ StopJoin
  <2>1. /\ UNCHANGED <<complete_id, results, executed, controller>>
        /\ stopper.pc # "signalling" /\ stopper'.pc # "signalling"
    BY <1>0, <1>9 DEF StopBegin, StopDetach, StopJoin, OthersOfStopper, QueueTypes
  <2>2. WithOutcome' = WithOutcome /\ OutcomeHeld'
    BY <2>1 DEF WithOutcome, OutcomeInv, OutcomeHeld
  <2> QED
    BY <1>2, <2>1, <2>2
<1>10. CASE StopPublish
  <2>1. PICK w \in stopper.work : executed' = Append(executed, <<w, "FAILED">>)
    BY <1>10 DEF StopPublish
  <2>2. /\ stopper.pc = "publishing" /\ controller.pc = "exited"
        /\ stopper'.pc = "signalling" /\ stopper'.work = stopper.work
        /\ UNCHANGED <<complete_id, results, controller>>
    BY <1>0, <1>10 DEF StopPublish, OthersOfStopper, QueueTypes, QueueInv
  <2>3. ~ WithOutcome /\ WithOutcome'
    BY <2>2 DEF WithOutcome
  <2>4. /\ OutcomesCounted' /\ SlotsTruthful' /\ SlotsCurrent'
        /\ executed'[complete_id + 1] = <<w, "FAILED">>
    BY <2>1, <2>2, <2>3, DecideOutcome
  <2>5. OutcomeHeld'
    BY <2>2, <2>4 DEF OutcomeHeld, QueueInv, AtMostOne
  <2> QED
    BY <2>4, <2>5 DEF OutcomeInv
<1>11. CASE StopSignal
  <2>1. PICK w : w \in stopper.work
    BY <1>11 DEF StopSignal, QueueInv
  <2>2. /\ "FAILED" \in Outcomes /\ Signal("FAILED") /\ UNCHANGED executed
        /\ executed[complete_id + 1][2] = "FAILED"
    BY <1>11, <2>1 DEF StopSignal, OutcomeInv, OutcomeHeld, Outcomes
  <2>3. SlotsTruthful' /\ SlotsCurrent'
    BY <2>2, SignalOutcome DEF OutcomeInv
  <2>4. WithOutcome /\ controller.pc = "exited" /\ ~ WithOutcome'
    BY <1>0, <1>11 DEF StopSignal, OthersOfStopper, WithOutcome, QueueTypes, QueueInv
  <2>5. OutcomesCounted' /\ OutcomeHeld'
    BY <1>0, <2>2, <2>4 DEF OutcomeInv, OutcomesCounted, OutcomeHeld, Signal, QueueTypes, WithOutcome
  <2> QED
    BY <2>3, <2>5 DEF OutcomeInv
<1>12. CASE UNCHANGED vars
  BY <1>1, <1>12 DEF vars
<1> QED
  BY <1>3, <1>4, <1>5, <1>6, <1>7, <1>8, <1>9, <1>10, <1>11, <1>12
  DEF Next, ControllerStep, StopperStep

-----------------------------------------------------------------------------
(* What the callers are told *)

(* Nobody has asked or been told anything when the stream opens. *)
LEMMA CallerInit == Init => CallerInv
BY DEF Init, CallerInv, Located, Told

(* A caller that does not move, while no request does: more outcomes and   *)
(* more completions keep what it knows, and a raised exit flag stays.      *)
LEMMA BystanderTold ==
  ASSUME TypeOK, NEW c \in Callers, Told(c), UNCHANGED caller[c], exiting => exiting',
         Len(executed') \in Nat, Len(executed') >= Len(executed),
         \A n \in 1 .. Len(executed) : executed'[n] = executed[n],
         complete_id' \in Nat, complete_id' >= complete_id
  PROVE  Told(c)' /\ (Decided(c) => Decided(c)')
<1>1. Len(executed) \in Nat /\ complete_id \in Nat /\ caller[c].id \in Nat
  BY DEF TypeOK
<1>2. ResultSlots \in Nat
  BY SlotsAssumption
<1>3. Decided(c) => Decided(c)'
  BY <1>1 DEF Decided, Asked
<1> QED
  BY <1>1, <1>2, <1>3 DEF Told

(* A step that leaves the record alone.                                    *)
LEMMA QuietTold ==
  ASSUME TypeOK, NEW c \in Callers, Told(c), UNCHANGED <<caller[c], executed, complete_id>>,
         exiting => exiting'
  PROVE  Told(c)' /\ (Decided(c) => Decided(c)')
BY DEF TypeOK, Told, Decided, Asked

(* Somebody else's request enters the queue: no token was in it. *)
LEMMA BystanderEnqueue ==
  ASSUME TypeOK, QueueInv, NEW c \in Callers, Located(c), Told(c), UNCHANGED caller[c],
         NEW f, NEW token, Enqueue(f, token),
         UNCHANGED <<completion, exiting, controller, stopper, published, executed>>
  PROVE  Located(c)' /\ Told(c)'
<1> USE DEF completion
<1>1. Told(c)' /\ (Decided(c) => Decided(c)')
  BY QuietTold
<1>2. accepting /\ \A w \in pending : w.token = NoToken
  BY DEF Enqueue, Refused
<1>3. stopper.work = {}
  BY <1>2, TypesOfQueue DEF QueueInv, QueueTypes
<1>4. Asked(c)' = Asked(c) /\ Asked(c).token = caller[c].token
  BY DEF Asked
<1> QED
  BY <1>1, <1>2, <1>3, <1>4 DEF Located

(* A waiting caller whose identity is completed has its request decided;   *)
(* what the result table says of it is the outcome, or too old.            *)
LEMMA DoneTold ==
  ASSUME TypeOK, QueueInv, GateInv, OutcomeInv, CallerInv, NEW c \in Callers, WaitDone(c)
  PROVE  Located(c)' /\ Told(c)'
<1> DEFINE id == caller[c].id
           slot == results[id % ResultSlots]
<1>1. /\ id \in Nat /\ complete_id \in Nat /\ request_id \in Nat
      /\ Len(executed) \in Nat /\ complete_id <= Len(executed)
  BY DEF TypeOK, OutcomeInv, OutcomesCounted
<1>2. id \in 1 .. complete_id /\ id \in 1 .. Len(executed)
  BY <1>1 DEF WaitDone, GateInv
<1>3. id % ResultSlots \in 0 .. ResultSlots - 1
  BY <1>1, SlotsAssumption
<1>4. slot.id \in Nat /\ slot.id >= id /\ slot.id # 0
  BY <1>1, <1>2, <1>3 DEF TypeOK, OutcomeInv, SlotsCurrent
<1>5. /\ slot.id \in 1 .. complete_id
      /\ slot.id % ResultSlots = id % ResultSlots
      /\ slot.result = executed[slot.id][2]
  BY <1>3, <1>4 DEF OutcomeInv, SlotsTruthful
<1>6. caller[c].token # NoToken => Decided(c)
  <2>1. SUFFICES ASSUME caller[c].token # NoToken PROVE Decided(c)
    OBVIOUS
  <2>2. Located(c) /\ caller[c].pc = "waiting"
    BY DEF CallerInv, WaitDone
  <2>3. Asked(c) \notin pending \/ id # request_id
    BY <1>1, <1>2 DEF QueueInv, One
  <2>4. Asked(c) \notin stopper.work \/ id # request_id
    BY <1>1, <1>2 DEF QueueInv, One
  <2> QED
    BY <1>1, <1>2, <2>1, <2>2, <2>3, <2>4 DEF Located
<1>7. slot.id # id => complete_id >= id + ResultSlots
  <2>1. SUFFICES ASSUME slot.id # id PROVE complete_id >= id + ResultSlots
    OBVIOUS
  <2>2. slot.id >= id + ResultSlots
    BY <1>1, <1>4, <1>5, <2>1, SlotDistance
  <2> QED
    BY <1>1, <1>4, <1>5, <2>2, SlotsAssumption
<1>8. PICK rc : /\ Return(c, rc)
                /\ rc = IF slot.id = id THEN slot.result ELSE "FAILED"
  BY DEF WaitDone, SlotOf
<1> HIDE DEF id, slot
<1>9. /\ caller'[c].pc = "idle" /\ caller'[c].rc = rc /\ caller'[c].id = id
      /\ caller'[c].token = caller[c].token /\ caller'[c].freq = caller[c].freq
  BY <1>8 DEF Return, TypeOK, id
<1>10. UNCHANGED <<executed, complete_id>>
  BY DEF WaitDone, OthersOfCaller, history
<1>11. Decided(c) => Decided(c)'
  BY <1>9, <1>10 DEF Decided, Asked, id
<1>12. Located(c)'
  BY <1>9 DEF Located
<1>13. Told(c)'
  BY <1>2, <1>5, <1>6, <1>7, <1>8, <1>9, <1>10, <1>11 DEF Told
<1> QED
  BY <1>12, <1>13

(* A step of a caller, seen by another one: only a new request matters. *)
LEMMA OtherCaller ==
  ASSUME TypeOK, QueueInv, CallerInv, NEW c \in Callers, NEW d \in Callers, c # d, CallerStep(d)
  PROVE  Located(c)' /\ Told(c)'
<1> USE DEF queue, completion, history
<1>1. Located(c) /\ Told(c)
  BY DEF CallerInv
<1>2. UNCHANGED caller[c]
  BY DEF TypeOK, CallerStep, Tune, TuneDeferred, WaitDone, WaitShutdown, WaitTimeout, Return
<1>3. ASSUME NEW f \in Freqs, NEW tagged \in BOOLEAN, Tune(d, f, tagged)
      PROVE  Located(c)' /\ Told(c)'
  BY <1>1, <1>2, <1>3, BystanderEnqueue DEF Tune, Call
<1>4. ASSUME UNCHANGED <<queue, complete_id, exiting, controller, stopper, executed>>
      PROVE  Located(c)' /\ Told(c)'
  <2>1. Told(c)' /\ (Decided(c) => Decided(c)')
    BY <1>1, <1>2, <1>4, QuietTold
  <2> QED
    BY <1>1, <1>2, <1>4, <2>1 DEF Located, Asked
<1>5. ASSUME TuneDeferred(d) \/ WaitDone(d) \/ WaitShutdown(d) \/ WaitTimeout(d)
      PROVE  Located(c)' /\ Told(c)'
  BY <1>4, <1>5 DEF TuneDeferred, Call, WaitDone, WaitShutdown, WaitTimeout, OthersOfCaller
<1> QED
  BY <1>3, <1>5 DEF CallerStep

(* A step of a caller, seen by itself. *)
LEMMA SameCaller ==
  ASSUME TypeOK, QueueInv, GateInv, OutcomeInv, CallerInv, NEW c \in Callers, CallerStep(c)
  PROVE  Located(c)' /\ Told(c)'
<1> USE DEF queue, completion, history
<1>1. ASSUME NEW f \in Freqs, NEW tagged \in BOOLEAN, Tune(c, f, tagged)
      PROVE  Located(c)' /\ Told(c)'
  <2>1. caller'[c] = [pc |-> "waiting", id |-> request_id', token |-> NextToken(tagged),
                      freq |-> f, rc |-> "none"]
    BY <1>1 DEF Tune, TypeOK
  <2>2. pending' = {[freq |-> f, token |-> NextToken(tagged)]}
    BY <1>1 DEF Tune, Enqueue
  <2> QED
    BY <2>1, <2>2 DEF Located, Told, Asked
<1>2. CASE TuneDeferred(c)
  <2>1. caller'[c].pc = "idle" /\ caller'[c].rc = "DEFERRED"
    BY <1>2 DEF TuneDeferred, TypeOK
  <2> QED
    BY <2>1 DEF Located, Told
<1>3. CASE WaitDone(c)
  BY <1>3, DoneTold
<1>4. CASE WaitShutdown(c)
  <2>1. caller'[c].pc = "idle" /\ caller'[c].rc = "FAILED" /\ exiting'
    BY <1>4 DEF WaitShutdown, OthersOfCaller, Return, TypeOK
  <2> QED
    BY <2>1 DEF Located, Told
<1>5. CASE WaitTimeout(c)
  <2>1. caller'[c].pc = "idle" /\ caller'[c].rc = "TIMEOUT"
    BY <1>5 DEF WaitTimeout, Return, TypeOK
  <2> QED
    BY <2>1 DEF Located, Told
<1> QED
  BY <1>1, <1>2, <1>3, <1>4, <1>5 DEF CallerStep

(* Deciding the next outcome decides the request of the caller it is for.  *)
LEMMA DecideTold ==
  ASSUME TypeOK, OutcomeInv, CallerInv, NEW c \in Callers,
         NEW work, NEW w \in work, AtMostOne(work), NEW result, ~ WithOutcome,
         executed' = Append(executed, <<w, result>>),
         UNCHANGED <<exiting, caller, complete_id>>
  PROVE  /\ Told(c)' /\ (Decided(c) => Decided(c)')
         /\ caller[c].id = complete_id + 1 /\ Asked(c) \in work => Decided(c)'
<1>1. /\ Len(executed) \in Nat /\ Len(executed') = Len(executed) + 1
      /\ \A n \in 1 .. Len(executed) : executed'[n] = executed[n]
      /\ executed'[Len(executed) + 1] = <<w, result>>
  BY Recorded
<1>2. Len(executed) = complete_id /\ complete_id \in Nat
  BY DEF OutcomeInv, OutcomesCounted, TypeOK
<1>3. Told(c)' /\ (Decided(c) => Decided(c)')
  BY <1>1, <1>2, BystanderTold DEF CallerInv
<1>4. ASSUME caller[c].id = complete_id + 1, Asked(c) \in work PROVE Decided(c)'
  <2>1. Asked(c) = w
    BY <1>4 DEF AtMostOne
  <2> QED
    BY <1>1, <1>2, <1>4, <2>1 DEF Decided, Asked
<1> QED
  BY <1>3, <1>4

(* Every step keeps the callers' requests located and their answers true.  *)
LEMMA CallerKept ==
  TypeOK /\ QueueInv /\ GateInv /\ OutcomeInv /\ CallerInv /\ [Next]_vars => CallerInv'
<1> SUFFICES ASSUME TypeOK, QueueInv, GateInv, OutcomeInv, CallerInv, [Next]_vars,
                    NEW c \in Callers
             PROVE  Located(c)' /\ Told(c)'
  BY DEF CallerInv
<1> USE DEF queue, completion, history
<1>0. QueueTypes /\ Located(c) /\ Told(c)
  BY TypesOfQueue DEF CallerInv
<1>1. ASSUME NEW d \in Callers, CallerStep(d) PROVE Located(c)' /\ Told(c)'
  BY <1>1, OtherCaller, SameCaller
<1>2. ASSUME NEW f \in Freqs, TuneFromUdp(f) PROVE Located(c)' /\ Told(c)'
  BY <1>0, <1>2, BystanderEnqueue DEF TuneFromUdp, Call
<1>3. ASSUME UNCHANGED <<caller, executed, complete_id>>, exiting => exiting',
             Decided(c)' => Located(c)', Decided(c) \/ Located(c)'
      PROVE  Located(c)' /\ Told(c)'
  BY <1>0, <1>3, QuietTold
<1>4. CASE ControllerTake
  <2>1. /\ controller'.pc = "applying" /\ controller'.work = pending /\ pending # {}
        /\ UNCHANGED <<exiting, caller, executed, complete_id, request_id, stopper>>
    BY <1>0, <1>4 DEF ControllerTake, OthersOfController, QueueTypes
  <2>2. request_id = complete_id + 1
    BY <1>0, <1>4, <2>1 DEF ControllerTake, QueueInv, QueueTypes, One
  <2>3. Decided(c) \/ Located(c)'
    BY <1>0, <1>4, <2>1, <2>2 DEF Located, Asked, ControllerTake, QueueTypes
  <2>4. Decided(c)' => Located(c)'
    BY DEF Located
  <2> QED
    BY <1>3, <2>1, <2>3, <2>4
<1>5. CASE ControllerExit \/ ControllerPublish
  <2>1. /\ controller.pc # "applying" /\ controller'.pc # "applying"
        /\ UNCHANGED <<exiting, caller, executed, complete_id, request_id, pending, stopper>>
    BY <1>0, <1>5 DEF ControllerExit, ControllerPublish, OthersOfController, QueueTypes
  <2>2. Decided(c) \/ Located(c)'
    BY <1>0, <2>1 DEF Located, Asked
  <2> QED
    BY <1>3, <2>1, <2>2 DEF Located
<1>6. ASSUME NEW result \in Outcomes, ControllerApply(result) PROVE Located(c)' /\ Told(c)'
  <2>1. PICK w \in controller.work : executed' = Append(executed, <<w, result>>)
    BY <1>6 DEF ControllerApply
  <2>2. /\ controller.pc = "applying" /\ AtMostOne(controller.work)
        /\ UNCHANGED <<exiting, caller, complete_id, request_id, pending, stopper>>
    BY <1>6 DEF ControllerApply, OthersOfController, QueueInv
  <2>3. ~ WithOutcome
    BY <1>0, <2>2 DEF WithOutcome, QueueInv
  <2>4. /\ Told(c)' /\ (Decided(c) => Decided(c)')
        /\ caller[c].id = complete_id + 1 /\ Asked(c) \in controller.work => Decided(c)'
    BY <2>1, <2>2, <2>3, DecideTold
  <2> QED
    BY <1>0, <2>2, <2>4 DEF Located, Asked
<1>7. ASSUME NEW result, Signal(result), UNCHANGED <<exiting, caller, executed>>
      PROVE  Told(c)' /\ (Decided(c) => Decided(c)')
  BY <1>0, <1>7, BystanderTold DEF Signal, QueueTypes, TypeOK
<1>8. CASE ControllerSignal
  <2>1. /\ controller.pc = "signalling"
        /\ UNCHANGED <<caller, request_id, pending, stopper>>
    BY <1>8 DEF ControllerSignal, OthersOfController
  <2>2. Told(c)' /\ (Decided(c) => Decided(c)')
    BY <1>7, <1>8 DEF ControllerSignal, OthersOfController
  <2> QED
    BY <1>0, <2>1, <2>2 DEF Located, Asked
<1>9. CASE StopSignal
  <2>1. /\ stopper.pc = "signalling" /\ controller.pc = "exited"
        /\ UNCHANGED <<caller, request_id, pending, controller>>
    BY <1>9 DEF StopSignal, OthersOfStopper, QueueInv
  <2>2. Told(c)' /\ (Decided(c) => Decided(c)')
    BY <1>7, <1>9 DEF StopSignal, OthersOfStopper
  <2> QED
    BY <1>0, <2>1, <2>2 DEF Located, Asked
<1>10. CASE RaiseExit
  BY <1>0, <1>3, <1>10 DEF RaiseExit, Located, Asked
<1>11. CASE StopBegin \/ StopJoin
  <2>1. /\ stopper'.work = stopper.work /\ stopper'.pc # "signalling"
        /\ UNCHANGED <<caller, executed, complete_id, request_id, pending, controller>>
        /\ exiting => exiting'
    BY <1>0, <1>11 DEF StopBegin, StopJoin, OthersOfStopper, QueueTypes
  <2>2. Decided(c) \/ Located(c)'
    BY <1>0, <2>1 DEF Located, Asked
  <2> QED
    BY <1>3, <2>1, <2>2 DEF Located
<1>12. CASE StopDetach
  <2>1. /\ stopper.work = {} /\ stopper'.work = pending /\ stopper'.pc # "signalling"
        /\ UNCHANGED <<exiting, caller, executed, complete_id, request_id, controller>>
    BY <1>12 DEF StopDetach, OthersOfStopper, QueueInv
  <2>2. Decided(c) \/ Located(c)'
    BY <1>0, <2>1 DEF Located, Asked
  <2> QED
    BY <1>3, <2>1, <2>2 DEF Located
<1>13. CASE StopPublish
  <2>1. PICK w \in stopper.work : executed' = Append(executed, <<w, "FAILED">>)
    BY <1>13 DEF StopPublish
  <2>2. /\ stopper.pc = "publishing" /\ controller.pc = "exited" /\ AtMostOne(stopper.work)
        /\ pending = {} /\ controller.work = {} /\ stopper.work # {}
        /\ UNCHANGED <<exiting, caller, complete_id, request_id, pending, controller>>
    BY <1>0, <1>13 DEF StopPublish, OthersOfStopper, QueueInv
  <2>3. ~ WithOutcome
    BY <2>2 DEF WithOutcome
  <2>4. /\ Told(c)' /\ (Decided(c) => Decided(c)')
        /\ caller[c].id = complete_id + 1 /\ Asked(c) \in stopper.work => Decided(c)'
    BY <2>1, <2>2, <2>3, DecideTold
  <2>5. request_id = complete_id + 1
    BY <1>0, <2>2 DEF QueueInv, QueueTypes, One
  <2> QED
    BY <1>0, <2>2, <2>4, <2>5 DEF Located, Asked
<1>14. CASE UNCHANGED vars
  BY <1>0, <1>3, <1>14 DEF vars, Located, Asked
<1> QED
  BY <1>1, <1>2, <1>4, <1>5, <1>6, <1>8, <1>9, <1>10, <1>11, <1>12, <1>13, <1>14
  DEF Next, ControllerStep, StopperStep

-----------------------------------------------------------------------------
(* Tokens *)

(* No token is drawn when the stream opens. *)
LEMMA TokenInit == Init => TokenInv
BY DEF Init, TokenInv, TokensDrawn, TokensApart, TokensDistinct, PublishedOnce, PublishedTrue,
   PublishedAll, Undecided, Applying, Detached

(* A step that neither records nor publishes, and queues nothing new. *)
LEMMA TokensQuiet ==
  ASSUME TypeOK, TokenInv, UNCHANGED <<executed, published>>,
         calls' \in Nat, calls' >= calls, Undecided' \subseteq Undecided, TokensApart',
         \A n \in 1 .. Len(executed) : Publishable(n)' <=> Publishable(n)
  PROVE  TokenInv'
<1>1. /\ calls \in Nat
      /\ \A w \in Undecided : w.token \in Nat
      /\ \A n \in 1 .. Len(executed) : Token(n) \in Nat
  BY DEF TypeOK, Undecided, Applying, Detached, Work, Tokens, NoToken, Token
<1>2. TokensDrawn'
  BY <1>1 DEF TokenInv, TokensDrawn, Token
<1>3. TokensDistinct'
  BY DEF TokenInv, TokensDistinct, Token
<1>4. PublishedOnce' /\ PublishedTrue' /\ PublishedAll'
  BY DEF TokenInv, PublishedOnce, PublishedTrue, PublishedAll, Token
<1> QED
  BY <1>2, <1>3, <1>4 DEF TokenInv

(* A new request brings no token or a new one. *)
LEMMA TokensEnqueue ==
  ASSUME TypeOK, TokenInv, NEW f \in Freqs, NEW tagged \in BOOLEAN,
         Call, Enqueue(f, NextToken(tagged))
  PROVE  TokenInv'
<1> DEFINE w == [freq |-> f, token |-> NextToken(tagged)]
<1>1. /\ calls \in Nat /\ calls' = calls + 1
      /\ \A v \in Undecided : v.token \in Nat
      /\ \A n \in 1 .. Len(executed) : Token(n) \in Nat
  BY DEF TypeOK, Call, Undecided, Applying, Detached, Work, Tokens, NoToken, Token
<1>2. pending' = {w} /\ w.token \in {0, calls + 1}
  BY DEF Enqueue, NextToken, NoToken
<1> HIDE DEF w
<1>3. /\ Applying' = Applying /\ Detached' = Detached
      /\ UNCHANGED <<executed, published, controller, complete_id>>
  BY DEF Call, completion, Applying, Detached
<1>4. Undecided' = {w} \cup Applying \cup Detached
  BY <1>2, <1>3 DEF Undecided
<1>5. TokensDrawn'
  BY <1>1, <1>2, <1>3, <1>4 DEF TokenInv, TokensDrawn, Undecided, Token
<1>6. TokensApart'
  BY <1>1, <1>2, <1>3 DEF TokenInv, TokensApart, TokensDrawn, Undecided, NoToken
<1>7. TokensDistinct'
  BY <1>1, <1>2, <1>3, <1>4 DEF TokenInv, TokensDistinct, TokensDrawn, Undecided, NoToken, Token
<1>8. PublishedOnce' /\ PublishedTrue' /\ PublishedAll'
  BY <1>3 DEF TokenInv, PublishedOnce, PublishedTrue, PublishedAll, Publishable, Token
<1> QED
  BY <1>5, <1>6, <1>7, <1>8 DEF TokenInv

(* An undecided request enters the record, and leaves the undecided ones,  *)
(* which bear other tokens. *)
LEMMA TokensRecord ==
  ASSUME TypeOK, TokenInv, NEW w \in Undecided, NEW result,
         executed' = Append(executed, <<w, result>>), UNCHANGED calls,
         Undecided' \subseteq Undecided,
         \A v \in Undecided' : w.token # NoToken => v.token # w.token
  PROVE  TokensDrawn' /\ TokensDistinct'
<1>1. /\ Len(executed) \in Nat /\ Len(executed') = Len(executed) + 1
      /\ \A n \in 1 .. Len(executed) : executed'[n] = executed[n]
      /\ executed'[Len(executed) + 1] = <<w, result>>
  BY Recorded
<1>2. \A n \in 1 .. Len(executed') :
        \/ n = Len(executed) + 1 /\ Token(n)' = w.token
        \/ n \in 1 .. Len(executed) /\ Token(n)' = Token(n)
  BY <1>1 DEF Token
<1>3. TokensDrawn'
  BY <1>2 DEF TokenInv, TokensDrawn
<1>4. TokensDistinct'
  BY <1>2 DEF TokenInv, TokensDistinct
<1> QED
  BY <1>3, <1>4

(* Publishing the next outcome of the record. *)
LEMMA TokensPublish ==
  ASSUME TypeOK, TokensDistinct', NEW n \in Nat, NEW w \in Work, NEW result,
         PublishedOnce, executed'[n] = <<w, result>>, Len(executed') = n,
         \A m \in 1 .. Len(executed') : Publishable(m)',
         \A i \in 1 .. Len(published) : \E m \in 1 .. n - 1 :
            Token(m)' = published[i].token /\ executed'[m][2] = published[i].result,
         \A m \in 1 .. n - 1 : Token(m)' # NoToken =>
            \E i \in 1 .. Len(published) : published[i].token = Token(m)',
         n > 0,
         published' = IF w.token = NoToken THEN published
                      ELSE Append(published, [token |-> w.token, result |-> result])
  PROVE  PublishedOnce' /\ PublishedTrue' /\ PublishedAll'
<1>1. Token(n)' = w.token
  BY DEF Token
<1>2. CASE w.token = NoToken
  <2>1. published' = published
    BY <1>2
  <2>2. PublishedOnce' /\ PublishedTrue'
    <3>1. \A m \in 1 .. n - 1 : m \in 1 .. Len(executed')
      OBVIOUS
    <3>2. PublishedTrue'
      BY <2>1, <3>1 DEF PublishedTrue
    <3> QED
      BY <2>1, <3>2 DEF PublishedOnce
  <2>3. \A m \in 1 .. Len(executed') : m \in 1 .. n - 1 \/ m = n
    OBVIOUS
  <2>4. PublishedAll'
    BY <1>1, <1>2, <2>1, <2>3 DEF PublishedAll
  <2> QED
    BY <2>2, <2>4
<1>3. CASE w.token # NoToken
  <2>1. /\ Len(published) \in Nat /\ Len(published') = Len(published) + 1
        /\ \A i \in 1 .. Len(published) : published'[i] = published[i]
        /\ published'[Len(published) + 1] = [token |-> w.token, result |-> result]
    BY <1>3 DEF TypeOK
  <2>2. \A i \in 1 .. Len(published') : i \in 1 .. Len(published) \/ i = Len(published) + 1
    BY <2>1
  <2>3. \A i \in 1 .. Len(published) : published[i].token # w.token
    <3>1. SUFFICES ASSUME NEW i \in 1 .. Len(published), published[i].token = w.token
                   PROVE  FALSE
      OBVIOUS
    <3>2. PICK m \in 1 .. n - 1 : Token(m)' = published[i].token
      OBVIOUS
    <3>3. m \in 1 .. Len(executed') /\ n \in 1 .. Len(executed') /\ m # n
      OBVIOUS
    <3> QED
      BY <1>1, <1>3, <3>1, <3>2, <3>3 DEF TokensDistinct
  <2>4. PublishedOnce'
    BY <2>1, <2>2, <2>3 DEF PublishedOnce
  <2>5. PublishedTrue'
    <3>1. ASSUME NEW i \in 1 .. Len(published)
          PROVE  \E m \in 1 .. Len(executed') : /\ Publishable(m)'
                   /\ Token(m)' = published'[i].token /\ executed'[m][2] = published'[i].result
      <4>1. PICK m \in 1 .. n - 1 :
              Token(m)' = published[i].token /\ executed'[m][2] = published[i].result
        OBVIOUS
      <4>2. m \in 1 .. Len(executed') /\ published'[i] = published[i]
        BY <2>1
      <4> QED
        BY <4>1, <4>2
    <3>2. /\ n \in 1 .. Len(executed') /\ Publishable(n)'
          /\ Token(n)' = published'[Len(published) + 1].token
          /\ executed'[n][2] = published'[Len(published) + 1].result
      BY <1>1, <2>1
    <3> QED
      BY <2>2, <3>1, <3>2 DEF PublishedTrue
  <2>6. PublishedAll'
    <3>1. ASSUME NEW m \in 1 .. n - 1, Token(m)' # NoToken
          PROVE  \E i \in 1 .. Len(published') : published'[i].token = Token(m)'
      <4>1. PICK i \in 1 .. Len(published) : published[i].token = Token(m)'
        BY <3>1
      <4>2. i \in 1 .. Len(published') /\ published'[i] = published[i]
        BY <2>1
      <4> QED
        BY <4>1, <4>2
    <3>2. Len(published) + 1 \in 1 .. Len(published')
      BY <2>1
    <3>3. \A m \in 1 .. Len(executed') : m \in 1 .. n - 1 \/ m = n
      OBVIOUS
    <3> QED
      BY <1>1, <2>1, <3>1, <3>2, <3>3 DEF PublishedAll
  <2> QED
    BY <2>4, <2>5, <2>6
<1> QED
  BY <1>2, <1>3

(* Every step keeps tokens apart and publishes each in its turn. *)
LEMMA TokenStep == TypeOK /\ QueueInv /\ OutcomeInv /\ TokenInv /\ [Next]_vars => TokenInv'
<1> SUFFICES ASSUME TypeOK, QueueInv, OutcomeInv, TokenInv, [Next]_vars
             PROVE  TokenInv'
  OBVIOUS
<1> USE DEF queue, completion, history
<1>0. QueueTypes /\ calls \in Nat
  BY TypesOfQueue DEF TypeOK
<1>1. ASSUME UNCHANGED <<executed, published, controller, stopper, pending, complete_id>>,
             calls' \in {calls, calls + 1}
      PROVE  TokenInv'
  <2>1. Undecided' = Undecided /\ TokensApart'
    BY <1>1 DEF TokenInv, TokensApart, Undecided, Applying, Detached
  <2> QED
    BY <1>0, <1>1, <2>1, TokensQuiet DEF Publishable
<1>2. ASSUME NEW c \in Callers, CallerStep(c) PROVE TokenInv'
  <2>1. ASSUME NEW f \in Freqs, NEW tagged \in BOOLEAN, Tune(c, f, tagged) PROVE TokenInv'
    BY <2>1, TokensEnqueue DEF Tune
  <2>2. CASE TuneDeferred(c)
    BY <1>1, <2>2 DEF TuneDeferred, Call
  <2>3. CASE WaitDone(c) \/ WaitShutdown(c) \/ WaitTimeout(c)
    BY <1>1, <2>3 DEF WaitDone, WaitShutdown, WaitTimeout, OthersOfCaller
  <2> QED
    BY <1>2, <2>1, <2>2, <2>3 DEF CallerStep
<1>3. ASSUME NEW f \in Freqs, TuneFromUdp(f) PROVE TokenInv'
  <2>1. NextToken(FALSE) = NoToken
    BY DEF NextToken
  <2> QED
    BY <1>3, <2>1, TokensEnqueue DEF TuneFromUdp
<1>4. CASE ControllerTake
  <2>1. /\ controller.pc = "waiting" /\ controller'.pc = "applying"
        /\ controller'.work = pending /\ pending' = {} /\ stopper.work = {}
        /\ UNCHANGED <<executed, published, stopper, complete_id, calls>>
    BY <1>0, <1>4 DEF ControllerTake, OthersOfController, QueueTypes, QueueInv
  <2>2. Undecided' \subseteq Undecided /\ TokensApart'
    BY <2>1 DEF TokensApart, Undecided, Applying, Detached
  <2> QED
    BY <1>0, <2>1, <2>2, TokensQuiet DEF Publishable
<1>5. CASE ControllerExit \/ ControllerSignal
  <2>1. /\ controller.pc \notin {"applying", "publishing"}
        /\ controller'.pc \notin {"applying", "publishing"}
        /\ UNCHANGED <<executed, published, stopper, pending, calls>>
    BY <1>0, <1>5 DEF ControllerExit, ControllerSignal, OthersOfController, QueueTypes
  <2>2. Undecided' \subseteq Undecided /\ TokensApart'
    BY <2>1 DEF TokensApart, Undecided, Applying, Detached
  <2> QED
    BY <1>0, <2>1, <2>2, TokensQuiet DEF Publishable
<1>6. ASSUME NEW result \in Outcomes, ControllerApply(result) PROVE TokenInv'
  <2>1. PICK w \in controller.work : executed' = Append(executed, <<w, result>>)
    BY <1>6 DEF ControllerApply
  <2>2. /\ controller.pc = "applying" /\ controller'.pc = "publishing"
        /\ UNCHANGED <<published, stopper, pending, complete_id, calls>>
    BY <1>0, <1>6 DEF ControllerApply, OthersOfController, QueueTypes
  <2>3. w \in Undecided /\ w \in Applying /\ Undecided' = pending \cup Detached
    BY <2>2 DEF Undecided, Applying, Detached
  <2>4. TokensDrawn' /\ TokensDistinct'
    <3>1. Undecided' \subseteq Undecided
      BY <2>3 DEF Undecided
    <3>2. \A v \in Undecided' : w.token # NoToken => v.token # w.token
      BY <2>3 DEF TokenInv, TokensApart
    <3> QED
      BY <2>1, <2>2, <2>3, <3>1, <3>2, TokensRecord
  <2>5. TokensApart'
    BY <2>2 DEF TokensApart, Applying
  <2>6. /\ Len(executed) = complete_id /\ Len(executed') = complete_id + 1
        /\ \A n \in 1 .. complete_id : executed'[n] = executed[n]
    <3>1. ~ WithOutcome
      BY <2>2 DEF WithOutcome, QueueInv
    <3>2. Len(executed) = complete_id
      BY <1>0, <3>1 DEF OutcomeInv, OutcomesCounted, QueueTypes
    <3> QED
      BY <2>1, <3>2, Recorded
  <2>7. /\ \A n \in 1 .. Len(executed') : Publishable(n)' <=> n \in 1 .. complete_id
        /\ \A n \in 1 .. complete_id : Token(n)' = Token(n) /\ n \in 1 .. Len(executed')
    BY <1>0, <2>2, <2>6 DEF Publishable, Token, QueueTypes
  <2>8. PublishedOnce' /\ PublishedTrue' /\ PublishedAll'
    BY <2>2, <2>6, <2>7 DEF TokenInv, PublishedOnce, PublishedTrue, PublishedAll, Publishable
  <2> QED
    BY <2>4, <2>5, <2>8 DEF TokenInv
<1>7. CASE ControllerPublish
  <2>1. PICK w \in controller.work :
          published' = IF w.token = NoToken THEN published
                       ELSE Append(published, [token |-> w.token, result |-> controller.result])
    BY <1>7 DEF ControllerPublish, Publish
  <2>2. /\ controller.pc = "publishing" /\ controller'.pc = "signalling"
        /\ UNCHANGED <<executed, stopper, pending, complete_id, calls>>
    BY <1>0, <1>7 DEF ControllerPublish, OthersOfController, QueueTypes
  <2>3. Undecided' = Undecided /\ TokensApart'
    BY <2>2 DEF TokensApart, Undecided, Applying, Detached
  <2>4. TokensDrawn' /\ TokensDistinct'
    BY <2>2, <2>3 DEF TokenInv, TokensDrawn, TokensDistinct, Token
  <2> DEFINE n == complete_id + 1
  <2>5. n \in Nat /\ n > 0 /\ Len(executed) = n /\ w \in Work
        /\ executed[n] = <<w, controller.result>>
    BY <1>0, <2>2 DEF OutcomeInv, OutcomesCounted, OutcomeHeld, WithOutcome, QueueTypes, TypeOK
  <2>6. n - 1 = complete_id /\ \A m \in 1 .. n - 1 : m \in 1 .. Len(executed) /\ m <= complete_id
    BY <1>0, <2>5 DEF QueueTypes
  <2> HIDE DEF n
  <2>7. \A m : (Token(m)' = Token(m)) /\ executed'[m] = executed[m]
    BY <2>2 DEF Token
  <2>8. ASSUME NEW i \in 1 .. Len(published)
        PROVE  \E m \in 1 .. n - 1 :
                 Token(m)' = published[i].token /\ executed'[m][2] = published[i].result
    <3>1. PICK m \in 1 .. Len(executed) :
            Publishable(m) /\ Token(m) = published[i].token /\ executed[m][2] = published[i].result
      BY DEF TokenInv, PublishedTrue
    <3>2. m \in 1 .. n - 1
      BY <1>0, <2>2, <2>6, <3>1 DEF Publishable, QueueTypes
    <3> QED
      BY <2>7, <3>1, <3>2
  <2>9. ASSUME NEW m \in 1 .. n - 1, Token(m)' # NoToken
        PROVE  \E i \in 1 .. Len(published) : published[i].token = Token(m)'
    BY <2>6, <2>7, <2>9 DEF TokenInv, PublishedAll, Publishable
  <2>10. \A m \in 1 .. Len(executed') : Publishable(m)'
    BY <2>2 DEF Publishable
  <2>11. PublishedOnce /\ executed'[n] = <<w, controller.result>> /\ Len(executed') = n
    BY <2>2, <2>5 DEF TokenInv
  <2>12. PublishedOnce' /\ PublishedTrue' /\ PublishedAll'
    <3> DEFINE result == controller.result
    <3> HIDE DEF result
    <3>1. /\ executed'[n] = <<w, result>>
          /\ published' = IF w.token = NoToken THEN published
                          ELSE Append(published, [token |-> w.token, result |-> result])
      BY <2>1, <2>11 DEF result
    <3> QED
      BY <2>4, <2>5, <2>8, <2>9, <2>10, <2>11, <3>1, TokensPublish
  <2> QED
    BY <2>3, <2>4, <2>12 DEF TokenInv
<1>8. CASE RaiseExit
  BY <1>1, <1>8 DEF RaiseExit
<1>9. CASE StopBegin \/ StopDetach \/ StopJoin \/ StopSignal
  <2>1. UNCHANGED <<executed, published, controller, calls>>
    BY <1>9 DEF StopBegin, StopDetach, StopJoin, StopSignal, OthersOfStopper
  <2>2. pending' \cup Detached' \subseteq pending \cup Detached
    <3>1. CASE StopBegin \/ StopJoin
      <4>1. UNCHANGED pending /\ stopper'.work = stopper.work /\ stopper.pc # "signalling"
        BY <1>0, <3>1 DEF StopBegin, StopJoin, QueueTypes
      <4> QED
        BY <4>1 DEF Detached
    <3>2. CASE StopDetach
      BY <3>2 DEF StopDetach, Detached
    <3>3. CASE StopSignal
      <4>1. UNCHANGED pending /\ stopper'.work = {}
        BY <1>0, <3>3 DEF StopSignal, QueueTypes
      <4> QED
        BY <4>1 DEF Detached
    <3> QED
      BY <1>9, <3>1, <3>2, <3>3
  <2>3. Undecided' \subseteq Undecided /\ TokensApart'
    BY <2>1, <2>2 DEF TokenInv, TokensApart, Undecided, Applying
  <2>4. complete_id' = complete_id \/ controller.pc = "exited"
    BY <1>9 DEF StopBegin, StopDetach, StopJoin, StopSignal, QueueInv
  <2> QED
    BY <1>0, <2>1, <2>3, <2>4, TokensQuiet DEF Publishable
<1>10. CASE StopPublish
  <2>1. PICK w \in stopper.work :
          published' = IF w.token = NoToken THEN published
                       ELSE Append(published, [token |-> w.token, result |-> "FAILED"])
    BY <1>10 DEF StopPublish, Publish
  <2>2. /\ stopper.pc = "publishing" /\ stopper'.pc = "signalling"
        /\ controller.pc = "exited" /\ pending = {} /\ AtMostOne(stopper.work)
        /\ UNCHANGED <<controller, pending, complete_id, calls>>
    BY <1>0, <1>10 DEF StopPublish, OthersOfStopper, QueueTypes, QueueInv
  <2>3. executed' = Append(executed, <<w, "FAILED">>)
    BY <1>10, <2>2 DEF StopPublish, AtMostOne
  <2>4. w \in Undecided /\ Undecided' = {} /\ TokensApart'
    BY <2>2 DEF Undecided, Applying, Detached, TokensApart
  <2>5. TokensDrawn' /\ TokensDistinct'
    BY <2>2, <2>3, <2>4, TokensRecord
  <2> DEFINE n == complete_id + 1
  <2>6. Len(executed) = complete_id
    BY <1>0, <2>2 DEF OutcomeInv, OutcomesCounted, WithOutcome, QueueTypes
  <2>7. /\ n \in Nat /\ n > 0 /\ n - 1 = Len(executed) /\ w \in Work /\ Len(executed') = n
        /\ executed'[n] = <<w, "FAILED">>
        /\ \A m \in 1 .. n - 1 : executed'[m] = executed[m]
    BY <1>0, <2>3, <2>6, Recorded DEF QueueTypes, TypeOK
  <2> HIDE DEF n
  <2>8. \A m \in 1 .. n - 1 : Token(m)' = Token(m)
    BY <2>7 DEF Token
  <2>9. ASSUME NEW i \in 1 .. Len(published)
        PROVE  \E m \in 1 .. n - 1 :
                 Token(m)' = published[i].token /\ executed'[m][2] = published[i].result
    <3>1. PICK m \in 1 .. Len(executed) :
            Token(m) = published[i].token /\ executed[m][2] = published[i].result
      BY DEF TokenInv, PublishedTrue
    <3>2. m \in 1 .. n - 1
      BY <2>7
    <3> QED
      BY <2>7, <2>8, <3>1, <3>2
  <2>10. ASSUME NEW m \in 1 .. n - 1, Token(m)' # NoToken
         PROVE  \E i \in 1 .. Len(published) : published[i].token = Token(m)'
    BY <2>2, <2>7, <2>8, <2>10 DEF TokenInv, PublishedAll, Publishable
  <2>11. \A m \in 1 .. Len(executed') : Publishable(m)'
    BY <2>2 DEF Publishable
  <2>12. PublishedOnce' /\ PublishedTrue' /\ PublishedAll'
    BY <2>1, <2>5, <2>7, <2>9, <2>10, <2>11, TokensPublish DEF TokenInv
  <2> QED
    BY <2>4, <2>5, <2>12 DEF TokenInv
<1>11. CASE UNCHANGED vars
  BY <1>1, <1>11 DEF vars
<1> QED
  BY <1>2, <1>3, <1>4, <1>5, <1>6, <1>7, <1>8, <1>9, <1>10, <1>11
  DEF Next, ControllerStep, StopperStep

-----------------------------------------------------------------------------
(* Theorems *)

IInv == TypeOK /\ QueueInv /\ GateInv /\ OutcomeInv /\ CallerInv /\ TokenInv

(* The four facts about tokens the runs check follow from it. *)
LEMMA TokensFollow == IInv => TokensConserved
<1> SUFFICES ASSUME IInv
             PROVE  TokensConserved
  OBVIOUS
<1>1. /\ Len(published) \in Nat /\ DOMAIN published = 1 .. Len(published)
      /\ Len(executed) \in Nat /\ DOMAIN executed = 1 .. Len(executed)
      /\ complete_id \in Nat
  BY DEF IInv, TypeOK
<1>2. \A i, j \in DOMAIN published : published[i].token = published[j].token => i = j
  BY <1>1 DEF IInv, TokenInv, PublishedOnce
<1>3. \A i \in DOMAIN published : \E n \in DOMAIN executed :
        executed[n][1].token = published[i].token /\ executed[n][2] = published[i].result
  BY <1>1 DEF IInv, TokenInv, PublishedTrue, Token
<1>4. \A n \in 1 .. complete_id : executed[n][1].token # NoToken =>
        \E i \in DOMAIN published : published[i].token = executed[n][1].token
  <2>1. complete_id <= Len(executed)
    BY <1>1 DEF IInv, OutcomeInv, OutcomesCounted
  <2>2. \A n \in 1 .. complete_id : n \in 1 .. Len(executed) /\ Publishable(n)
    BY <1>1, <2>1 DEF Publishable
  <2> QED
    BY <1>1, <2>2 DEF IInv, TokenInv, PublishedAll, Token
<1>5. ASSUME NEW c \in Callers, caller[c].pc = "waiting", caller[c].token # NoToken
      PROVE  \/ \E w \in InHand : w.token = caller[c].token
             \/ \E i \in DOMAIN published : published[i].token = caller[c].token
  <2>1. Located(c) /\ Asked(c).token = caller[c].token
    BY DEF IInv, CallerInv, Asked
  <2>2. CASE Asked(c) \in InHand
    BY <2>1, <2>2
  <2>3. CASE Decided(c)
    <3> DEFINE n == caller[c].id
    <3>1. n \in 1 .. Len(executed) /\ Token(n) = caller[c].token /\ executed[n][1] = Asked(c)
      BY <2>1, <2>3 DEF Decided, Token
    <3>2. CASE Publishable(n)
      BY <1>1, <1>5, <3>1, <3>2 DEF IInv, TokenInv, PublishedAll
    <3>3. CASE ~ Publishable(n)
      <4>1. controller.pc = "publishing" /\ n = complete_id + 1
        BY <1>1, <3>1, <3>3 DEF Publishable, IInv, OutcomeInv, OutcomesCounted, WithOutcome
      <4>2. PICK w : w \in controller.work
        BY <4>1 DEF IInv, QueueInv
      <4>3. w = Asked(c)
        BY <3>1, <4>1, <4>2 DEF IInv, OutcomeInv, OutcomeHeld
      <4> QED
        BY <2>1, <4>2, <4>3 DEF InHand
    <3> QED
      BY <3>2, <3>3
  <2> QED
    BY <1>5, <2>1, <2>2, <2>3 DEF Located, InHand
<1> QED
  BY <1>2, <1>3, <1>4, <1>5 DEF TokensConserved

-----------------------------------------------------------------------------
(* The order of the answers *)

HeldFirst == TokenOf(InService)
HeldNext == TokenOf(pending \cup Detached)

(* The token of no work, and that of one piece of it. *)
LEMMA TokenOfNone ==
  ASSUME NEW work, \A w \in work : w.token = NoToken
  PROVE  TokenOf(work) = << >>
BY DEF TokenOf

LEMMA TokenOfOne ==
  ASSUME NEW w, w.token # NoToken
  PROVE  TokenOf({w}) = << w.token >>
BY DEF TokenOf

(* Of any work there is one token at most, and somebody has it. *)
LEMMA TokenOfWork ==
  ASSUME NEW work, work \subseteq Work
  PROVE  /\ TokenOf(work) \in Seq(Tokens) /\ Len(TokenOf(work)) <= 1
         /\ \A i \in DOMAIN TokenOf(work) : \E w \in work : w.token = TokenOf(work)[i]
<1>1. CASE \E w \in work : w.token # NoToken
  <2> DEFINE v == CHOOSE w \in work : w.token # NoToken
  <2>1. v \in work /\ v.token # NoToken  BY <1>1
  <2>2. v.token \in Tokens  BY <2>1 DEF Work
  <2>3. TokenOf(work) = << v.token >>  BY <1>1 DEF TokenOf
  <2> HIDE DEF v
  <2>4. << v.token >> \in Seq(Tokens) /\ Len(<< v.token >>) = 1 /\ << v.token >>[1] = v.token
    BY <2>2
  <2>5. \A i \in DOMAIN << v.token >> : i = 1  OBVIOUS
  <2> QED
    BY <2>1, <2>3, <2>4, <2>5
<1>2. CASE \A w \in work : w.token = NoToken
  <2>1. TokenOf(work) = << >>  BY <1>2, TokenOfNone
  <2>2. << >> \in Seq(Tokens) /\ Len(<< >>) = 0 /\ DOMAIN << >> = {}  BY EmptySeq
  <2> QED
    BY <2>1, <2>2
<1> QED
  BY <1>1, <1>2

(* Two tokens are held at most, and their order is that of the two places. *)
LEMMA HeldTypes ==
  ASSUME TypeOK
  PROVE  /\ HeldFirst \in Seq(Tokens) /\ HeldNext \in Seq(Tokens)
         /\ Len(HeldFirst) <= 1 /\ Len(HeldNext) <= 1
<1>1. InService \subseteq Work /\ pending \cup Detached \subseteq Work
  BY DEF TypeOK, InService, Detached
<1> QED
  BY <1>1, TokenOfWork DEF HeldFirst, HeldNext

(* What is held or answered has been drawn by an earlier call. *)
LEMMA KnownDrawn ==
  ASSUME IInv, NEW t, Tunes!Known(t)
  PROVE  t <= calls
<1>0. TypeOK /\ QueueInv /\ OutcomeInv /\ TokenInv  BY DEF IInv
<1>1. ASSUME NEW i \in DOMAIN published, published[i].token = t
      PROVE  t <= calls
  <2>1. DOMAIN published = 1 .. Len(published)  BY <1>0 DEF TypeOK
  <2>2. PICK n \in 1 .. Len(executed) : Token(n) = published[i].token
    BY <1>0, <2>1 DEF TokenInv, PublishedTrue
  <2> QED
    BY <1>0, <1>1, <2>2 DEF TokenInv, TokensDrawn
<1>2. ASSUME NEW w \in InService \cup pending \cup Detached
      PROVE  w.token <= calls
  <2>1. CASE w \in pending \cup Detached
    BY <1>0, <2>1 DEF TokenInv, TokensDrawn, Undecided
  <2>2. CASE w \in InService /\ controller.pc = "applying"
    BY <1>0, <2>2 DEF TokenInv, TokensDrawn, Undecided, Applying, InService
  <2>3. CASE w \in InService /\ controller.pc = "publishing"
    <3>1. executed[complete_id + 1] = << w, controller.result >>
      BY <1>0, <2>3 DEF OutcomeInv, OutcomeHeld, InService
    <3>2. Len(executed) = complete_id + 1 /\ complete_id \in Nat
      BY <1>0, <2>3 DEF OutcomeInv, OutcomesCounted, WithOutcome, TypeOK
    <3>3. Token(complete_id + 1) = w.token  BY <3>1 DEF Token
    <3>4. complete_id + 1 \in 1 .. Len(executed)  BY <3>2
    <3> QED
      BY <1>0, <3>3, <3>4 DEF TokenInv, TokensDrawn
  <2> QED
    BY <1>2, <2>1, <2>2, <2>3 DEF InService
<1>3. ASSUME NEW i \in DOMAIN (HeldFirst \o HeldNext), (HeldFirst \o HeldNext)[i] = t
      PROVE  t <= calls
  <2>1. /\ InService \subseteq Work /\ pending \cup Detached \subseteq Work
    BY <1>0 DEF TypeOK, InService, Detached
  <2>2. HeldFirst \in Seq(Tokens) /\ HeldNext \in Seq(Tokens)  BY <1>0, HeldTypes
  <2>3. i \in 1 .. Len(HeldFirst) + Len(HeldNext)
    BY <2>2, ConcatProperties
  <2>4. t = IF i <= Len(HeldFirst) THEN HeldFirst[i] ELSE HeldNext[i - Len(HeldFirst)]
    BY <1>3, <2>2, <2>3, ConcatProperties
  <2>5. \/ \E j \in DOMAIN HeldFirst : t = HeldFirst[j]
        \/ \E j \in DOMAIN HeldNext : t = HeldNext[j]
    <3>1. /\ DOMAIN HeldFirst = 1 .. Len(HeldFirst) /\ DOMAIN HeldNext = 1 .. Len(HeldNext)
          /\ Len(HeldFirst) \in Nat /\ Len(HeldNext) \in Nat
      BY <2>2
    <3>2. CASE i <= Len(HeldFirst)  BY <2>3, <2>4, <3>1, <3>2
    <3>3. CASE ~ i <= Len(HeldFirst)
      <4>1. i - Len(HeldFirst) \in 1 .. Len(HeldNext)  BY <2>3, <3>1, <3>3
      <4> QED
        BY <2>4, <3>1, <3>3, <4>1
    <3> QED
      BY <3>2, <3>3
  <2>6. \E w \in InService \cup pending \cup Detached : w.token = t
    BY <2>1, <2>5, TokenOfWork DEF HeldFirst, HeldNext
  <2> QED
    BY <1>2, <2>6
<1> QED
  BY <1>1, <1>3 DEF Tunes!Known, HeldFirst, HeldNext

AnswerMoves == Tunes!Next \/ UNCHANGED Tunes!vars

(* Nothing moves as long as each place keeps its work. *)
LEMMA AnswersQuiet ==
  ASSUME HeldFirst' \o HeldNext' = HeldFirst \o HeldNext, UNCHANGED published
  PROVE  AnswerMoves
BY DEF AnswerMoves, Tunes!vars, HeldFirst, HeldNext

(* A token that is put in front, and taken from there. *)
LEMMA FirstToken ==
  ASSUME NEW t \in Tokens, NEW s \in Seq(Tokens)
  PROVE  /\ << t >> \o s # << >> /\ Head(<< t >> \o s) = t /\ Tail(<< t >> \o s) = s
<1>1. << t >> \in Seq(Tokens) /\ Len(<< t >>) = 1 /\ << t >>[1] = t  OBVIOUS
<1>2. /\ << t >> \o s \in Seq(Tokens) /\ Len(<< t >> \o s) = 1 + Len(s)
      /\ \A i \in 1 .. 1 + Len(s) :
           (<< t >> \o s)[i] = IF i <= 1 THEN << t >>[i] ELSE s[i - 1]
  BY <1>1, ConcatProperties
<1>3. Len(s) \in Nat  OBVIOUS
<1>4. << t >> \o s # << >>  BY <1>2, <1>3, EmptySeq
<1>5. Head(<< t >> \o s) = t  BY <1>1, <1>2, <1>3, <1>4
<1>6. /\ Tail(<< t >> \o s) \in Seq(Tokens) /\ Len(Tail(<< t >> \o s)) = Len(s)
      /\ \A i \in 1 .. Len(s) : Tail(<< t >> \o s)[i] = (<< t >> \o s)[i + 1]
  BY <1>2, <1>3, <1>4, HeadTailProperties
<1>7. \A i \in 1 .. Len(s) : Tail(<< t >> \o s)[i] = s[i]
  <2> SUFFICES ASSUME NEW i \in 1 .. Len(s) PROVE Tail(<< t >> \o s)[i] = s[i]  OBVIOUS
  <2>1. i + 1 \in 1 .. 1 + Len(s) /\ ~ i + 1 <= 1 /\ (i + 1) - 1 = i  BY <1>3
  <2> QED
    BY <1>2, <1>6, <2>1
<1> QED
  BY <1>4, <1>5, <1>6, <1>7, SeqEqual

(* Who queues a tune has found no token there. *)
LEMMA EnqueueAccepts ==
  ASSUME IInv, NEW f \in Freqs, NEW token \in {NoToken, calls + 1}, Call, Enqueue(f, token)
  PROVE  AnswerMoves
<1>0. TypeOK /\ QueueInv  BY DEF IInv
<1>1. Detached = {} /\ Detached' = {} /\ InService' = InService
  BY <1>0 DEF QueueInv, Enqueue, Refused, Detached, InService, Call
<1>2. \A w \in pending : w.token = NoToken  BY DEF Enqueue, Refused
<1>3. HeldNext = << >>  BY <1>1, <1>2, TokenOfNone DEF HeldNext
<1>4. HeldFirst' = HeldFirst /\ UNCHANGED published  BY <1>1 DEF HeldFirst, Call
<1>5. pending' \cup Detached' = {[freq |-> f, token |-> token]}  BY <1>1 DEF Enqueue
<1>6. CASE token = NoToken
  <2>1. HeldNext' = << >>  BY <1>5, <1>6, TokenOfNone DEF HeldNext
  <2> QED
    BY <1>3, <1>4, <2>1, AnswersQuiet
<1>7. CASE token = calls + 1 /\ token # NoToken
  <2>1. HeldNext' = << token >>
    <3>1. [freq |-> f, token |-> token].token = token  OBVIOUS
    <3> QED
      BY <1>5, <1>7, <3>1, TokenOfOne DEF HeldNext
  <2>2. token \in Tokens /\ calls \in Nat
    BY <1>0, <1>7, CallsAssumption DEF TypeOK, Call, Tokens
  <2>3. HeldFirst \o HeldNext = HeldFirst /\ Len(HeldFirst) <= 1
    BY <1>0, <1>3, HeldTypes, ConcatEmptySeq
  <2>4. HeldFirst' \o HeldNext' = Append(HeldFirst, token)
    <3>1. HeldFirst \in Seq(Tokens)  BY <1>0, HeldTypes
    <3> QED
      BY <1>4, <2>1, <2>2, <3>1, AppendIsConcat
  <2>5. ~ Tunes!Known(token)
    BY <1>7, <2>2, KnownDrawn
  <2>6. Len(HeldFirst) < 2
    BY <1>0, <2>3, HeldTypes, LenProperties
  <2>7. Tunes!Accept
    BY <1>4, <2>2, <2>3, <2>4, <2>5, <2>6 DEF Tunes!Accept, HeldFirst, HeldNext
  <2> QED
    BY <2>7 DEF AnswerMoves, Tunes!Next
<1> QED
  BY <1>6, <1>7

(* Publishing answers the token in front, if it is one. *)
LEMMA PublishAnswers ==
  ASSUME TypeOK, NEW work, work \subseteq Work, AtMostOne(work), NEW result \in Outcomes,
         Publish(work, result),
         HeldFirst \o HeldNext = TokenOf(work) \o HeldNext',
         HeldFirst' = << >>, HeldNext' \in Seq(Tokens)
  PROVE  AnswerMoves
<1>1. PICK w \in work :
        published' = IF w.token = NoToken THEN published
                     ELSE Append(published, [token |-> w.token, result |-> result])
  BY DEF Publish
<1>2. work = {w}  BY DEF AtMostOne
<1>3. HeldFirst' \o HeldNext' = HeldNext'  BY ConcatEmptySeq
<1>4. CASE w.token = NoToken
  <2>1. TokenOf(work) = << >>  BY <1>2, <1>4, TokenOfNone
  <2>2. HeldFirst \o HeldNext = HeldNext'  BY <2>1, ConcatEmptySeq
  <2> QED
    BY <1>1, <1>3, <1>4, <2>2, AnswersQuiet
<1>5. CASE w.token # NoToken
  <2>1. TokenOf(work) = << w.token >> /\ w.token \in Tokens
    BY <1>2, <1>5, TokenOfOne DEF Work
  <2>2. /\ HeldFirst \o HeldNext # << >> /\ Head(HeldFirst \o HeldNext) = w.token
        /\ Tail(HeldFirst \o HeldNext) = HeldNext'
    BY <2>1, FirstToken
  <2>3. Tunes!Answer
    BY <1>1, <1>3, <1>5, <2>2 DEF Tunes!Answer, Tunes!Outcomes, Outcomes, HeldFirst, HeldNext
  <2> QED
    BY <2>3 DEF AnswerMoves, Tunes!Next
<1> QED
  BY <1>4, <1>5

(* Every step accepts a token, answers the oldest, or leaves them alone. *)
LEMMA StepAnswers ==
  ASSUME IInv, IInv', [Next]_vars
  PROVE  AnswerMoves
<1>0. TypeOK /\ QueueInv /\ TypeOK' /\ QueueInv'  BY DEF IInv
<1> USE DEF queue, completion, history
<1>1. ASSUME UNCHANGED <<pending, controller, stopper, published>>
      PROVE  AnswerMoves
  BY <1>1, AnswersQuiet DEF HeldFirst, HeldNext, InService, Detached
<1>2. ASSUME NEW c \in Callers, NEW f \in Freqs, NEW tagged \in BOOLEAN, Tune(c, f, tagged)
      PROVE  AnswerMoves
  <2>1. NextToken(tagged) \in {NoToken, calls + 1}  BY DEF NextToken
  <2> QED
    BY <1>2, <2>1, EnqueueAccepts DEF Tune
<1>3. ASSUME NEW f \in Freqs, TuneFromUdp(f) PROVE AnswerMoves
  BY <1>3, EnqueueAccepts DEF TuneFromUdp
<1>4. ASSUME NEW c \in Callers,
             TuneDeferred(c) \/ WaitDone(c) \/ WaitShutdown(c) \/ WaitTimeout(c)
      PROVE  AnswerMoves
  BY <1>1, <1>4
  DEF TuneDeferred, Call, WaitDone, WaitShutdown, WaitTimeout, OthersOfCaller
<1>5. CASE RaiseExit
  BY <1>1, <1>5 DEF RaiseExit
<1>6. CASE ControllerTake
  <2>1. InService = {} /\ InService' = pending /\ Detached = {} /\ pending' \cup Detached' = {}
    BY <1>0, <1>6 DEF ControllerTake, OthersOfController, QueueInv, InService, Detached
  <2>2. HeldFirst = << >> /\ HeldFirst' = HeldNext /\ HeldNext' = << >>
    BY <2>1, TokenOfNone DEF HeldFirst, HeldNext
  <2>3. HeldNext \in Seq(Tokens)  BY <1>0, HeldTypes
  <2>4. HeldFirst' \o HeldNext' = HeldFirst \o HeldNext  BY <2>2, <2>3, ConcatEmptySeq
  <2> QED
    BY <1>6, <2>4, AnswersQuiet DEF ControllerTake
<1>7. ASSUME InService' = InService, pending' \cup Detached' = pending \cup Detached,
             UNCHANGED published
      PROVE  AnswerMoves
  BY <1>7, AnswersQuiet DEF HeldFirst, HeldNext
<1>8. ASSUME NEW result \in Outcomes, ControllerExit \/ ControllerApply(result) \/ ControllerSignal
      PROVE  AnswerMoves
  <2>1. InService' = InService
    BY <1>0, <1>8 DEF TypeOK, ControllerExit, ControllerApply, ControllerSignal, InService
  <2>2. Detached' = Detached /\ UNCHANGED <<pending, published>>
    BY <1>8
    DEF ControllerExit, ControllerApply, ControllerSignal, OthersOfController, Detached
  <2> QED
    BY <1>7, <2>1, <2>2
<1>9. CASE ControllerPublish
  <2>1. /\ InService = controller.work /\ InService' = {} /\ UNCHANGED <<pending, stopper>>
    BY <1>0, <1>9 DEF TypeOK, ControllerPublish, OthersOfController, InService
  <2>2. HeldNext' = HeldNext /\ HeldFirst' = << >>
    BY <2>1, TokenOfNone DEF HeldFirst, HeldNext, Detached
  <2>3. HeldNext' \in Seq(Tokens)  BY <1>0, <2>2, HeldTypes
  <2>4. HeldFirst \o HeldNext = TokenOf(controller.work) \o HeldNext'
    BY <2>1, <2>2 DEF HeldFirst
  <2>5. controller.work \subseteq Work /\ controller.result \in Outcomes  BY <1>0 DEF TypeOK
  <2>6. Publish(controller.work, controller.result)  BY <1>9 DEF ControllerPublish
  <2> QED
    BY <1>0, <2>2, <2>3, <2>4, <2>5, <2>6, PublishAnswers DEF QueueInv
<1>10. CASE StopBegin \/ StopDetach \/ StopJoin \/ StopSignal
  <2>1. InService' = InService /\ UNCHANGED published
    BY <1>10
    DEF StopBegin, StopDetach, StopJoin, StopSignal, OthersOfStopper, InService
  <2>2. pending' \cup Detached' = pending \cup Detached
    <3>1. CASE StopBegin  BY <1>0, <3>1 DEF TypeOK, StopBegin, Detached
    <3>2. CASE StopDetach  BY <1>0, <3>2 DEF QueueInv, StopDetach, Detached
    <3>3. CASE StopJoin  BY <1>0, <3>3 DEF TypeOK, StopJoin, Detached
    <3>4. CASE StopSignal  BY <1>0, <3>4 DEF TypeOK, StopSignal, Detached
    <3> QED
      BY <1>10, <3>1, <3>2, <3>3, <3>4
  <2> QED
    BY <1>7, <2>1, <2>2
<1>11. CASE StopPublish
  <2>1. /\ InService = {} /\ InService' = {} /\ pending = {} /\ pending' = {}
        /\ Detached = stopper.work /\ Detached' = {}
    BY <1>0, <1>11 DEF TypeOK, QueueInv, StopPublish, OthersOfStopper, InService, Detached
  <2>2. /\ HeldFirst = << >> /\ HeldFirst' = << >>
        /\ HeldNext = TokenOf(stopper.work) /\ HeldNext' = << >>
    BY <2>1, TokenOfNone DEF HeldFirst, HeldNext
  <2>3. HeldNext \in Seq(Tokens) /\ HeldNext' \in Seq(Tokens)
    BY <1>0, <2>2, HeldTypes, EmptySeq
  <2>4. HeldFirst \o HeldNext = TokenOf(stopper.work) \o HeldNext'
    BY <2>2, <2>3, ConcatEmptySeq
  <2>5. stopper.work \subseteq Work /\ "FAILED" \in Outcomes  BY <1>0 DEF TypeOK, Outcomes
  <2>6. Publish(stopper.work, "FAILED")  BY <1>11 DEF StopPublish
  <2> QED
    BY <1>0, <2>2, <2>3, <2>4, <2>5, <2>6, PublishAnswers DEF QueueInv
<1>12. CASE UNCHANGED vars
  BY <1>1, <1>12 DEF vars
<1>13. "OK" \in Outcomes  BY DEF Outcomes
<1> QED
  BY <1>2, <1>3, <1>4, <1>5, <1>6, <1>8, <1>9, <1>10, <1>11, <1>12, <1>13
  DEF Next, CallerStep, ControllerStep, StopperStep

-----------------------------------------------------------------------------
(* Theorems *)

(* The inductive invariant holds in every reachable state: the queue, the  *)
(* controller, the stop and the callers keep requests, completions and     *)
(* outcomes in one order.                                                  *)
THEOREM Invariance == Spec => []IInv
<1>1. Init => IInv
  BY TypeInit, QueueInit, GateInit, OutcomeInit, CallerInit, TokenInit DEF IInv
<1>2. IInv /\ [Next]_vars => IInv'
  BY TypeStep, QueueStep, GateStep, OutcomeStep, CallerKept, TokenStep DEF IInv
<1> QED
  BY <1>1, <1>2, PTL DEF Spec

(* Every variable keeps its type. *)
THEOREM TypeCorrect == Spec => []TypeOK
<1>1. IInv => TypeOK
  BY DEF IInv
<1> QED
  BY <1>1, Invariance, PTL

(* Completions lag behind requests by exactly the requests in hand, also   *)
(* across soft_stop, so each completion is that of the oldest one.         *)
THEOREM IdsAlignedAlways == Spec => []IdsAligned
<1>1. IInv => IdsAligned
  BY QueueAligned DEF IInv
<1> QED
  BY <1>1, Invariance, PTL

(* A timeout never shuts reads for a completion that has already come.     *)
THEOREM GateAheadAlways == Spec => []GateAhead
<1>1. IInv => GateAhead
  BY DEF IInv, GateInv
<1> QED
  BY <1>1, Invariance, PTL

(* A tune returns the outcome of its own request, whatever coalescing,     *)
(* refusals, late completions and reused result slots came in between.     *)
THEOREM TruthfulReturnAlways == Spec => []TruthfulReturn
<1>1. IInv => TruthfulReturn
  BY DEF IInv, CallerInv, Told, Decided, Asked, TruthfulReturn
<1> QED
  BY <1>1, Invariance, PTL

(* Every token that was accepted is published once, with the outcome of    *)
(* its request, before its completion is signalled; none is lost to a      *)
(* timeout, another caller or soft_stop.                                   *)
THEOREM TokensConservedAlways == Spec => []TokensConserved
BY Invariance, TokensFollow, PTL

(* Two tagged tunes are in hand at most, and they are answered one by one,  *)
(* the oldest first, by the controller or by the stop, for any number of   *)
(* callers and whatever untagged tunes are coalesced between them.         *)
THEOREM ControllerAnswersInOrder == Spec => AnswersInOrder
<1>1. Init => Tunes!Init
  <2> SUFFICES ASSUME Init PROVE Tunes!Init  OBVIOUS
  <2>1. InService = {} /\ pending \cup Detached = {} /\ published = << >>
    BY DEF Init, InService, Detached
  <2>2. TokenOf(InService) = << >> /\ TokenOf(pending \cup Detached) = << >>
    BY <2>1, TokenOfNone
  <2>3. << >> \o << >> = << >>  BY ConcatEmptySeq, EmptySeq
  <2> QED
    BY <2>1, <2>2, <2>3 DEF Tunes!Init
<1>2. IInv /\ IInv' /\ [Next]_vars => [Tunes!Next]_(Tunes!vars)
  BY StepAnswers DEF AnswerMoves
<1> QED
  BY <1>1, <1>2, Invariance, PTL DEF Spec, AnswersInOrder, Tunes!Spec
=============================================================================
