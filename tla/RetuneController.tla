-------------------------- MODULE RetuneController --------------------------
(***************************************************************************)
(* The queue of one retune in front of the controller thread, the          *)
(* completion it signals, and the threads that wait for it                 *)
(* (src/upstream/dsd-neo/src/io/radio/rtl_sdr_fm.cpp).                     *)
(*                                                                         *)
(* A request is queued under hop_m, taken by the controller thread,        *)
(* applied to the tuner, published to the tune transaction layer and then  *)
(* signalled under retune_done_m.  A caller that waited too long installs  *)
(* a gate on sample reads and leaves.  soft_stop detaches what is queued,  *)
(* joins the controller and fails the detached request in its turn.  One   *)
(* behaviour is the life of one stream, from open to soft_stop.            *)
(*                                                                         *)
(* PPM changes complete no request and are left out, as are the capture    *)
(* and demodulator settings that travel with a frequency.  Identities are  *)
(* unbounded naturals; the code's 32 bits would take years to wrap.        *)
(***************************************************************************)
EXTENDS Naturals, Sequences, FiniteSets

CONSTANTS
  Callers,       \* threads that tune and wait for the completion
  Freqs,         \* frequencies they ask for
  ResultSlots,   \* kRetuneCompletionResultSlots (256 in the code)
  MaxCalls       \* bound: schedule calls in one behaviour

ASSUME SlotsAssumption == ResultSlots \in Nat \ {0}
ASSUME CallsAssumption == MaxCalls \in Nat

VARIABLES
  accepting,     \* manual_retunes_accepting
  pending,       \* the queued request: no record or one
  request_id,    \* retune_request_id
  complete_id,   \* retune_complete_id
  results,       \* retune_complete_result_ids and retune_complete_results
  gate,          \* timeout_gate_request_id
  exiting,       \* should_exit, or the exit flag
  controller,    \* the controller thread and the request it has taken
  stopper,       \* the thread that runs soft_stop and what it detached
  caller,        \* per caller: its place in rtl_stream_tune_impl
  calls,         \* history: schedule calls so far; also the source of tokens
  published,     \* history: completions handed to the transaction layer
  executed       \* history: what became of each request, by its identity

queue == <<accepting, pending, request_id>>
completion == <<complete_id, results, gate>>
history == <<calls, published, executed>>
vars == <<accepting, pending, request_id, complete_id, results, gate, exiting,
          controller, stopper, caller, calls, published, executed>>

NoToken == 0
Tokens == 1 .. MaxCalls
Work == [freq : Freqs, token : Tokens \cup {NoToken}]
Outcomes == {"OK", "FAILED"}

TypeOK ==
  /\ accepting \in BOOLEAN
  /\ pending \in SUBSET Work
  /\ request_id \in Nat /\ complete_id \in Nat /\ gate \in Nat
  /\ results \in [0 .. ResultSlots - 1 -> [id : Nat, result : Outcomes]]
  /\ exiting \in BOOLEAN
  /\ controller \in [pc : {"waiting", "applying", "publishing", "signalling", "exited"},
                     work : SUBSET Work, result : Outcomes]
  /\ stopper \in [pc : {"running", "stopping", "joining", "publishing", "signalling", "stopped"},
                  work : SUBSET Work, id : Nat]
  /\ caller \in [Callers -> [pc : {"idle", "waiting"}, id : Nat,
                             token : Tokens \cup {NoToken}, freq : Freqs,
                             rc : {"none", "OK", "FAILED", "TIMEOUT", "DEFERRED"}]]
  /\ calls \in 0 .. MaxCalls
  /\ published \in Seq([token : Tokens, result : Outcomes])
  /\ executed \in Seq(Work \X Outcomes)

Init ==
  /\ accepting = TRUE
  /\ pending = {}
  /\ request_id = 0 /\ complete_id = 0 /\ gate = 0
  /\ results = [s \in 0 .. ResultSlots - 1 |-> [id |-> 0, result |-> "OK"]]
  /\ exiting = FALSE
  /\ controller = [pc |-> "waiting", work |-> {}, result |-> "OK"]
  /\ stopper = [pc |-> "running", work |-> {}, id |-> 0]
  /\ \E f \in Freqs :
       caller = [c \in Callers |-> [pc |-> "idle", id |-> 0, token |-> NoToken,
                                    freq |-> f, rc |-> "none"]]
  /\ calls = 0
  /\ published = << >>
  /\ executed = << >>

-----------------------------------------------------------------------------
(* schedule_manual_retune_on_controller: one section under hop_m.  A queued *)
(* request without a token is overwritten in place and keeps its identity; *)
(* one with a token belongs to its owner and refuses everybody else.       *)

(* Faulty variants: a queued owner is overwritten; a coalesced request      *)
(* draws an identity of its own.                                           *)
RefusedWhenClosed == ~ accepting

(* Every call has a token of its own, so a queued token is another owner's. *)
Refused == ~ accepting \/ \E w \in pending : w.token # NoToken

EnqueueCounting(f, token) ==
  /\ ~ Refused
  /\ request_id' = request_id + 1
  /\ pending' = {[freq |-> f, token |-> token]}
  /\ UNCHANGED accepting

Enqueue(f, token) ==
  /\ ~ Refused
  /\ request_id' = IF pending = {} THEN request_id + 1 ELSE request_id
  /\ pending' = {[freq |-> f, token |-> token]}
  /\ UNCHANGED accepting

NextToken(tagged) == IF tagged THEN calls + 1 ELSE NoToken

Call ==
  /\ calls < MaxCalls
  /\ calls' = calls + 1
  /\ UNCHANGED <<completion, exiting, controller, stopper, published, executed>>

Tune(c, f, tagged) ==
  /\ Call
  /\ caller[c].pc = "idle"
  /\ Enqueue(f, NextToken(tagged))
  /\ caller' = [caller EXCEPT ![c] =
       [pc |-> "waiting", id |-> request_id', token |-> NextToken(tagged),
        freq |-> f, rc |-> "none"]]

TuneDeferred(c) ==
  /\ Call
  /\ caller[c].pc = "idle"
  /\ Refused
  /\ caller' = [caller EXCEPT ![c].rc = "DEFERRED"]
  /\ UNCHANGED queue

(* The UDP control port schedules without a token and does not wait. *)
TuneFromUdp(f) ==
  /\ Call
  /\ Enqueue(f, NoToken)
  /\ UNCHANGED caller

-----------------------------------------------------------------------------
(* rtl_stream_tune_wait_for_completion: each test is made under            *)
(* retune_done_m, and the waiter looks again at least every 25 ms.         *)

Return(c, rc) == caller' = [caller EXCEPT ![c].pc = "idle", ![c].rc = rc]

SlotOf(id) == results[id % ResultSlots]
OthersOfCaller == <<queue, complete_id, results, exiting, controller, stopper, history>>

(* Faulty variants: the slot is not checked for the request it belongs to; *)
(* the deadline is looked at before the completion.                        *)
WaitDoneUnchecked(c) ==
  /\ caller[c].pc = "waiting"
  /\ complete_id >= caller[c].id
  /\ Return(c, SlotOf(caller[c].id).result)
  /\ UNCHANGED <<gate, OthersOfCaller>>

WaitTimeoutFirst(c) ==
  /\ caller[c].pc = "waiting"
  /\ ~ exiting
  /\ gate' = IF gate = 0 \/ caller[c].id > gate THEN caller[c].id ELSE gate
  /\ Return(c, "TIMEOUT")
  /\ UNCHANGED OthersOfCaller

(* The result may have been overwritten by a later completion. *)
WaitDone(c) ==
  /\ caller[c].pc = "waiting"
  /\ complete_id >= caller[c].id
  /\ Return(c, IF SlotOf(caller[c].id).id = caller[c].id
               THEN SlotOf(caller[c].id).result ELSE "FAILED")
  /\ UNCHANGED <<gate, OthersOfCaller>>

WaitShutdown(c) ==
  /\ caller[c].pc = "waiting"
  /\ complete_id < caller[c].id
  /\ exiting
  /\ Return(c, "FAILED")
  /\ UNCHANGED <<gate, OthersOfCaller>>

(* controller_gate_tune_timeout, still under retune_done_m: a gate for a   *)
(* newer request is kept.                                                  *)
WaitTimeout(c) ==
  /\ caller[c].pc = "waiting"
  /\ complete_id < caller[c].id
  /\ ~ exiting
  /\ gate' = IF gate = 0 \/ caller[c].id > gate THEN caller[c].id ELSE gate
  /\ Return(c, "TIMEOUT")
  /\ UNCHANGED OthersOfCaller

-----------------------------------------------------------------------------
(* The controller thread *)

OthersOfController == <<exiting, stopper, caller, calls>>

ControllerTake ==
  /\ controller.pc = "waiting"
  /\ ~ exiting
  /\ pending # {}
  /\ controller' = [controller EXCEPT !.pc = "applying", !.work = pending]
  /\ pending' = {}
  /\ UNCHANGED <<accepting, request_id, completion, published, executed,
                 OthersOfController>>

ControllerExit ==
  /\ controller.pc = "waiting"
  /\ exiting
  /\ controller' = [controller EXCEPT !.pc = "exited"]
  /\ UNCHANGED <<queue, completion, published, executed, OthersOfController>>

(* controller_apply_reconfigure and the verdict on it: an apply that fails *)
(* after the hardware has moved still counts as tuned.                     *)
ControllerApply(result) ==
  /\ controller.pc = "applying"
  /\ controller' = [controller EXCEPT !.pc = "publishing", !.result = result]
  /\ \E w \in controller.work :
       executed' = Append(executed, <<w, result>>)
  /\ UNCHANGED <<queue, completion, published, OthersOfController>>

(* Faulty variant: requests without a token are published too. *)
PublishAll(work, result) ==
  \E w \in work : published' = Append(published, [token |-> w.token, result |-> result])

(* rtl_stream_publish_tune_completion: a request without a token is nobody's. *)
Publish(work, result) ==
  \E w \in work :
    published' = IF w.token = NoToken THEN published
                 ELSE Append(published, [token |-> w.token, result |-> result])

ControllerPublish ==
  /\ controller.pc = "publishing"
  /\ Publish(controller.work, controller.result)
  /\ controller' = [controller EXCEPT !.pc = "signalling"]
  /\ UNCHANGED <<queue, completion, executed, OthersOfController>>

(* Faulty variant: only a successful completion opens the gate. *)
SignalOkOnly(result) ==
  LET id == complete_id + 1 IN
  /\ complete_id' = id
  /\ results' = [results EXCEPT ![id % ResultSlots] = [id |-> id, result |-> result]]
  /\ gate' = IF gate # 0 /\ id >= gate /\ result = "OK" THEN 0 ELSE gate

(* controller_signal_manual_retune_complete, under retune_done_m: whatever *)
(* its result, the completion of the gated request opens the gate.         *)
Signal(result) ==
  LET id == complete_id + 1 IN
  /\ complete_id' = id
  /\ results' = [results EXCEPT ![id % ResultSlots] = [id |-> id, result |-> result]]
  /\ gate' = IF gate # 0 /\ id >= gate THEN 0 ELSE gate

ControllerSignal ==
  /\ controller.pc = "signalling"
  /\ Signal(controller.result)
  /\ controller' = [controller EXCEPT !.pc = "waiting", !.work = {}]
  /\ UNCHANGED <<queue, published, executed, OthersOfController>>

-----------------------------------------------------------------------------
(* The exit flag and soft_stop *)

OthersOfStopper == <<request_id, controller, caller, calls>>

RaiseExit ==
  /\ ~ exiting
  /\ exiting' = TRUE
  /\ UNCHANGED <<queue, completion, controller, stopper, caller, history>>

StopBegin ==
  /\ stopper.pc = "running"
  /\ exiting' = TRUE
  /\ stopper' = [stopper EXCEPT !.pc = "stopping"]
  /\ UNCHANGED <<accepting, pending, completion, published, executed, OthersOfStopper>>

(* controller_detach_queued_manual_retune *)
StopDetach ==
  /\ stopper.pc = "stopping"
  /\ accepting' = FALSE
  /\ pending' = {}
  /\ stopper' = [pc |-> "joining", work |-> pending, id |-> request_id]
  /\ UNCHANGED <<completion, exiting, published, executed, OthersOfStopper>>

(* Faulty variant: the detached request is dropped. *)
StopJoinDropping ==
  /\ stopper.pc = "joining"
  /\ controller.pc = "exited"
  /\ stopper' = [stopper EXCEPT !.pc = "stopped"]
  /\ UNCHANGED <<accepting, pending, completion, exiting, published, executed, OthersOfStopper>>

StopJoin ==
  /\ stopper.pc = "joining"
  /\ controller.pc = "exited"
  /\ stopper' = [stopper EXCEPT !.pc = IF stopper.work = {} THEN "stopped" ELSE "publishing"]
  /\ UNCHANGED <<accepting, pending, completion, exiting, published, executed, OthersOfStopper>>

(* controller_finish_cancelled_manual_retune *)
StopPublish ==
  /\ stopper.pc = "publishing"
  /\ Publish(stopper.work, "FAILED")
  /\ \E w \in stopper.work : executed' = Append(executed, <<w, "FAILED">>)
  /\ stopper' = [stopper EXCEPT !.pc = "signalling"]
  /\ UNCHANGED <<accepting, pending, completion, exiting, OthersOfStopper>>

StopSignal ==
  /\ stopper.pc = "signalling"
  /\ Signal("FAILED")
  /\ stopper' = [stopper EXCEPT !.pc = "stopped", !.work = {}]
  /\ UNCHANGED <<accepting, pending, exiting, published, executed, OthersOfStopper>>

-----------------------------------------------------------------------------
CallerStep(c) ==
  \/ TuneDeferred(c)
  \/ \E f \in Freqs, tagged \in BOOLEAN : Tune(c, f, tagged)
  \/ WaitDone(c) \/ WaitShutdown(c) \/ WaitTimeout(c)

ControllerStep ==
  \/ ControllerTake \/ ControllerExit
  \/ \E result \in Outcomes : ControllerApply(result)
  \/ ControllerPublish \/ ControllerSignal

StopperStep == StopDetach \/ StopJoin \/ StopPublish \/ StopSignal

Next ==
  \/ \E c \in Callers : CallerStep(c)
  \/ \E f \in Freqs : TuneFromUdp(f)
  \/ ControllerStep
  \/ RaiseExit \/ StopBegin \/ StopperStep

(* The controller loops until it is told to exit; a raised exit flag makes *)
(* the engine tear the stream down.                                        *)
Fairness ==
  /\ WF_vars(ControllerStep)
  /\ WF_vars(StopperStep)
  /\ WF_vars(exiting /\ StopBegin)

Spec == Init /\ [][Next]_vars
FairSpec == Spec /\ Fairness
-----------------------------------------------------------------------------
(* Properties *)

InHand == controller.work \cup stopper.work \cup pending

(* Identities count the retunes that are really executed: completions lag  *)
(* behind requests by exactly those in hand, so the next completion is     *)
(* that of the oldest, and a detached request is completed in its turn.    *)
IdsAligned ==
  /\ request_id = complete_id + Cardinality(pending) + Cardinality(controller.work)
                                + Cardinality(stopper.work)
  /\ stopper.pc \in {"publishing", "signalling"} => stopper.id = complete_id + 1

(* A tune returns the outcome of its own request: OK only if that request  *)
(* was tuned (and, if it has a token, to the frequency asked for), FAILED  *)
(* only if it was not, or the stream is exiting, or as many completions as *)
(* the result table has slots came in between.                             *)
TruthfulReturn ==
  \A c \in Callers :
    LET id == caller[c].id
        outcome == executed[id][2]
    IN /\ caller[c].rc = "OK" =>
            /\ outcome = "OK"
            /\ caller[c].token # NoToken =>
                 executed[id][1] = [freq |-> caller[c].freq, token |-> caller[c].token]
       /\ caller[c].rc = "FAILED" =>
            exiting \/ outcome = "FAILED" \/ complete_id >= id + ResultSlots

(* The read gate always waits for a completion that is still to come.      *)
GateAhead == gate # 0 => complete_id < gate /\ gate <= request_id

(* Every token that was accepted is published exactly once, with the       *)
(* outcome of its request, and before its completion is signalled: it is   *)
(* never lost to another caller, a timeout or the stop.                    *)
TokensConserved ==
  /\ \A i, j \in DOMAIN published : published[i].token = published[j].token => i = j
  /\ \A i \in DOMAIN published : \E n \in DOMAIN executed :
       /\ executed[n][1].token = published[i].token
       /\ executed[n][2] = published[i].result
  /\ \A n \in 1 .. complete_id : executed[n][1].token # NoToken =>
       \E i \in DOMAIN published : published[i].token = executed[n][1].token
  /\ \A c \in Callers : (caller[c].pc = "waiting" /\ caller[c].token # NoToken) =>
       \/ \E w \in InHand : w.token = caller[c].token
       \/ \E i \in DOMAIN published : published[i].token = caller[c].token

(* Reads are not shut for ever: the late completion, or the stop, opens    *)
(* the gate that a timeout has installed.                                  *)
GateOpens == gate # 0 ~> gate = 0

(* Every queued token is answered in the end, also across a stop. *)
TokensAnswered ==
  \A t \in Tokens : (\E w \in pending : w.token = t) ~>
                     (\E i \in DOMAIN published : published[i].token = t)

(* Tagged tunes are answered one by one in the order in which they were     *)
(* accepted, whether the controller applies them or the stop fails them,   *)
(* and however untagged tunes come and go between them.                    *)
TokenOf(work) ==
  IF \E w \in work : w.token # NoToken
  THEN << (CHOOSE w \in work : w.token # NoToken).token >>
  ELSE << >>

InService == IF controller.pc \in {"applying", "publishing"} THEN controller.work ELSE {}
Detached == IF stopper.pc = "signalling" THEN {} ELSE stopper.work

Tunes == INSTANCE TuneQueue WITH
           held <- TokenOf(InService) \o TokenOf(pending \cup Detached),
           answered <- published

AnswersInOrder == Tunes!Spec
=============================================================================
