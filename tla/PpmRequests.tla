---------------------------- MODULE PpmRequests ----------------------------
(***************************************************************************)
(* Frequency corrections of the RTL front end                              *)
(* (src/upstream/dsd-neo/src/io/radio/rtl_ppm_request.h, rtl_sdr_fm.cpp).  *)
(*                                                                         *)
(* A desired correction is published with a fresh identity under           *)
(* g_requested_ppm_state_mutex by whoever calls rtl_stream_request_ppm.    *)
(* The thread that reads samples looks before every read whether one was   *)
(* refused, and takes a refused one back, lets the auto correction publish *)
(* another, and queues the desired one for the controller if it is not     *)
(* applied, queued or active.  The controller asks the device.             *)
(*                                                                         *)
(* Each action is a section under a mutex or an access to an atomic.  The  *)
(* identity of an active request is cleared by three stores of which only  *)
(* the last is an action: a reader that meets the others finds no match,   *)
(* as it does afterwards.                                                  *)
(***************************************************************************)
EXTENDS Integers

CONSTANTS
  MaxPpm,       \* the largest correction, 200 in the code
  MaxPublished, \* bound: requests published by users and by the auto correction
  MaxRefusals   \* bound: refusals of the device

ASSUME PpmAssumption == 
  MaxPpm \in Nat /\ MaxPublished \in Nat /\ MaxRefusals \in Nat

VARIABLES
  requested,  \* rtlsdr_ppm_error of the mirrored options, ppm_request_publish_seq
  published,  \* requests published so far
  applied,    \* dongle.ppm_error
  failure,    \* ppm_apply_failure_pending, failed_ppm_request_seq
  queued,     \* the pending request of the controller
  active,     \* the request the controller has taken
  controller, \* where the controller thread is
  reader,     \* where the reading thread is and what it has loaded
  refused,    \* history: how often the device refused each identity
  refusals    \* history: its refusals in all

vars == <<requested, published, applied, failure, queued, active, controller, reader, refused,
          refusals>>

Ppms == -MaxPpm .. MaxPpm
Ids == 0 .. MaxPublished + MaxRefusals    \* one per request and one per refusal taken back
Requests == [ppm : Ppms, id : Ids]
Slots == [pending : BOOLEAN, ppm : Ppms, id : Ids]
Empty == [pending |-> FALSE, ppm |-> 0, id |-> 0]

TypeOK ==
  /\ requested \in Requests
  /\ published \in 0 .. MaxPublished
  /\ applied \in Ppms
  /\ failure \in [pending : BOOLEAN, id : Ids]
  /\ queued \in Slots /\ active \in Slots
  /\ controller \in {"wait", "apply", "noted", "failed", "clear"}
  /\ reader \in [pc : {"idle", "applied", "snapshot", "failed", "rollback", "adjust",
                       "publish", "load", "schedule"},
                 applied : Ppms, requested : Requests]
  /\ refused \in [Ids -> 0 .. MaxRefusals] /\ refusals \in 0 .. MaxRefusals

Init ==
  /\ requested = [ppm |-> 0, id |-> 0]
  /\ published = 0
  /\ applied = 0
  /\ failure = [pending |-> FALSE, id |-> 0]
  /\ queued = Empty /\ active = Empty
  /\ controller = "wait"
  /\ reader = [pc |-> "idle", applied |-> 0, requested |-> [ppm |-> 0, id |-> 0]]
  /\ refused = [id \in Ids |-> 0] /\ refusals = 0

-----------------------------------------------------------------------------
(* publish_requested_ppm and publish_requested_ppm_delta *)
Clamp(ppm) == IF ppm < -MaxPpm THEN -MaxPpm ELSE IF ppm > MaxPpm THEN MaxPpm ELSE ppm

(* Faulty variant: the value is not clamped. *)
PublishUnclamped(ppm) ==
  /\ published < MaxPublished
  /\ published' = published + 1
  /\ requested' = [ppm |-> ppm, id |-> requested.id + 1]

Publish(ppm) ==
  /\ published < MaxPublished
  /\ published' = published + 1
  /\ requested' = [ppm |-> Clamp(ppm), id |-> requested.id + 1]

(* A user sets a value or moves the desired one, the default step is one. *)
User ==
  /\ \/ \E ppm \in Ppms : Publish(ppm)
     \/ \E delta \in {-1, 1} : Publish(requested.ppm + delta)
  /\ UNCHANGED <<applied, failure, queued, active, controller, reader, refused, refusals>>

-----------------------------------------------------------------------------
(* The reading thread: sync_requested_ppm_after_failed_apply,               *)
(* auto_ppm_maybe_adjust and sync_requested_ppm_to_controller.             *)

OthersOfReader == <<applied, active, controller, refused, refusals>>
Goto(pc) == reader' = [reader EXCEPT !.pc = pc]

ReadFailure ==
  /\ reader.pc = "idle"
  /\ failure' = [failure EXCEPT !.pending = FALSE]
  /\ Goto(IF failure.pending THEN "applied" ELSE "adjust")
  /\ UNCHANGED <<requested, published, queued, OthersOfReader>>

ReadApplied ==
  /\ reader.pc = "applied"
  /\ reader' = [reader EXCEPT !.pc = "snapshot", !.applied = applied]
  /\ UNCHANGED <<requested, published, failure, queued, OthersOfReader>>

ReadRequested ==
  /\ reader.pc = "snapshot"
  /\ reader' = [reader EXCEPT !.pc = "failed", !.requested = requested]
  /\ UNCHANGED <<requested, published, failure, queued, OthersOfReader>>

(* Faulty variant: the value is compared, not the identity. *)
IsRefusedByValue(request) == request.ppm # reader.applied

(* rtl_ppm_resolve_rejected_request *)
IsRefused(request) == request.id = failure.id

ReadFailed ==
  /\ reader.pc = "failed"
  /\ reader' = [reader EXCEPT
       !.pc = IF IsRefused(reader.requested) THEN "rollback" ELSE "adjust"]
  /\ UNCHANGED <<requested, published, failure, queued, OthersOfReader>>

(* rollback_requested_ppm_if_latest *)
RollBack ==
  /\ reader.pc = "rollback"
  /\ requested' = IF requested.id = reader.requested.id
                  THEN [ppm |-> reader.applied, id |-> requested.id + 1]
                  ELSE requested
  /\ Goto("adjust")
  /\ UNCHANGED <<published, failure, queued, OthersOfReader>>

(* The auto correction trains only while the desired value is the applied. *)
Adjust ==
  /\ reader.pc = "adjust"
  /\ \/ Goto("load")
     \/ requested.ppm = applied /\ Goto("publish")
  /\ UNCHANGED <<requested, published, failure, queued, OthersOfReader>>

AdjustPublish ==
  /\ reader.pc = "publish"
  /\ \/ \E ppm \in Ppms : Publish(ppm)
     \/ published = MaxPublished /\ UNCHANGED <<requested, published>>
  /\ Goto("load")
  /\ UNCHANGED <<failure, queued, OthersOfReader>>

LoadApplied ==
  /\ reader.pc = "load"
  /\ reader' = [reader EXCEPT !.pc = "schedule", !.applied = applied]
  /\ UNCHANGED <<requested, published, failure, queued, OthersOfReader>>

Matches(slot) == slot = [pending |-> TRUE, ppm |-> requested.ppm, id |-> requested.id]

(* Faulty variants: the active request is not looked at, the applied        *)
(* correction is not looked at.                                            *)
ShouldScheduleActive ==
  ~ Matches(queued) /\ (queued.pending \/ requested.ppm # reader.applied)
ShouldScheduleApplied == ~ Matches(queued) /\ ~ Matches(active)

(* rtl_ppm_should_schedule_request *)
ShouldSchedule ==
  /\ ~ Matches(queued)
  /\ queued.pending \/ (requested.ppm # reader.applied /\ ~ Matches(active))

Schedule ==
  /\ reader.pc = "schedule"
  /\ queued' = IF ShouldSchedule
               THEN [pending |-> TRUE, ppm |-> requested.ppm, id |-> requested.id]
               ELSE queued
  /\ Goto("idle")
  /\ UNCHANGED <<requested, published, failure, OthersOfReader>>

Reader ==
  \/ ReadFailure \/ ReadApplied \/ ReadRequested \/ ReadFailed \/ RollBack
  \/ Adjust \/ AdjustPublish \/ LoadApplied \/ Schedule

-----------------------------------------------------------------------------
(* The controller: controller_wait_for_retune_work, then the correction     *)
(* alone or with a tune that was waiting beside it.                        *)

OthersOfController == <<requested, published, reader>>

Take ==
  /\ controller = "wait"
  /\ queued.pending
  /\ active' = queued
  /\ queued' = [queued EXCEPT !.pending = FALSE]
  /\ controller' = IF queued.ppm = applied THEN "clear" ELSE "apply"
  /\ UNCHANGED <<applied, failure, refused, refusals, OthersOfController>>

Accept ==
  /\ controller = "apply"
  /\ applied' = active.ppm
  /\ controller' = "clear"
  /\ UNCHANGED <<failure, queued, active, refused, refusals, OthersOfController>>

Refuse ==
  /\ controller = "apply"
  /\ refusals < MaxRefusals
  /\ refusals' = refusals + 1
  /\ refused' = [refused EXCEPT ![active.id] = @ + 1]
  /\ controller' = "noted"
  /\ UNCHANGED <<applied, failure, queued, active, OthersOfController>>

(* note_failed_ppm_request: the identity, then the flag. *)
NoteIdentity ==
  /\ controller = "noted"
  /\ failure' = [failure EXCEPT !.id = active.id]
  /\ controller' = "failed"
  /\ UNCHANGED <<applied, queued, active, refused, refusals, OthersOfController>>

NoteFlag ==
  /\ controller = "failed"
  /\ failure' = [failure EXCEPT !.pending = TRUE]
  /\ controller' = "clear"
  /\ UNCHANGED <<applied, queued, active, refused, refusals, OthersOfController>>

ClearActive ==
  /\ controller = "clear"
  /\ active' = Empty
  /\ controller' = "wait"
  /\ UNCHANGED <<applied, failure, queued, refused, refusals, OthersOfController>>

Controller == Take \/ Accept \/ Refuse \/ NoteIdentity \/ NoteFlag \/ ClearActive

Next == User \/ Reader \/ Controller

(* The decoder reads samples for ever and the controller thread runs. *)
Spec == Init /\ [][Next]_vars /\ WF_vars(Reader) /\ WF_vars(Controller)

-----------------------------------------------------------------------------
(* Properties *)

(* rollback_requested_ppm_if_latest: what is taken back is a request the    *)
(* device refused, never a newer one, nor a retry of the same value that   *)
(* was published while the refusal was on its way.                         *)
OnlyRefusedTakenBack ==
  [][reader.pc = "rollback" /\ reader' # reader /\ requested' # requested =>
       refused[requested.id] > 0]_vars

(* The device is never asked for a refused correction again and again: a    *)
(* pass that looked for a refusal too early may ask once more, the next    *)
(* pass takes the request back.                                            *)
RefusedAtMostTwice == \A id \in Ids : refused[id] <= 2

(* Once nobody publishes, the desired correction and the applied one agree, *)
(* however many requests were refused, overtaken or retried, and the       *)
(* controller has nothing left to do.                                      *)
Settled ==
  /\ requested.ppm = applied
  /\ ~ queued.pending /\ ~ active.pending
Converges == <>[]Settled
=============================================================================
