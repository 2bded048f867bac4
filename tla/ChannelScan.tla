----------------------------- MODULE ChannelScan -----------------------------
(***************************************************************************)
(* The conventional scanner whose rows carry their own decode mode, options*)
(* and keys (src/upstream/dsd-neo/src/engine/channel_scan.c), the tune it  *)
(* runs (engine/trunk_tuning.c), the decoder loop that services it and     *)
(* dispatches frames (engine/engine.c) and the user's commands, which the  *)
(* loop drains.                                                            *)
(*                                                                         *)
(* Three threads run: the decoder, with one action per call it makes       *)
(* between two points where another can be observed, the tuner's           *)
(* controller, which reports a tune that outlasted its wait, and the       *)
(* demodulator, which takes the profile it is asked for at its next block. *)
(* The tune ledger appears as TuneGate has it, with a boundary that makes  *)
(* earlier frames stale.  Settings and keys are one configuration value.   *)
(***************************************************************************)
EXTENDS Sequences, TuneGate

CONSTANTS
  NRows,       \* rows of the scan list
  Parked,      \* rows with frequency 0: the scanner stays where it is
  Avoided,     \* rows the operator avoids
  CanFail,     \* rows a tune to which may fail
  CanSucceed,  \* rows a tune to which may succeed
  OwnSettings, \* rows whose own mode and options leave nothing to the configured ones
  Dual,        \* a rigctl receiver is tuned before the RTL front end
  MaxUpsets,   \* bound: commands and failed allocations in one behaviour
  MaxMaps      \* bound: changes of the channel map

Rows == 1 .. NRows
Ids == 1 .. 4    \* the scan's request, two in the controller and a new one

ASSUME ScanAssumption ==
  /\ NRows \in Nat \ {0} /\ MaxUpsets \in Nat /\ MaxMaps \in Nat
  /\ Parked \subseteq Rows /\ Avoided \subseteq Rows
  /\ CanFail \cup CanSucceed = Rows
  /\ OwnSettings \subseteq Rows
  /\ Dual \in BOOLEAN

VARIABLES
  pc,        \* where the decoder thread is
  scanner,   \* opts->scanner_mode
  config,    \* the configured settings and keys
  map,       \* trunk_chan_map_seq
  roll,      \* lcn_freq_roll
  scan,      \* the channel_scan record
  installed, \* the row whose profile the decoder uses, 0 for none
  receiver,  \* where the front ends are, the profile RTL demodulates with, the one
             \* it is asked for, and (history) whether a request went astray
  inflight,  \* tunes the controller still owns, oldest first
  gate,      \* of the tune ledger
  result,    \* what request_status answers for a resolved request
  frame,     \* profile a frame was collected under; fresh until a new boundary
  upsets     \* commands and allocation failures so far

decoder == <<scanner, config, map, roll, scan, installed>>
tuner == <<receiver, inflight, gate, result>>
vars == <<pc, decoder, tuner, frame, upsets>>

Pcs == {"top", "no_carrier", "recheck", "search", "synced", "check",
        "processing", "between"}

Absent == [present |-> FALSE, request |-> 0, row |-> 1, map |-> 0,
           retry |-> FALSE, needs_commit |-> FALSE, configured |-> 0]

(* What a front end needs to know of a row, or of the configuration alone. *)
Profiles == [row : Rows \cup {0}, config : {0, 1}]
Profile(row, cfg) == [row |-> row, config |-> IF row \in OwnSettings THEN 0 ELSE cfg]

TypeOK ==
  /\ pc \in Pcs
  /\ scanner \in BOOLEAN /\ config \in {0, 1} /\ map \in 0 .. MaxMaps
  /\ roll \in 1 .. NRows + 1
  /\ scan \in [present : BOOLEAN, request : Ids \cup {0}, row : Rows, map : 0 .. MaxMaps,
               retry : BOOLEAN, needs_commit : BOOLEAN, configured : {0, 1}]
  /\ installed \in Rows \cup {0}
  /\ receiver \in [rig : Rows \cup {0}, rtl : Rows \cup {0}, profile : Profiles,
                   asked : SUBSET Profiles, astray : BOOLEAN]
  /\ Len(inflight) <= 2
  /\ \A i \in DOMAIN inflight : inflight[i] \in [id : Ids, row : Rows, config : {0, 1}]
  /\ gate \in Gates /\ gate.older <= Len(inflight)
  /\ result \in [Ids -> {"OK", "FAILED"}]
  /\ frame \in [row : Rows \cup {0}, config : {0, 1}, fresh : BOOLEAN]
  /\ upsets \in 0 .. MaxUpsets

Init ==
  /\ pc = "top"
  /\ scanner = TRUE /\ config = 0 /\ map = 0 /\ roll = 1
  /\ scan = Absent
  /\ installed = 0
  /\ receiver = [rig |-> 0, rtl |-> 0, profile |-> Profile(0, 0), asked |-> {},
                 astray |-> FALSE]
  /\ inflight = <<>> /\ gate = OpenGate
  /\ result = [i \in Ids |-> "OK"]
  /\ frame = [row |-> 0, config |-> 0, fresh |-> FALSE]
  /\ upsets = 0

Upset == upsets < MaxUpsets /\ upsets' = upsets + 1

-----------------------------------------------------------------------------
(* The tune ledger, as its callers see it *)

InFlight(id) == \E i \in DOMAIN inflight : inflight[i].id = id

Status(id) == IF InFlight(id) THEN "PENDING" ELSE result[id]

NewId == CHOOSE id \in Ids : ~ InFlight(id) /\ id # scan.request

NothingPending == inflight = <<>>
GateOpen == ~ gate.shut /\ NothingPending

-----------------------------------------------------------------------------
(* The scanner *)

Waiting(s) == s.request # 0 \/ s.retry
RowIsCurrent == scanner /\ scan.map = map

(* The first allowed row from the roll on, around the list. *)
NextOf(from, allowed) ==
  LET start == IF from \in Rows THEN from ELSE 1
      after == {r \in allowed : r >= start}
      pool == IF after # {} THEN after ELSE allowed
  IN {r \in pool : \A q \in pool : r <= q}

(* Faulty variant: settings that changed during the tune go unnoticed. *)
CommitUnchecked(s) ==
  /\ installed' = s.row
  /\ roll' = s.row + 1
  /\ scan' = [s EXCEPT !.request = 0, !.needs_commit = FALSE]
  /\ UNCHANGED upsets

(* channel_scan_commit, after the hardware has moved. *)
Commit(s) ==
  \/ /\ s.configured # config
     /\ scan' = [s EXCEPT !.needs_commit = TRUE, !.request = 0, !.retry = TRUE]
     /\ UNCHANGED <<roll, installed, upsets>>
  \/ /\ s.configured = config    \* dsd_scan_mode_enter fails
     /\ Upset
     /\ scan' = [s EXCEPT !.needs_commit = TRUE, !.retry = TRUE]
     /\ UNCHANGED <<roll, installed>>
  \/ /\ s.configured = config
     /\ installed' = s.row
     /\ roll' = s.row + 1
     /\ scan' = [s EXCEPT !.request = 0, !.needs_commit = FALSE]
     /\ UNCHANGED upsets

(* A landing tune brings its profile; a request RTL has not taken outlives *)
(* it, and is for another row.                                             *)
Moved(row, cfg) ==
  [receiver EXCEPT !.rig = row, !.rtl = row, !.profile = Profile(row, cfg),
                   !.astray = ~ (receiver.asked \subseteq {Profile(row, cfg)})]
RigMoved(row) == IF Dual THEN [receiver EXCEPT !.rig = row] ELSE receiver

(* rtl_stream_request_demod_profile: the last request wins.  One for the    *)
(* installed row finds RTL elsewhere when a tune has landed since.         *)
Asked(profile) ==
  [receiver EXCEPT !.asked = {profile}, !.astray = @ \/ receiver.rtl # installed]

(* A tune without success asks for the profile RTL had when it began, in   *)
(* place of a request RTL had not taken.                                   *)
Restored(r) ==
  [r EXCEPT !.asked = {r.profile}, !.astray = @ \/ ~ (r.asked \subseteq {r.profile})]

(* The tune succeeds within its wait; the row is committed at once. *)
TuneOk(s, id) ==
  /\ s.row \in CanSucceed
  /\ inflight = <<>>
  /\ receiver' = Moved(s.row, config)
  /\ gate' = OpenGate
  /\ result' = [result EXCEPT ![id] = "OK"]
  /\ frame' = [frame EXCEPT !.fresh = FALSE]
  /\ Commit([s EXCEPT !.request = id])
  /\ UNCHANGED inflight

(* Faulty variant: the controller's queue of one is not looked at. *)
TunePendingQueueing(s, id) ==
  /\ receiver' = RigMoved(s.row)
  /\ inflight' = Append(inflight, [id |-> id, row |-> s.row, config |-> config])
  /\ scan' = [s EXCEPT !.request = id]
  /\ UNCHANGED <<gate, result, roll, installed, frame, upsets>>

(* The wait ends first: the controller keeps the tune, applying it or       *)
(* queued behind the one it is applying.                                   *)
TunePending(s, id) ==
  /\ Len(inflight) < 2
  /\ receiver' = RigMoved(s.row)
  /\ inflight' = Append(inflight, [id |-> id, row |-> s.row, config |-> config])
  /\ scan' = [s EXCEPT !.request = id]
  /\ UNCHANGED <<gate, result, roll, installed, frame, upsets>>

(* Faulty variant: the scan stays at the row that failed. *)
TuneFailedStaying(s, id) ==
  /\ s.row \in CanFail
  /\ inflight = <<>>
  /\ receiver' = Restored(RigMoved(s.row))
  /\ result' = [result EXCEPT ![id] = "FAILED"]
  /\ scan' = [s EXCEPT !.request = 0]
  /\ UNCHANGED <<gate, roll, inflight, installed, frame, upsets>>

(* dsd_engine_scan_tune_to_freq without success.  The controller reports a  *)
(* failure before the call returns, so the owner's failure agrees with it  *)
(* and the request is rolled back; the earlier OK that is published for a  *)
(* rigctl leg only counts where the controller has not reported.           *)
TuneFailed(s, id) ==
  /\ s.row \in CanFail
  /\ inflight = <<>>
  /\ receiver' = Restored(RigMoved(s.row))
  /\ roll' = s.row + 1
  /\ result' = [result EXCEPT ![id] = "FAILED"]
  /\ scan' = [s EXCEPT !.request = 0]
  /\ UNCHANGED <<gate, inflight, installed, frame, upsets>>

(* The controller is training its correction, or a tune is queued already. *)
TuneDeferred(s, id) ==
  /\ IF inflight # <<>> THEN UNCHANGED upsets ELSE Upset
  /\ receiver' = Restored(RigMoved(s.row))
  /\ gate' = IF Dual THEN ShutBehind(Len(inflight)) ELSE gate
  /\ result' = [result EXCEPT ![id] = "FAILED"]
  /\ scan' = [s EXCEPT !.request = 0]
  /\ UNCHANGED <<roll, inflight, installed, frame>>

RigFailed(s, id) ==
  /\ Dual
  /\ receiver' = Restored(receiver)
  /\ gate' = ShutBehind(Len(inflight))
  /\ roll' = s.row + 1
  /\ result' = [result EXCEPT ![id] = "FAILED"]
  /\ scan' = [s EXCEPT !.request = 0]
  /\ UNCHANGED <<inflight, installed, frame, upsets>>

(* Preparing the profile fails: the retry gate stays as it is. *)
PrepareFails(s) ==
  /\ Upset
  /\ scan' = s
  /\ UNCHANGED <<roll, installed, tuner, frame>>

Tune(s, id) ==
  \/ TuneOk(s, id) \/ TunePending(s, id) \/ TuneFailed(s, id)
  \/ TuneDeferred(s, id) \/ RigFailed(s, id)

Park(row) ==
  /\ row \in Parked
  /\ roll' = row + 1
  /\ UNCHANGED <<scan, installed, tuner, frame, upsets>>

StageRow(row) == [scan EXCEPT !.present = TRUE, !.row = row, !.map = map]

(* channel_scan_start_row *)
StartRow(row) ==
  \/ Park(row)
  \/ /\ row \notin Parked
     /\ LET staged == StageRow(row) IN
        \/ PrepareFails(staged)
        \/ Tune([staged EXCEPT !.configured = config, !.retry = FALSE], NewId)

Idle == UNCHANGED <<roll, scan, installed, tuner, frame, upsets>>

(* The tune the scan waits for has been reported. *)
Settle ==
  LET settled == [scan EXCEPT !.request = 0]
      status == Status(scan.request) IN
  \/ status = "PENDING" /\ Idle
  \/ /\ status = "OK" /\ RowIsCurrent
     /\ Commit(settled)
     /\ UNCHANGED <<tuner, frame>>
  \/ /\ status = "FAILED" \/ (status = "OK" /\ ~ RowIsCurrent)
     /\ scan' = settled
     /\ roll' = IF status = "FAILED" /\ scan.map = map THEN scan.row + 1 ELSE roll
     /\ UNCHANGED <<installed, tuner, frame, upsets>>

(* dsd_engine_channel_scan_pending *)
Pending ==
  \/ /\ scan.retry
     /\ IF RowIsCurrent THEN StartRow(scan.row)
        ELSE /\ scan' = [scan EXCEPT !.retry = FALSE]
             /\ UNCHANGED <<roll, installed, tuner, frame, upsets>>
  \/ ~ scan.retry /\ scan.request # 0 /\ Settle
  \/ ~ Waiting(scan) /\ Idle

(* dsd_engine_channel_scan_step: the row at the roll, or the next one that *)
(* is not avoided.                                                         *)
Step ==
  IF Waiting(scan) THEN Pending
  ELSE LET rows == IF Avoided = {} THEN Rows ELSE Rows \ Avoided IN
       IF rows = {} THEN Idle ELSE \E row \in NextOf(roll, rows) : StartRow(row)

(* dsd_engine_channel_scan_step_manual *)
StepManual ==
  IF Waiting(scan) THEN Pending
  ELSE LET rows == Rows \ (Parked \cup Avoided) IN
       IF rows = {} THEN Idle ELSE \E row \in NextOf(roll, rows) : StartRow(row)

(* dsd_engine_channel_scan_leave: the record is dropped, the configured     *)
(* settings come back; a tune the controller still owns goes on.           *)
Leave ==
  /\ scan' = Absent
  /\ installed' = 0
  /\ receiver' = IF scan.present \/ installed # 0 THEN Asked(Profile(0, config))
                 ELSE receiver

-----------------------------------------------------------------------------
(* The commands the decoder drains between frames *)

Commands == pc \in {"top", "between"} /\ Upset /\ UNCHANGED <<pc, frame>>

(* A command that updates the configuration re-applies the installed row's *)
(* profile and, when it has changed, asks the front end for it.            *)
Edit ==
  /\ Commands
  /\ config' = 1 - config
  /\ receiver' = IF installed \in OwnSettings THEN receiver
                 ELSE Asked(Profile(installed, 1 - config))
  /\ UNCHANGED <<scanner, map, roll, scan, installed, inflight, gate, result>>

ScannerToggle ==
  /\ Commands
  /\ scanner' = ~ scanner
  /\ IF scanner THEN Leave ELSE UNCHANGED <<scan, installed, receiver>>
  /\ UNCHANGED <<config, map, roll, inflight, gate, result>>

(* chan_map_adopt *)
ImportMap ==
  /\ Commands
  /\ map < MaxMaps
  /\ map' = map + 1
  /\ roll' = 1
  /\ Leave
  /\ UNCHANGED <<scanner, config, inflight, gate, result>>

CycleChannel ==
  /\ pc \in {"top", "between"} /\ upsets < MaxUpsets
  /\ scanner
  /\ StepManual
  /\ UNCHANGED <<pc, scanner, config, map>>

-----------------------------------------------------------------------------
(* The decoder loop *)

Go(next) == pc' = next /\ UNCHANGED <<scanner, config, map>>
Afterwards(waiting, done) ==
  IF scan'.present /\ Waiting(scan') THEN Go(waiting) ELSE Go(done)

(* The generation is captured, then the search for sync begins. *)
Search == frame' = [row |-> installed, config |-> config, fresh |-> TRUE]

TopPending == pc = "top" /\ Pending /\ Afterwards("top", "no_carrier")

(* noCarrier: failures are retired when nothing owns the tuner. *)
NoCarrierStep ==
  /\ pc = "no_carrier"
  /\ scanner
  /\ Step
  /\ Go("recheck")

NoCarrierRetire ==
  /\ pc = "no_carrier"
  /\ ~ scanner
  /\ gate' = OpenGate
  /\ Go("recheck")
  /\ UNCHANGED <<roll, scan, installed, receiver, inflight, result, frame, upsets>>

NoCarrierStay == pc = "no_carrier" /\ scanner /\ Idle /\ Go("recheck")

RecheckWaiting == pc = "recheck" /\ Waiting(scan) /\ Pending /\ Afterwards("top", "recheck")

BeginSearch ==
  /\ pc = "recheck"
  /\ ~ Waiting(scan)
  /\ Search /\ Go("search")
  /\ UNCHANGED <<roll, scan, installed, tuner, upsets>>

(* The hunt and the sync matchers may ask for the profile in use again.    *)
Searched(next) ==
  /\ pc = "search"
  /\ receiver' \in {receiver, Asked(Profile(installed, config))}
  /\ Go(next)
  /\ UNCHANGED <<roll, scan, installed, inflight, gate, result, frame, upsets>>

SyncFound == Searched("synced")
SyncLost == Searched("top")

Withheld == Waiting(scan) \/ scan.needs_commit

(* dsd_engine_channel_scan_service_sync, before a frame and after commands. *)
ServiceSync ==
  /\ pc = "synced"
  /\ IF Withheld THEN Pending /\ Go("top") ELSE Idle /\ Go("check")

(* Faulty variant: the gate alone decides. *)
DispatchableUngated(g) == NothingPending /\ ~ g.shut

Dispatchable(g) == NothingPending /\ ~ g.shut /\ frame.fresh

CheckFrame ==
  /\ pc = "check"
  /\ gate' = IF scanner THEN gate ELSE OpenGate
  /\ Go(IF Dispatchable(gate') THEN "processing" ELSE "between")
  /\ UNCHANGED <<roll, scan, installed, receiver, inflight, result, frame, upsets>>

(* processFrame; some frames teach a channel's frequency. *)
ProcessFrame ==
  /\ pc = "processing"
  /\ pc' = "between"
  /\ map' \in {map} \cup {m \in {map + 1} : m <= MaxMaps}
  /\ UNCHANGED <<scanner, config>>
  /\ Idle

NextFrame ==
  /\ pc = "between"
  /\ IF Withheld
     THEN Pending /\ Go("top")
     ELSE /\ Search /\ Go("search")
          /\ UNCHANGED <<roll, scan, installed, tuner, upsets>>

-----------------------------------------------------------------------------
(* The controller reports the tune it has been applying. *)

TuneLands ==
  LET tune == Head(inflight) IN
  /\ inflight # <<>>
  /\ tune.row \in CanSucceed
  /\ receiver' = Moved(tune.row, tune.config)
  /\ gate' = OldestLands(gate)
  /\ result' = [result EXCEPT ![tune.id] = "OK"]
  /\ frame' = [frame EXCEPT !.fresh = FALSE]
  /\ inflight' = Tail(inflight)
  /\ UNCHANGED <<pc, decoder, upsets>>

TuneIsRefused ==
  LET tune == Head(inflight) IN
  /\ inflight # <<>>
  /\ tune.row \in CanFail
  /\ gate' = OldestFails(gate)
  /\ result' = [result EXCEPT ![tune.id] = "FAILED"]
  /\ inflight' = Tail(inflight)
  /\ UNCHANGED <<pc, decoder, receiver, frame, upsets>>

Controller == TuneLands \/ TuneIsRefused

(* rtl_stream_consume_demod_profile_request, before a block. *)
Demodulator ==
  /\ \E profile \in receiver.asked :
       receiver' = [receiver EXCEPT !.profile = profile, !.asked = {}]
  /\ UNCHANGED <<pc, decoder, inflight, gate, result, frame, upsets>>

LoopStep ==
  \/ TopPending \/ NoCarrierStep \/ NoCarrierRetire \/ NoCarrierStay
  \/ RecheckWaiting \/ BeginSearch \/ SyncFound \/ SyncLost
  \/ ServiceSync \/ CheckFrame \/ ProcessFrame \/ NextFrame

Next ==
  \/ LoopStep
  \/ Edit \/ ScannerToggle \/ ImportMap \/ CycleChannel
  \/ Controller \/ Demodulator

(* The decoder thread and the controller run; a carrier pauses now and     *)
(* then, and a hangtime runs out.                                          *)
Fairness ==
  /\ WF_vars(LoopStep)
  /\ WF_vars(Controller)
  /\ SF_vars(SyncLost)
  /\ SF_vars(NoCarrierStep)

Spec == Init /\ [][Next]_vars /\ Fairness

-----------------------------------------------------------------------------
(* Properties *)

(* What RTL demodulates with, once it has taken what it is asked for. *)
Front(r) == IF r.asked = {} THEN {r.profile} ELSE r.asked

(* A frame is processed with the profile of the row the receiver is on:    *)
(* every front end has moved there, whatever was edited, retried, imported *)
(* or abandoned while the tune was under way, and RTL demodulates with that*)
(* profile and the configuration the decoder uses.  Only a request that    *)
(* went astray spoils the latter: one a landing tune overtook, one for the *)
(* outgoing row between the landing and the commit, or one that the        *)
(* restore of a failed tune replaced.                                      *)
ProfileMatchesReceiver ==
  (pc = "processing" /\ installed # 0) =>
    /\ receiver.rig = installed /\ receiver.rtl = installed
    /\ receiver.astray \/ Front(receiver) = {Profile(installed, config)}

(* Sync found with one row's profile is never decoded with another's.      *)
FrameOfThisProfile ==
  pc = "processing" => frame = [row |-> installed, config |-> config, fresh |-> TRUE]

(* With two receivers, a tune that moved the first one and failed at the    *)
(* second keeps frames withheld until a tune has moved both.               *)
PartialMoveGated ==
  (installed # 0 /\ receiver.rig # receiver.rtl) => ~ GateOpen

(* One bad row, an edit during a tune or a deferral costs its visit only:  *)
(* while the scanner stays on, every row that can be tuned is committed    *)
(* again and again, with the frame gate open.                              *)
GoodRowsServed ==
  \A row \in CanSucceed \ (CanFail \cup Parked \cup Avoided) :
    <>[]scanner => []<>(installed = row /\ ~ Waiting(scan) /\ GateOpen)

(* Its part of the tune ledger is that of OwnedTunes: the gate of a failed *)
(* row opens by a newer tune or when nothing owns the tuner, and a late     *)
(* answer moves it by one, whatever the scan has given up meanwhile.       *)
Ledger == INSTANCE OwnedTunes WITH owned <- Len(inflight)
LedgerKept == Ledger!Spec
=============================================================================
