----------------------------- MODULE P25TrunkSM -----------------------------
(***************************************************************************)
(* Following P25 calls: the trunking state machine                         *)
(* (src/upstream/dsd-neo/src/protocol/p25/p25_trunk_sm.c) as its two       *)
(* threads run it.  The decoder feeds it frames, gives up carriers and     *)
(* recovers the control channel; the watchdog (p25_sm_watchdog.c) ticks it.*)
(* Frames, ticks and the recovery take the tick guard, the release that    *)
(* frame sync asks for takes only the release lock.                        *)
(*                                                                         *)
(* One voice slot (Phase 1 channels) and one control channel; deadlines    *)
(* pass at any tick.  A step made under the guard is one action, except    *)
(* the watchdog's release, which the unguarded release can meet.  The tune *)
(* ledger appears as TuneGate has it.                                      *)
(***************************************************************************)
EXTENDS Sequences, TuneGate

CONSTANTS
  MaxVisits,    \* bound: voice channels followed in one behaviour
  MaxRefusals,  \* bound: tunes refused or deferred by an idle controller
  MaxLosses     \* bound: control channels lost while the receiver is on one

ASSUME P25Assumption ==
  MaxVisits \in Nat \ {0} /\ MaxRefusals \in Nat /\ MaxLosses \in Nat

VARIABLES
  pc,       \* where each thread is
  sm,       \* the state machine's context
  tuned,    \* opts->trunk_is_tuned, and the voice frequencies with it
  force,    \* p25_sm_force_release: 0, or the visit in which it was latched
  silent,   \* the clocks by which a hangtime has passed with no voice sync
  tuner,    \* receiver, tunes the controller owns, gate, frame freshness
  answer,   \* of the tune a release waited for
  from,     \* the channel the frame at hand was collected on
  losses,
  deserted  \* history: a failed no-carrier return has cleared the voice tune

vars == <<pc, sm, tuned, force, silent, tuner, answer, from, losses, deserted>>

Ids == 1 .. 5         \* two in the controller, two that are looked at, a new one
CC == 0               \* a control channel; visit v is on voice channel v
Channels == CC .. MaxVisits
D == "decoder"
W == "watchdog"
Releasing == {"releasing", "clearing"}
Clocks == {"monotonic", "wall"}  \* of the no-sync hook, of the no-carrier pass
Pcs == Releasing \cup
  {"idle", "top", "no_carrier", "recover", "search", "sync_tick", "listening", "synced",
   "no_sync", "entering", "hook", "hook_recover"}

TypeOK ==
  /\ pc \in [{D, W} -> Pcs]
  /\ sm \in [state : {"ON_CC", "TUNED", "HUNTING"}, visit : Channels,
             voice : {"none", "active", "ended"}, request : Ids \cup {0},
             waiting : BOOLEAN, heard : BOOLEAN]
  /\ tuned \in BOOLEAN /\ silent \in SUBSET Clocks
  /\ force \in Channels /\ from \in Channels
  /\ tuner.at \in Channels /\ tuner.fresh \in BOOLEAN
  /\ tuner.refusals \in 0 .. MaxRefusals
  /\ tuner.result \in [Ids -> {"OK", "FAILED"}]
  /\ Len(tuner.inflight) <= 2
  /\ \A i \in DOMAIN tuner.inflight : tuner.inflight[i] \in [id : Ids, to : Channels]
  /\ tuner.gate \in Gates /\ tuner.gate.older <= Len(tuner.inflight)
  /\ answer \in [result : {"OK", "PENDING"}, id : Ids]
  /\ losses \in 0 .. MaxLosses /\ deserted \in BOOLEAN

(* A system is known and its control channel is decoded.                   *)
Init ==
  /\ pc = [t \in {D, W} |-> IF t = D THEN "top" ELSE "idle"]
  /\ sm = [state |-> "ON_CC", visit |-> 0, voice |-> "none", request |-> 0,
           waiting |-> FALSE, heard |-> FALSE]
  /\ tuned = FALSE /\ force = 0 /\ silent = {}
  /\ tuner = [at |-> CC, inflight |-> <<>>, gate |-> OpenGate, fresh |-> FALSE,
              result |-> [i \in Ids |-> "OK"], refusals |-> 0]
  /\ answer = [result |-> "OK", id |-> 1]
  /\ from = CC /\ losses = 0 /\ deserted = FALSE

Go(t, next) == pc' = [pc EXCEPT ![t] = next]

(* The watchdog holds the tick guard only across its release.              *)
GuardFree == pc[W] = "idle"
LockFree == \A t \in {D, W} : pc[t] \notin Releasing

-----------------------------------------------------------------------------
(* The tuner and the ledger, as values *)

InFlight(u, id) == \E i \in DOMAIN u.inflight : u.inflight[i].id = id

(* A success moves the boundary. *)
Landed(u, id, to) == [u EXCEPT !.at = to, !.fresh = FALSE, !.result[id] = "OK"]

Status(id) == IF InFlight(tuner, id) THEN "PENDING" ELSE tuner.result[id]

GateOpen == tuner.inflight = <<>> /\ ~ tuner.gate.shut

(* Faulty variant: a boundary that moved during collection goes unnoticed. *)
DispatchableStale == GateOpen

Dispatchable == GateOpen /\ tuner.fresh

NewId(u, s) == CHOOSE id \in Ids : ~ InFlight(u, id) /\ id \notin {s.request, answer.id}

(* Faulty variant: a tune is kept whatever is kept already.                *)
FullNever(u) == FALSE

(* The controller applies one tune and keeps one more, which must have been *)
(* taken before another is kept.                                           *)
Full(u) == Len(u.inflight) = 2

(* What a call of a tuning hook may answer: done within its wait, left to   *)
(* the controller, refused, or deferred.                                   *)
Answers(u, s, to) ==
  LET id == NewId(u, s)
      ok == [result |-> "OK", id |-> id,
             tuner |-> [Landed(u, id, to) EXCEPT !.gate = OpenGate]]
      pending == [result |-> "PENDING", id |-> id,
                  tuner |-> [u EXCEPT !.inflight = Append(@, [id |-> id, to |-> to])]]
      Refusal(result, cost) ==
        [result |-> result, id |-> id,
         tuner |-> [u EXCEPT !.result[id] = "FAILED", !.refusals = @ + cost]]
  IN CASE Full(u) -> {Refusal("DEFERRED", 0)}
       [] Len(u.inflight) = 1 -> {pending, Refusal("DEFERRED", 0)}
       [] OTHER -> {ok, pending} \cup
            {Refusal(r, 1) : r \in {x \in {"FAILED", "DEFERRED"} : u.refusals < MaxRefusals}}

Accepted(a) == a.result \in {"OK", "PENDING"}

(* The controller finishes the tune it has been applying.                  *)
TuneLands ==
  /\ tuner.inflight # <<>>
  /\ LET tune == Head(tuner.inflight) IN
     tuner' = [Landed(tuner, tune.id, tune.to) EXCEPT
                 !.inflight = Tail(@), !.gate = OldestLands(@)]
  /\ UNCHANGED <<pc, sm, tuned, force, silent, answer, from, losses, deserted>>

TuneIsRefused ==
  /\ tuner.inflight # <<>>
  /\ tuner.refusals < MaxRefusals
  /\ tuner' = [tuner EXCEPT !.result[Head(tuner.inflight).id] = "FAILED",
                            !.inflight = Tail(@), !.gate = OldestFails(@), !.refusals = @ + 1]
  /\ UNCHANGED <<pc, sm, tuned, force, silent, answer, from, losses, deserted>>

Controller == TuneLands \/ TuneIsRefused

-----------------------------------------------------------------------------
(* The state machine, as values *)

(* Grants wait for the tune, and for a control block decoded after it.     *)
Acquiring(s, a) ==
  [s EXCEPT !.state = "ON_CC", !.waiting = TRUE, !.heard = FALSE,
            !.request = IF a.result = "PENDING" THEN a.id ELSE 0]

(* p25_release_clear_context, then the acquisition.                        *)
Returned(s, a) == Acquiring([s EXCEPT !.voice = "none"], a)

Hunting(s) == [s EXCEPT !.state = "HUNTING", !.request = 0]

(* Faulty variant: only a success is looked for.                           *)
ResolvedOnSuccess(s) ==
  IF s.request # 0 /\ Status(s.request) = "OK" THEN [s EXCEPT !.request = 0] ELSE s

(* p25_sm_resolve_pending_cc_tune *)
Resolved(s) ==
  CASE s.request = 0 \/ Status(s.request) = "PENDING" -> s
    [] s.request # 0 /\ Status(s.request) = "OK" -> [s EXCEPT !.request = 0]
    [] OTHER -> [Hunting(s) EXCEPT !.waiting = FALSE]

Refreshed(s) == [s EXCEPT !.waiting = @ /\ ~ s.heard]

Followed(s) ==
  [s EXCEPT !.state = "TUNED", !.visit = @ + 1, !.voice = "none",
            !.request = 0, !.waiting = FALSE]

ShouldReturn == sm.state = "TUNED" \/ tuned
CtxIsStale == sm.state = "TUNED" /\ ~ tuned

(* do_release under the tick guard.                                        *)
Release ==
  \E a \in Answers(tuner, sm, CC) :
    /\ tuner' = a.tuner
    /\ IF Accepted(a)
       THEN sm' = Returned(sm, a) /\ tuned' = FALSE /\ force' = 0
       ELSE force' = sm.visit /\ UNCHANGED <<sm, tuned>>

(* A context the decoder has abandoned is initialised, not returned.       *)
StaleReset ==
  /\ CtxIsStale
  /\ sm' = [sm EXCEPT !.state = "ON_CC", !.voice = "none", !.heard = FALSE,
                      !.request = 0, !.waiting = FALSE]
  /\ UNCHANGED <<tuned, force, tuner>>

(* p25_sm_release under the tick guard.                                    *)
PublicRelease == IF CtxIsStale THEN StaleReset ELSE Release

-----------------------------------------------------------------------------
(* Ticks: p25_sm_tick_ctx under the guard *)

(* try_next_cc *)
TryNextCc(s) ==
  \E a \in Answers(tuner, s, CC) :
    /\ tuner' = a.tuner
    /\ sm' = IF Accepted(a) THEN Acquiring(s, a) ELSE s

TickForceOff ==
  /\ force # 0 /\ sm.state # "TUNED"
  /\ force' = 0
  /\ UNCHANGED <<sm, tuned, tuner, losses>>

(* The latch is up, or the voice or grant deadline has passed.             *)
ReleaseDue == sm.state = "TUNED" /\ (force # 0 \/ sm.voice # "active")

TickOnCc ==
  /\ force = 0 /\ sm.state = "ON_CC"
  /\ LET s == Resolved(sm) IN
     IF s.state = "HUNTING"
     THEN TryNextCc(s) /\ UNCHANGED losses
     ELSE /\ sm' = IF s.request = 0 THEN Refreshed(s) ELSE s
          /\ UNCHANGED <<tuner, losses>>
  /\ UNCHANGED <<tuned, force>>

(* The acquisition or the control channel times out.  With the receiver on *)
(* a voice channel nothing else can happen.                                *)
TickCcLost ==
  /\ force = 0 /\ sm.state = "ON_CC"
  /\ LET s == Resolved(sm) IN
     /\ s.state = "ON_CC" /\ s.request = 0
     /\ TryNextCc([Hunting(Refreshed(s)) EXCEPT !.heard = FALSE])
  /\ IF tuner.at # CC THEN UNCHANGED losses ELSE losses < MaxLosses /\ losses' = losses + 1
  /\ UNCHANGED <<tuned, force>>

TickHunting ==
  /\ force = 0 /\ sm.state = "HUNTING"
  /\ IF sm.heard
     THEN sm' = [Refreshed(sm) EXCEPT !.state = "ON_CC"] /\ UNCHANGED tuner
     ELSE TryNextCc(sm)
  /\ UNCHANGED <<tuned, force, losses>>

TickElsewhere == TickForceOff \/ TickOnCc \/ TickCcLost \/ TickHunting

(* The decoder's tick: with the guard held nobody meets its release.       *)
TickDecoder ==
  /\ GuardFree
  /\ TickElsewhere \/ (ReleaseDue /\ Release /\ UNCHANGED losses)

-----------------------------------------------------------------------------
(* A release step by step, by the watchdog or by frame sync: t takes the   *)
(* lock and the latch, waits for the tune, clears the context.             *)

(* Faulty variant: both threads may be inside.                             *)
ReleaseEnterUnlocked(t, next) ==
  /\ force' = 0
  /\ Go(t, IF ShouldReturn THEN "releasing" ELSE next)
  /\ UNCHANGED <<sm, tuned, silent, tuner, answer, from, losses, deserted>>

ReleaseEnter(t, next) ==
  /\ LockFree
  /\ force' = 0
  /\ Go(t, IF ShouldReturn THEN "releasing" ELSE next)
  /\ UNCHANGED <<sm, tuned, silent, tuner, answer, from, losses, deserted>>

ReleaseContended(t, next) ==
  /\ ~ LockFree
  /\ Go(t, next)
  /\ UNCHANGED <<sm, tuned, force, silent, tuner, answer, from, losses, deserted>>

ReleaseTune(t, next) ==
  /\ pc[t] = "releasing"
  /\ \E a \in Answers(tuner, sm, CC) :
       /\ tuner' = a.tuner
       /\ IF Accepted(a)
          THEN /\ tuned' = FALSE
               /\ answer' = [result |-> a.result, id |-> a.id]
               /\ Go(t, "clearing") /\ UNCHANGED force
          ELSE force' = sm.visit /\ Go(t, next) /\ UNCHANGED <<tuned, answer>>
  /\ UNCHANGED <<sm, silent, from, losses, deserted>>

ReleaseClear(t, next) ==
  /\ pc[t] = "clearing"
  /\ sm' = Returned(sm, answer)
  /\ tuned' = FALSE
  /\ Go(t, next)
  /\ UNCHANGED <<force, silent, tuner, answer, from, losses, deserted>>

WatchdogTick ==
  /\ pc[W] = "idle"
  /\ TickElsewhere
  /\ UNCHANGED <<pc, silent, answer, from, deserted>>

WatchdogRelease ==
  /\ pc[W] = "idle" /\ ReleaseDue
  /\ ReleaseEnter(W, "idle") \/ ReleaseContended(W, "idle")

Watchdog ==
  \/ WatchdogTick \/ WatchdogRelease
  \/ ReleaseTune(W, "idle") \/ ReleaseClear(W, "idle")

-----------------------------------------------------------------------------
(* The decoder: the main loop, the search for sync and its hooks *)

(* The tick in the search is made now and then, the one at the top of the   *)
(* loop always; a tick does nothing with the guard held, or in a call whose *)
(* latch is down and whose deadlines have not passed.                      *)
TickMayIdle(at) ==
  at = "sync_tick" \/ ~ GuardFree \/ (sm.state = "TUNED" /\ force = 0)

LoopTick(at, next) ==
  /\ pc[D] = at
  /\ Go(D, next)
  /\ \/ TickDecoder
     \/ TickMayIdle(at) /\ UNCHANGED <<sm, tuned, force, tuner, losses>>
  /\ UNCHANGED <<silent, answer, from, deserted>>

(* no_carrier_is_cc_return_due, read before the guard is tried: whole      *)
(* seconds of the wall clock, and neither the grace nor the slots of the    *)
(* no-sync hook, so that either of the two may be due before the other.    *)
NoCarrier(at, due, otherwise) ==
  /\ pc[D] = at
  /\ IF tuned /\ "wall" \in silent THEN Go(D, due) ELSE Go(D, otherwise)
  /\ UNCHANGED <<sm, tuned, force, silent, tuner, answer, from, losses, deserted>>

(* no_carrier_try_helper_return_to_cc, and what becomes of its answer.     *)
NoCarrierReturn(at, next) ==
  /\ pc[D] = at
  /\ Go(D, next)
  /\ \/ /\ GuardFree
        /\ \E a \in Answers(tuner, sm, CC) :
             /\ tuner' = a.tuner
             /\ sm' = IF Accepted(a) THEN Acquiring(sm, a) ELSE sm
             /\ tuned' = (tuned /\ a.result = "DEFERRED")
             /\ deserted' = (deserted \/ (tuned /\ a.result = "FAILED"))
     \/ ~ GuardFree /\ UNCHANGED <<sm, tuned, tuner, deserted>>
  /\ UNCHANGED <<force, silent, answer, from, losses>>

(* The generation is captured, then symbols are read.                      *)
BeginSearch ==
  /\ pc[D] = "search"
  /\ Go(D, "sync_tick")
  /\ from' = tuner.at
  /\ tuner' = [tuner EXCEPT !.fresh = TRUE]
  /\ UNCHANGED <<sm, tuned, force, silent, answer, losses, deserted>>

Listen(next, passed) ==
  /\ pc[D] = "listening"
  /\ Go(D, next)
  /\ silent' = silent \cup passed
  /\ UNCHANGED <<sm, tuned, force, tuner, answer, from, losses, deserted>>

SyncFound == Listen("synced", {})
NoSync == Listen("no_sync", {})
HangtimePasses(clock) == tuned /\ Listen("no_sync", {clock})
NoSyncForLong == \E clock \in Clocks : HangtimePasses(clock)

(* frame_sync_no_sync_try_p25_release latches, then releases unguarded.    *)
(* (Only the decoder abandons a context: none is stale between the two.)   *)
NoSyncLatch ==
  /\ pc[D] = "no_sync"
  /\ IF tuned /\ "monotonic" \in silent
     THEN force' = sm.visit /\ Go(D, "entering")
     ELSE Go(D, "hook") /\ UNCHANGED force
  /\ UNCHANGED <<sm, tuned, silent, tuner, answer, from, losses, deserted>>

NoSyncRelease ==
  /\ pc[D] = "entering"
  /\ \/ ReleaseContended(D, "hook")
     \/ ReleaseEnter(D, "hook")

-----------------------------------------------------------------------------
(* Frames, under the tick guard *)

Frame ==
  /\ pc[D] = "synced" /\ GuardFree
  /\ Go(D, "search")
  /\ UNCHANGED <<answer, from, losses>>

FrameWithheld ==
  /\ Frame
  /\ ~ Dispatchable
  /\ UNCHANGED <<sm, tuned, force, silent, tuner, deserted>>

Dispatch == Frame /\ Dispatchable

Noted == IF from = CC THEN [sm EXCEPT !.heard = TRUE] ELSE sm

CcBlock ==
  /\ Dispatch
  /\ from = CC
  /\ sm' = Noted
  /\ UNCHANGED <<tuned, force, silent, tuner, deserted>>

(* p25_grant_blocked_by_pending_cc: what it leaves behind.                 *)
Unblocked(s) ==
  LET r == Resolved(s)
  IN IF (s.request # 0 \/ s.waiting) /\ r.request = 0 /\ r.state = "ON_CC" THEN Refreshed(r) ELSE r
Blocked(s) == s.request # 0 \/ s.waiting

(* Faulty variant: tuned only once the tune is known to have landed.       *)
TuneVcWhenSure(s, u, stillTuned, latch) ==
  \E a \in Answers(u, s, s.visit + 1) :
    /\ tuner' = a.tuner
    /\ sm' = IF Accepted(a) THEN Followed(s) ELSE s
    /\ tuned' = (a.result = "OK" \/ stillTuned)
    /\ silent' = IF Accepted(a) THEN {} ELSE silent
    /\ deserted' = (deserted /\ ~ Accepted(a))
    /\ force' = latch

(* The tune of an accepted grant, from context s.                          *)
TuneVc(s, u, stillTuned, latch) ==
  \E a \in Answers(u, s, s.visit + 1) :
    /\ tuner' = a.tuner
    /\ sm' = IF Accepted(a) THEN Followed(s) ELSE s
    /\ tuned' = (Accepted(a) \/ stillTuned)
    /\ silent' = IF Accepted(a) THEN {} ELSE silent
    /\ deserted' = (deserted /\ ~ Accepted(a))
    /\ force' = latch

Grant ==
  /\ Dispatch
  /\ sm.visit < MaxVisits
  /\ sm.state # "TUNED"
  /\ LET s == Unblocked(Noted) IN
     IF Blocked(s)
     THEN sm' = s /\ UNCHANGED <<tuned, force, silent, tuner, deserted>>
     ELSE TuneVc(s, tuner, tuned, force)

(* A grant that displaces the call: release first, then tune.              *)
Preempt ==
  /\ Dispatch
  /\ sm.visit < MaxVisits
  /\ sm.state = "TUNED"
  /\ \E a \in Answers(tuner, sm, CC) :
       IF Accepted(a)
       THEN TuneVc(Returned(sm, a), a.tuner, FALSE, 0)
       ELSE /\ tuner' = a.tuner
            /\ force' = sm.visit
            /\ UNCHANGED <<sm, tuned, silent, deserted>>

(* A new call on the carrier at hand.                                      *)
Regrant ==
  /\ Dispatch
  /\ from # CC /\ sm.state = "TUNED" /\ tuned /\ sm.voice # "active"
  /\ sm' = [sm EXCEPT !.voice = "none"]
  /\ silent' = {}
  /\ UNCHANGED <<tuned, force, tuner, deserted>>

Voice(phase) ==
  /\ Dispatch
  /\ from # CC
  /\ sm' = IF sm.state = "TUNED" THEN [sm EXCEPT !.voice = phase] ELSE sm
  /\ silent' = {}
  /\ UNCHANGED <<tuned, force, tuner, deserted>>

VoiceStart == Voice("active")
VoiceEnd == Voice("ended")

(* A network release, or a refusal on the control channel.                 *)
ExplicitRelease ==
  /\ Dispatch
  /\ \/ ShouldReturn /\ PublicRelease
     \/ ~ ShouldReturn /\ sm' = Noted /\ force' = 0 /\ UNCHANGED <<tuned, tuner>>
  /\ UNCHANGED <<silent, deserted>>

DispatchedFrame ==
  \/ CcBlock \/ Grant \/ Preempt \/ Regrant \/ VoiceStart \/ VoiceEnd \/ ExplicitRelease

Decoder ==
  \/ LoopTick("top", "no_carrier") \/ LoopTick("sync_tick", "listening")
  \/ NoCarrier("no_carrier", "recover", "search") \/ NoCarrier("hook", "hook_recover", "top")
  \/ NoCarrierReturn("recover", "search") \/ NoCarrierReturn("hook_recover", "top")
  \/ BeginSearch \/ SyncFound \/ NoSync \/ NoSyncForLong
  \/ NoSyncLatch \/ NoSyncRelease
  \/ ReleaseTune(D, "hook") \/ ReleaseClear(D, "hook")
  \/ FrameWithheld \/ DispatchedFrame

Next == Decoder \/ Watchdog \/ Controller

(* Both threads and the controller run; a call does not go on for ever and *)
(* a deadline is noticed; a control channel is decoded now and then; with  *)
(* the receiver elsewhere its loss is noticed.                             *)
Fairness ==
  /\ WF_vars(Decoder) /\ WF_vars(Watchdog) /\ WF_vars(Controller)
  /\ SF_vars(WatchdogRelease) /\ SF_vars(HangtimePasses("monotonic"))
  /\ SF_vars(SyncFound) /\ SF_vars(CcBlock)
  /\ SF_vars(WatchdogTick /\ TickCcLost /\ tuner.at # CC)

Spec == Init /\ [][Next]_vars /\ Fairness

-----------------------------------------------------------------------------
(* Properties *)

(* A frame the decoder handles while the machine follows a call comes from *)
(* that call's channel: not from the control channel it left, nor from the *)
(* channel of an earlier call, however tunes were answered.                *)
FrameMatchesState ==
  (pc[D] = "synced" /\ GuardFree /\ Dispatchable /\ sm.state = "TUNED") => from = sm.visit

(* A release sends the receiver back only from a call that is still up, so *)
(* two threads that give up one call return from it once.                  *)
ReturnEndsAVisit ==
  [][\A t \in {D, W} :
       (pc[t] = "releasing" /\ pc'[t] = "clearing") => sm.state = "TUNED"]_vars

(* A failed return of the no-carrier pass clears the voice tune and raises  *)
(* no latch: from then on only a frame gets the call, while voice is active *)
(* in it, out of the machine.                                              *)
Deserted == sm.state = "TUNED" /\ deserted /\ sm.voice = "active" /\ force = 0

(* Whoever is in the way, the machine does not stay in a call: every call  *)
(* it follows is given up (a bound on the calls makes this the same), but  *)
(* for one that a failed no-carrier return has left without its voice tune *)
(* while voice was active and nobody had latched a release.                *)
VisitEnds == []<>(sm.state # "TUNED" \/ Deserted)

(* Off a call, the machine gets back to a control channel it decodes, or   *)
(* follows another call, whatever became of the tune that returns it.      *)
CcRegained ==
  []<>(sm.state = "TUNED" \/ (sm.state = "ON_CC" /\ ~ sm.waiting /\ tuner.at = CC))

(* The latch that forces a release is spent by the end of the call it was  *)
(* set for, and never tears down a later one.                              *)
ForceIsOfThisVisit ==
  (sm.state = "TUNED" /\ force # 0) => force = sm.visit

(* Two threads tune through the ledger, and it stays that of OwnedTunes:   *)
(* no call is counted twice and none is lost, whichever thread made it.    *)
Ledger == INSTANCE OwnedTunes WITH owned <- Len(tuner.inflight), gate <- tuner.gate
LedgerKept == Ledger!Spec
=============================================================================
