-------------------------- MODULE P25TrunkSMProofs --------------------------
(***************************************************************************)
(* Two threads that give up one call return from it once, and a frame that *)
(* is decoded during a call comes from the call's channel, for any number  *)
(* of calls, refusals and losses.                                          *)
(*                                                                         *)
(* What the tunes answer does not matter to the first: it rests on the     *)
(* release lock, on the tick guard, and on the options saying tuned only   *)
(* while the machine follows a call.  The second follows the receiver:     *)
(* the newest tune goes to the call's channel, or the receiver is there,   *)
(* or the gate is shut.                                                    *)
(***************************************************************************)
EXTENDS P25TrunkSM, SequenceTheorems, TLAPS

(* The context is a record with its fields, whatever is in them.           *)
Fields == {"state", "visit", "voice", "request", "waiting", "heard"}
IsContext(s) == s = [f \in Fields |-> s[f]]

(* The watchdog is idle or inside a release, and then the decoder is in none. *)
LockHeldOnce ==
  /\ pc \in [{D, W} -> Pcs]
  /\ pc[W] \in Releasing \cup {"idle"}
  /\ pc[D] \in Releasing => pc[W] = "idle"

(* The options never say tuned alone, and nobody ends a call under a thread *)
(* that is about to return from it.                                        *)
CallIsKnown ==
  /\ tuned => sm.state = "TUNED"
  /\ \A t \in {D, W} : pc[t] = "releasing" => sm.state = "TUNED"

IInv == IsContext(sm) /\ LockHeldOnce /\ CallIsKnown

-----------------------------------------------------------------------------
(* Contexts *)

(* What the machine makes of a context is a context. *)
LEMMA ContextsStay ==
  ASSUME NEW s, IsContext(s), NEW a
  PROVE  /\ IsContext(Acquiring(s, a)) /\ IsContext(Hunting(s))
         /\ IsContext(Refreshed(s)) /\ IsContext([s EXCEPT !.heard = FALSE])
         /\ IsContext([s EXCEPT !.heard = TRUE]) /\ IsContext([s EXCEPT !.request = 0])
         /\ IsContext([s EXCEPT !.waiting = FALSE]) /\ IsContext([s EXCEPT !.state = "ON_CC"])
         /\ IsContext(Followed(s)) /\ Followed(s).state = "TUNED"
         /\ \A v : /\ IsContext([s EXCEPT !.voice = v])
                   /\ [s EXCEPT !.voice = v].state = s.state
<1>1. IsContext(Acquiring(s, a))  BY DEF IsContext, Acquiring, Fields
<1>2. IsContext(Hunting(s)) /\ IsContext(Refreshed(s))
  BY DEF IsContext, Hunting, Refreshed, Fields
<1>3. IsContext(Followed(s)) /\ Followed(s).state = "TUNED"
  BY DEF IsContext, Followed, Fields
<1>4. /\ IsContext([s EXCEPT !.heard = FALSE]) /\ IsContext([s EXCEPT !.heard = TRUE])
      /\ IsContext([s EXCEPT !.request = 0]) /\ IsContext([s EXCEPT !.waiting = FALSE])
      /\ IsContext([s EXCEPT !.state = "ON_CC"])
  BY DEF IsContext
<1>5. ASSUME NEW v
      PROVE  IsContext([s EXCEPT !.voice = v]) /\ [s EXCEPT !.voice = v].state = s.state
  BY DEF IsContext, Fields
<1>6. QED  BY <1>1, <1>2, <1>3, <1>4, <1>5

(* A return, a look at the pending tune and a control block make contexts.  *)
LEMMA ContextsOf ==
  ASSUME NEW s, IsContext(s), NEW a
  PROVE  IsContext(Returned(s, a)) /\ IsContext(Resolved(s)) /\ IsContext(Unblocked(s))
<1>1. IsContext(Returned(s, a))
  <2>1. IsContext([s EXCEPT !.voice = "none"])  BY ContextsStay
  <2>2. QED  BY <2>1, ContextsStay DEF Returned
<1>2. IsContext(Resolved(s))
  <2>1. IsContext([Hunting(s) EXCEPT !.waiting = FALSE])
    BY ContextsStay
  <2>2. IsContext([s EXCEPT !.request = 0])  BY ContextsStay
  <2>3. QED  BY <2>1, <2>2 DEF Resolved
<1>3. IsContext(Unblocked(s))
  BY <1>2, ContextsStay DEF Unblocked
<1>4. QED  BY <1>1, <1>2, <1>3

(* A step under the guard ends in a context, and says tuned only of a call  *)
(* the machine follows.                                                    *)
LEMMA GuardedRelease ==
  ASSUME IsContext(sm), CallIsKnown, Release
  PROVE  IsContext(sm') /\ (tuned' => sm'.state = "TUNED")
<1>1. PICK a \in Answers(tuner, sm, CC) :
        IF Accepted(a)
        THEN sm' = Returned(sm, a) /\ tuned' = FALSE
        ELSE UNCHANGED <<sm, tuned>>
  BY DEF Release
<1>2. CASE Accepted(a)
  <2>1. IsContext(Returned(sm, a))  BY ContextsOf
  <2>2. QED  BY <1>1, <1>2, <2>1
<1>3. CASE ~ Accepted(a)  BY <1>1, <1>3 DEF CallIsKnown
<1>4. QED  BY <1>2, <1>3

(* Hunting for a control channel and giving up do not follow a call. *)
LEMMA HuntStays ==
  ASSUME NEW s, IsContext(s), NEW a, NEW t, t = IF Accepted(a) THEN Acquiring(s, a) ELSE s
  PROVE  IsContext(t)
BY ContextsStay

(* A tick of the machine under the guard is sound in each of its branches:  *)
(* a release, a hunt, or waiting on.                                        *)
LEMMA GuardedTick ==
  ASSUME IsContext(sm), CallIsKnown, TickElsewhere
  PROVE  IsContext(sm') /\ ~ tuned /\ ~ tuned' /\ sm.state # "TUNED"
<1>1. sm.state # "TUNED" /\ tuned' = tuned
  BY DEF TickElsewhere, TickForceOff, TickOnCc, TickCcLost, TickHunting
<1>2. ~ tuned  BY <1>1 DEF CallIsKnown
<1> SUFFICES IsContext(sm')  BY <1>1, <1>2
<1>3. IsContext(Resolved(sm)) /\ IsContext(Refreshed(sm))  BY ContextsOf, ContextsStay
<1>4. CASE TickForceOff  BY <1>4 DEF TickForceOff
<1>5. CASE TickOnCc
  <2>1. CASE Resolved(sm).state = "HUNTING"
    <3>1. TryNextCc(Resolved(sm))  BY <1>5, <2>1 DEF TickOnCc
    <3>2. PICK a : sm' = IF Accepted(a) THEN Acquiring(Resolved(sm), a) ELSE Resolved(sm)
      BY <3>1 DEF TryNextCc
    <3>3. QED  BY <1>3, <3>2, HuntStays
  <2>2. CASE Resolved(sm).state # "HUNTING"
    <3>1. IsContext(Refreshed(Resolved(sm)))  BY <1>3, ContextsStay
    <3>2. sm' = Refreshed(Resolved(sm)) \/ sm' = Resolved(sm)
      BY <1>5, <2>2 DEF TickOnCc
    <3>3. QED  BY <1>3, <3>1, <3>2
  <2>3. QED  BY <2>1, <2>2
<1>6. CASE TickCcLost
  <2>1. IsContext(Refreshed(Resolved(sm)))  BY <1>3, ContextsStay
  <2>2. IsContext(Hunting(Refreshed(Resolved(sm))))  BY <2>1, ContextsStay
  <2>3. IsContext([Hunting(Refreshed(Resolved(sm))) EXCEPT !.heard = FALSE])
    BY <2>2, ContextsStay
  <2>4. TryNextCc([Hunting(Refreshed(Resolved(sm))) EXCEPT !.heard = FALSE])
    BY <1>6 DEF TickCcLost
  <2>5. PICK a : sm' = IF Accepted(a)
                       THEN Acquiring([Hunting(Refreshed(Resolved(sm))) EXCEPT !.heard = FALSE], a)
                       ELSE [Hunting(Refreshed(Resolved(sm))) EXCEPT !.heard = FALSE]
    BY <2>4 DEF TryNextCc
  <2>6. QED  BY <2>3, <2>5, HuntStays
<1>7. CASE TickHunting
  <2>1. IsContext([Refreshed(sm) EXCEPT !.state = "ON_CC"])  BY <1>3, ContextsStay
  <2>2. CASE sm.heard
    <3>1. sm' = [Refreshed(sm) EXCEPT !.state = "ON_CC"]  BY <1>7, <2>2 DEF TickHunting
    <3>2. QED  BY <2>1, <3>1
  <2>3. CASE ~ sm.heard
    <3>1. TryNextCc(sm)  BY <1>7, <2>3 DEF TickHunting
    <3>2. PICK a : sm' = IF Accepted(a) THEN Acquiring(sm, a) ELSE sm
      BY <3>1 DEF TryNextCc
    <3>3. QED  BY <3>2, HuntStays
  <2>4. QED  BY <2>2, <2>3
<1>8. QED  BY <1>4, <1>5, <1>6, <1>7 DEF TickElsewhere

(* A grant under the guard says tuned only of the call it follows. *)
LEMMA GuardedGrant ==
  ASSUME NEW s, IsContext(s), NEW u, NEW latch, TuneVc(s, u, FALSE, latch)
  PROVE  IsContext(sm') /\ (tuned' => sm'.state = "TUNED")
<1>1. PICK a \in Answers(u, s, s.visit + 1) :
        /\ sm' = IF Accepted(a) THEN Followed(s) ELSE s
        /\ tuned' = (Accepted(a) \/ FALSE)
  BY DEF TuneVc
<1>2. IsContext(Followed(s)) /\ Followed(s).state = "TUNED"  BY ContextsStay
<1>3. QED  BY <1>1, <1>2

(* What a frame of voice or a control block does under the guard is sound. *)
LEMMA GuardedFrame ==
  ASSUME IsContext(sm), CallIsKnown, DispatchedFrame
  PROVE  IsContext(sm') /\ (tuned' => sm'.state = "TUNED")
<1>1. IsContext(Noted) /\ Noted.state = sm.state
  BY ContextsStay DEF Noted, IsContext, Fields
<1>2. CASE CcBlock  BY <1>1, <1>2 DEF CcBlock, CallIsKnown
<1>3. CASE Grant
  <2>1. ~ tuned  BY <1>3 DEF Grant, CallIsKnown
  <2>2. IsContext(Unblocked(Noted))  BY <1>1, ContextsOf
  <2>3. CASE Blocked(Unblocked(Noted))
    <3>1. sm' = Unblocked(Noted) /\ tuned' = tuned  BY <1>3, <2>3 DEF Grant
    <3>2. QED  BY <2>1, <2>2, <3>1
  <2>4. CASE ~ Blocked(Unblocked(Noted))
    <3>1. TuneVc(Unblocked(Noted), tuner, tuned, force)  BY <1>3, <2>4 DEF Grant
    <3>2. PICK a \in Answers(tuner, Unblocked(Noted), Unblocked(Noted).visit + 1) :
            /\ sm' = IF Accepted(a) THEN Followed(Unblocked(Noted)) ELSE Unblocked(Noted)
            /\ tuned' = (Accepted(a) \/ tuned)
      BY <3>1 DEF TuneVc
    <3>3. IsContext(Followed(Unblocked(Noted))) /\ Followed(Unblocked(Noted)).state = "TUNED"
      BY <2>2, ContextsStay
    <3>4. QED  BY <2>1, <2>2, <3>2, <3>3
  <2>5. QED  BY <2>3, <2>4
<1>4. CASE Preempt
  <2>1. PICK a \in Answers(tuner, sm, CC) :
          IF Accepted(a)
          THEN TuneVc(Returned(sm, a), a.tuner, FALSE, 0)
          ELSE UNCHANGED <<sm, tuned>>
    BY <1>4 DEF Preempt
  <2>2. CASE Accepted(a)
    <3>1. IsContext(Returned(sm, a))  BY ContextsOf
    <3>2. QED  BY <2>1, <2>2, <3>1, GuardedGrant
  <2>3. CASE ~ Accepted(a)  BY <2>1, <2>3 DEF CallIsKnown
  <2>4. QED  BY <2>2, <2>3
<1>5. CASE Regrant
  <2>1. sm' = [sm EXCEPT !.voice = "none"] /\ tuned' = tuned  BY <1>5 DEF Regrant
  <2>2. QED  BY <2>1, ContextsStay DEF CallIsKnown
<1>6. CASE VoiceStart \/ VoiceEnd
  <2>1. PICK phase : /\ sm' = IF sm.state = "TUNED" THEN [sm EXCEPT !.voice = phase] ELSE sm
                     /\ tuned' = tuned
    BY <1>6 DEF VoiceStart, VoiceEnd, Voice
  <2>2. QED  BY <2>1, ContextsStay DEF CallIsKnown
<1>7. CASE ExplicitRelease
  <2>1. CASE PublicRelease
    <3>1. CASE CtxIsStale
      <4>1. StaleReset  BY <2>1, <3>1 DEF PublicRelease
      <4>2. ~ tuned'  BY <3>1, <4>1 DEF StaleReset, CtxIsStale
      <4>3. sm' = [sm EXCEPT !.state = "ON_CC", !.voice = "none", !.heard = FALSE,
                             !.request = 0, !.waiting = FALSE]
        BY <4>1 DEF StaleReset
      <4>4. IsContext(sm')  BY <4>3 DEF IsContext
      <4>5. QED  BY <4>2, <4>4
    <3>2. CASE ~ CtxIsStale  BY <2>1, <3>2, GuardedRelease DEF PublicRelease
    <3>3. QED  BY <3>1, <3>2
  <2>2. CASE sm' = Noted /\ tuned' = tuned  BY <1>1, <2>2 DEF CallIsKnown
  <2>3. QED  BY <1>7, <2>1, <2>2 DEF ExplicitRelease
<1>8. QED  BY <1>2, <1>3, <1>4, <1>5, <1>6, <1>7 DEF DispatchedFrame

-----------------------------------------------------------------------------
(* Steps *)

(* Only these program counters take part in a release. *)
LEMMA Threads == D # W /\ "idle" \notin Releasing /\ "releasing" # "clearing"
BY DEF D, W, Releasing

(* The machine starts on the control channel, with nobody in a release. *)
LEMMA InitIInv == Init => IInv
<1> SUFFICES ASSUME Init PROVE IInv  OBVIOUS
<1>1. IsContext(sm)  BY DEF Init, IsContext, Fields
<1>2. LockHeldOnce  BY DEF Init, LockHeldOnce, Pcs, Releasing, D, W
<1>3. CallIsKnown  BY DEF Init, CallIsKnown, D, W
<1>4. QED  BY <1>1, <1>2, <1>3 DEF IInv

(* A step of the decoder outside a release, with the guard free or without *)
(* a change of the call, cannot be met by one.                             *)
LEMMA OutsideRelease ==
  ASSUME IInv, NEW next \in Pcs \ Releasing, Go(D, next), pc[D] \notin Releasing,
         IsContext(sm'), tuned' => sm'.state = "TUNED",
         pc[W] = "idle" \/ UNCHANGED sm
  PROVE  IInv' /\ pc'[D] \notin Releasing /\ pc'[W] = pc[W]
<1>1. pc' = [pc EXCEPT ![D] = next] /\ pc' \in [{D, W} -> Pcs]
  BY DEF IInv, LockHeldOnce, Go
<1>2. pc'[D] = next /\ pc'[W] = pc[W]  BY <1>1, Threads DEF IInv, LockHeldOnce
<1>3. LockHeldOnce'  BY <1>1, <1>2 DEF IInv, LockHeldOnce
<1>4. CallIsKnown'
  <2>1. "releasing" \in Releasing /\ "idle" # "releasing"  BY DEF Releasing
  <2>2. QED  BY <1>2, <2>1 DEF IInv, CallIsKnown
<1>5. QED  BY <1>2, <1>3, <1>4 DEF IInv

(* Taking the lock: the call is up, and stays up until the other thread has *)
(* seen that the lock is taken.                                            *)
LEMMA EnterRelease ==
  ASSUME IInv, NEW t \in {D, W}, NEW next \in Pcs \ Releasing, t = W => next = "idle",
         pc[t] \notin Releasing, ReleaseEnter(t, next) \/ ReleaseContended(t, next)
  PROVE  IInv' /\ pc'[t] # "clearing"
<1>1. PICK to \in Pcs : /\ pc' = [pc EXCEPT ![t] = to]
                        /\ UNCHANGED <<sm, tuned>>
                        /\ to = next \/ (to = "releasing" /\ LockFree /\ ShouldReturn)
  <2>1. "releasing" \in Pcs  BY DEF Pcs, Releasing
  <2>2. QED  BY <2>1 DEF ReleaseEnter, ReleaseContended, Go
<1>2. /\ pc' \in [{D, W} -> Pcs] /\ pc'[t] = to
      /\ \A u \in {D, W} : u # t => pc'[u] = pc[u]
  BY <1>1 DEF IInv, LockHeldOnce
<1>3. LockHeldOnce'
  <2>1. "releasing" \in Releasing /\ "idle" \notin Releasing  BY DEF Releasing
  <2>2. CASE to = next  BY <1>2, <2>1, <2>2, Threads DEF IInv, LockHeldOnce
  <2>3. CASE to = "releasing" /\ LockFree
    BY <1>2, <2>1, <2>3, Threads DEF IInv, LockHeldOnce, LockFree
  <2>4. QED  BY <1>1, <2>2, <2>3
<1>4. CallIsKnown'
  <2>1. ShouldReturn => sm.state = "TUNED"  BY DEF IInv, CallIsKnown, ShouldReturn
  <2>2. next # "releasing"  BY DEF Releasing
  <2>3. QED  BY <1>1, <1>2, <2>1, <2>2 DEF IInv, CallIsKnown
<1>5. to # "clearing"  BY <1>1 DEF Releasing
<1>6. QED  BY <1>1, <1>2, <1>3, <1>4, <1>5 DEF IInv

(* The thread that holds the lock returns, or is refused. *)
LEMMA TuneInRelease ==
  ASSUME IInv, NEW t \in {D, W}, NEW next \in Pcs \ Releasing, t = W => next = "idle",
         ReleaseTune(t, next)
  PROVE  IInv' /\ sm.state = "TUNED"
<1>1. PICK to \in Pcs : /\ pc' = [pc EXCEPT ![t] = to]
                        /\ to \in {"clearing", next} /\ sm' = sm
                        /\ tuned' \in {FALSE, tuned}
  <2>1. "clearing" \in Pcs  BY DEF Pcs, Releasing
  <2>2. QED  BY <2>1 DEF ReleaseTune, Go
<1>2. pc[t] = "releasing" /\ pc[t] \in Releasing  BY DEF ReleaseTune, Releasing
<1>3. /\ pc' \in [{D, W} -> Pcs] /\ pc'[t] = to
      /\ \A u \in {D, W} : u # t => pc'[u] = pc[u]
  BY <1>1 DEF IInv, LockHeldOnce
<1>4. LockHeldOnce'
  <2>1. "clearing" \in Releasing  BY DEF Releasing
  <2>2. QED  BY <1>1, <1>2, <1>3, <2>1, Threads DEF IInv, LockHeldOnce
<1>5. CallIsKnown'  BY <1>1, <1>2, <1>3 DEF IInv, CallIsKnown, Releasing
<1>6. sm.state = "TUNED"  BY <1>2 DEF IInv, CallIsKnown
<1>7. QED  BY <1>1, <1>4, <1>5, <1>6 DEF IInv

(* The thread that holds the lock clears the call and gives the lock back. *)
LEMMA ClearInRelease ==
  ASSUME IInv, NEW t \in {D, W}, NEW next \in Pcs \ Releasing, t = W => next = "idle",
         ReleaseClear(t, next)
  PROVE  IInv'
<1>1. /\ pc' = [pc EXCEPT ![t] = next] /\ sm' = Returned(sm, answer) /\ ~ tuned'
      /\ pc[t] = "clearing" /\ pc[t] \in Releasing
  BY DEF ReleaseClear, Go, Releasing
<1>2. /\ pc' \in [{D, W} -> Pcs] /\ pc'[t] = next
      /\ \A u \in {D, W} : u # t => pc'[u] = pc[u]
  BY <1>1 DEF IInv, LockHeldOnce
<1>3. LockHeldOnce'  BY <1>1, <1>2, Threads DEF IInv, LockHeldOnce
<1>4. \A u \in {D, W} : pc'[u] # "releasing"
  BY <1>1, <1>2, Threads DEF IInv, LockHeldOnce, Releasing
<1>5. IsContext(sm')  BY <1>1, ContextsOf DEF IInv
<1>6. QED  BY <1>1, <1>3, <1>4, <1>5 DEF IInv, CallIsKnown

(* What a thread does in a step, as far as the theorem is concerned: keep   *)
(* the invariant, and return only from a call that is up.                  *)
Sound == IInv' /\ \A t \in {D, W} :
                    (pc[t] = "releasing" /\ pc'[t] = "clearing") => sm.state = "TUNED"

(* A decoder step outside a release is sound. *)
LEMMA OutsideIsSound ==
  ASSUME IInv, NEW next \in Pcs \ Releasing, Go(D, next), pc[D] \notin Releasing,
         IsContext(sm'), tuned' => sm'.state = "TUNED",
         pc[W] = "idle" \/ UNCHANGED sm
  PROVE  Sound
<1>1. IInv' /\ pc'[D] \notin Releasing /\ pc'[W] = pc[W]  BY OutsideRelease
<1>2. QED  BY <1>1 DEF Sound, Releasing

(* The tick at the head of the decoder's loop is sound. *)
LEMMA LoopTickIsSound ==
  ASSUME IInv, NEW at \in Pcs \ Releasing, NEW next \in Pcs \ Releasing, LoopTick(at, next)
  PROVE  Sound
<1>1. Go(D, next) /\ pc[D] \notin Releasing  BY DEF LoopTick
<1>2. CASE TickDecoder
  <2>1. pc[W] = "idle"  BY <1>2 DEF TickDecoder, GuardFree
  <2>2. IsContext(sm') /\ (tuned' => sm'.state = "TUNED")
    BY <1>2, GuardedTick, GuardedRelease DEF TickDecoder, IInv
  <2>3. QED  BY <1>1, <2>1, <2>2, OutsideIsSound
<1>3. CASE UNCHANGED <<sm, tuned>>
  BY <1>1, <1>3, OutsideIsSound DEF IInv, CallIsKnown
<1>4. QED  BY <1>2, <1>3 DEF LoopTick

(* Noticing that the carrier is gone is sound. *)
LEMMA NoCarrierIsSound ==
  ASSUME IInv, NEW at \in Pcs \ Releasing, NEW due \in Pcs \ Releasing,
         NEW otherwise \in Pcs \ Releasing, NoCarrier(at, due, otherwise)
  PROVE  Sound
<1>1. /\ \E next \in {due, otherwise} : Go(D, next)
      /\ pc[D] \notin Releasing /\ UNCHANGED <<sm, tuned>>
  BY DEF NoCarrier
<1>2. PICK next \in Pcs \ Releasing : Go(D, next)  BY <1>1
<1>3. QED  BY <1>1, <1>2, OutsideIsSound DEF IInv, CallIsKnown

(* The loop's own return to the control channel is sound: it is taken under *)
(* the guard, so that it cannot meet the watchdog's.                        *)
LEMMA NoCarrierReturnIsSound ==
  ASSUME IInv, NEW at \in Pcs \ Releasing, NEW next \in Pcs \ Releasing,
         NoCarrierReturn(at, next)
  PROVE  Sound
<1>1. Go(D, next) /\ pc[D] \notin Releasing  BY DEF NoCarrierReturn
<1>2. CASE GuardFree
  <2>1. CASE \E a \in Answers(tuner, sm, CC) :
               /\ sm' = IF Accepted(a) THEN Acquiring(sm, a) ELSE sm
               /\ tuned' = (tuned /\ a.result = "DEFERRED")
    <3>1. PICK a \in Answers(tuner, sm, CC) :
            /\ sm' = IF Accepted(a) THEN Acquiring(sm, a) ELSE sm
            /\ tuned' = (tuned /\ a.result = "DEFERRED")
      BY <2>1
    <3>2. IsContext(sm')  BY <3>1, ContextsStay DEF IInv
    <3>3. tuned' => sm'.state = "TUNED"  BY <3>1 DEF Accepted, IInv, CallIsKnown
    <3>4. QED  BY <1>1, <1>2, <3>2, <3>3, OutsideIsSound DEF GuardFree
  <2>2. QED  BY <1>2, <2>1 DEF NoCarrierReturn
<1>3. CASE ~ GuardFree
  <2>1. UNCHANGED <<sm, tuned>>  BY <1>3 DEF NoCarrierReturn
  <2>2. QED  BY <1>1, <2>1, OutsideIsSound DEF IInv, CallIsKnown
<1>4. QED  BY <1>2, <1>3

(* Steps of the decoder that leave the call alone. *)
LEMMA IdleStepIsSound ==
  ASSUME IInv, NEW next \in Pcs \ Releasing, Go(D, next), pc[D] \notin Releasing,
         UNCHANGED <<sm, tuned>>
  PROVE  Sound
BY OutsideIsSound DEF IInv, CallIsKnown

(* Every step of the decoder is sound. *)
LEMMA DecoderIsSound ==
  ASSUME IInv, Decoder
  PROVE  Sound
<1>1. {"top", "no_carrier", "recover", "search", "sync_tick", "listening", "synced", "no_sync",
       "entering", "hook", "hook_recover"} \subseteq Pcs \ Releasing
  BY DEF Pcs, Releasing
<1>2. CASE LoopTick("top", "no_carrier") \/ LoopTick("sync_tick", "listening")
  BY <1>1, <1>2, LoopTickIsSound
<1>3. CASE \/ NoCarrier("no_carrier", "recover", "search") \/ NoCarrier("hook", "hook_recover", "top")
  BY <1>1, <1>3, NoCarrierIsSound
<1>4. CASE NoCarrierReturn("recover", "search") \/ NoCarrierReturn("hook_recover", "top")
  BY <1>1, <1>4, NoCarrierReturnIsSound
<1>5. CASE BeginSearch \/ SyncFound \/ NoSync \/ NoSyncForLong
  BY <1>1, <1>5, IdleStepIsSound DEF BeginSearch, SyncFound, NoSync, NoSyncForLong, HangtimePasses, Listen
<1>6. CASE NoSyncLatch
  <2>1. \E next \in {"entering", "hook"} : Go(D, next)  BY <1>6 DEF NoSyncLatch
  <2>2. QED  BY <1>1, <1>6, <2>1, IdleStepIsSound DEF NoSyncLatch
<1>7. CASE NoSyncRelease
  <2>1. pc[D] = "entering" /\ pc[D] \notin Releasing  BY <1>7 DEF NoSyncRelease, Releasing
  <2>2. IInv' /\ pc'[D] # "clearing"
    BY <1>1, <1>7, <2>1, EnterRelease, Threads DEF NoSyncRelease
  <2>3. QED
    <3>1. pc'[W] = pc[W]
      BY <1>7, Threads
      DEF NoSyncRelease, ReleaseEnter, ReleaseContended, Go, IInv, LockHeldOnce
    <3>2. QED  BY <2>2, <3>1 DEF Sound
<1>8. CASE ReleaseTune(D, "hook")
  BY <1>1, <1>8, TuneInRelease, Threads DEF Sound
<1>9. CASE ReleaseClear(D, "hook")
  <2>1. IInv'  BY <1>1, <1>9, ClearInRelease, Threads
  <2>2. pc[D] = "clearing" /\ pc'[W] = pc[W]
    BY <1>9, Threads DEF ReleaseClear, Go, IInv, LockHeldOnce
  <2>3. QED  BY <2>1, <2>2 DEF Sound
<1>10. CASE FrameWithheld
  BY <1>1, <1>10, IdleStepIsSound DEF FrameWithheld, Frame
<1>11. CASE DispatchedFrame
  <2>1. Go(D, "search") /\ pc[D] = "synced" /\ pc[W] = "idle"
    BY <1>11 DEF DispatchedFrame, CcBlock, Grant, Preempt, Regrant, VoiceStart, VoiceEnd, Voice,
      ExplicitRelease, Dispatch, Frame, GuardFree
  <2>2. IsContext(sm') /\ (tuned' => sm'.state = "TUNED")
    BY <1>11, GuardedFrame DEF IInv
  <2>3. QED  BY <1>1, <2>1, <2>2, OutsideIsSound
<1>12. QED
  BY <1>2, <1>3, <1>4, <1>5, <1>6, <1>7, <1>8, <1>9, <1>10, <1>11 DEF Decoder

(* Every step of the watchdog is sound. *)
LEMMA WatchdogIsSound ==
  ASSUME IInv, Watchdog
  PROVE  Sound
<1>1. "idle" \in Pcs \ Releasing  BY DEF Pcs, Releasing
<1>2. CASE WatchdogTick
  <2>1. pc' = pc /\ TickElsewhere  BY <1>2 DEF WatchdogTick
  <2>2. IsContext(sm') /\ ~ tuned' /\ sm.state # "TUNED"
    BY <2>1, GuardedTick DEF IInv
  <2>3. QED  BY <2>1, <2>2 DEF Sound, IInv, LockHeldOnce, CallIsKnown
<1>3. CASE WatchdogRelease
  <2>1. pc[W] = "idle" /\ pc[W] \notin Releasing  BY <1>3, Threads DEF WatchdogRelease
  <2>2. IInv' /\ pc'[W] # "clearing"
    BY <1>1, <1>3, <2>1, EnterRelease DEF WatchdogRelease
  <2>3. pc'[D] = pc[D]
    BY <1>3, Threads
    DEF WatchdogRelease, ReleaseEnter, ReleaseContended, Go, IInv, LockHeldOnce
  <2>4. QED  BY <2>2, <2>3 DEF Sound
<1>4. CASE ReleaseTune(W, "idle")
  BY <1>1, <1>4, TuneInRelease DEF Sound
<1>5. CASE ReleaseClear(W, "idle")
  <2>1. IInv'  BY <1>1, <1>5, ClearInRelease
  <2>2. pc[W] = "clearing" /\ pc'[D] = pc[D]
    BY <1>5, Threads DEF ReleaseClear, Go, IInv, LockHeldOnce
  <2>3. QED  BY <2>1, <2>2 DEF Sound
<1>6. QED  BY <1>2, <1>3, <1>4, <1>5 DEF Watchdog

(* Every step keeps the invariant and returns only from a call that is up. *)
LEMMA StepIsSound ==
  ASSUME IInv, [Next]_vars
  PROVE  Sound
<1>1. CASE UNCHANGED <<pc, sm, tuned>>
  BY <1>1 DEF Sound, IInv, LockHeldOnce, CallIsKnown
<1>2. CASE Controller
  BY <1>1, <1>2 DEF Controller, TuneLands, TuneIsRefused
<1>3. CASE UNCHANGED vars  BY <1>1, <1>3 DEF vars
<1>4. QED  BY <1>2, <1>3, DecoderIsSound, WatchdogIsSound DEF Next

-----------------------------------------------------------------------------
(* What the receiver is heading for *)

States == {"ON_CC", "TUNED", "HUNTING"}
Contexts == [state : States, visit : Channels, voice : {"none", "active", "ended"},
             request : Ids \cup {0}, waiting : BOOLEAN, heard : BOOLEAN]
Tunes == [id : Ids, to : Channels]
Tuners == [at : Channels, inflight : Seq(Tunes), gate : Gates, fresh : BOOLEAN,
           result : [Ids -> {"OK", "FAILED"}], refusals : 0 .. MaxRefusals]
IsTuner(u) == u \in Tuners /\ Len(u.inflight) <= 2 /\ u.gate.older <= Len(u.inflight)

(* The newest tune goes to channel c; if none is under way the receiver is  *)
(* there, unless a failure keeps the gate shut.                             *)
Heads(u, c) ==
  IF u.inflight = << >> THEN u.at = c \/ u.gate.shut
  ELSE u.inflight[Len(u.inflight)].to = c

(* What a call of a tuning hook may make of the ledger's part of a tuner:  *)
(* one tune more, an open gate, or nothing.                                *)
CallMoves(u, v) ==
  \/ Len(v.inflight) = Len(u.inflight) + 1 /\ v.gate = u.gate
  \/ v.inflight = u.inflight /\ v.gate \in {u.gate, OpenGate}

(* A frame that is still fresh was collected where the receiver is, and the *)
(* receiver heads for the call the machine follows.                        *)
Good(s, u) ==
  /\ s \in Contexts /\ IsTuner(u)
  /\ u.fresh => from = u.at
  /\ s.state = "TUNED" => Heads(u, s.visit)

(* ... except while somebody who has returned clears the context. *)
HeadsForCall ==
  /\ sm \in Contexts /\ IsTuner(tuner)
  /\ tuner.fresh => from = tuner.at
  /\ (\A t \in {D, W} : pc[t] # "clearing") => Good(sm, tuner)

Rest ==
  /\ tuned \in BOOLEAN /\ silent \in SUBSET Clocks
  /\ force \in Channels /\ from \in Channels
  /\ answer \in [result : {"OK", "PENDING"}, id : Ids]
  /\ losses \in 0 .. MaxLosses

(* The bounds and the channels are numbers. *)
LEMMA Numbers ==
  /\ MaxVisits \in Nat /\ MaxRefusals \in Nat /\ MaxLosses \in Nat
  /\ CC = 0 /\ CC \in Channels /\ Channels \subseteq Nat /\ Ids = 1 .. 5
BY P25Assumption DEF CC, Channels, Ids

(* What the machine makes of a typed context is typed, and keeps the call   *)
(* number.                                                                 *)
LEMMA ContextTypes ==
  ASSUME NEW s \in Contexts, NEW a, a.id \in Ids
  PROVE  /\ Acquiring(s, a) \in Contexts /\ Acquiring(s, a).state = "ON_CC"
         /\ Returned(s, a) \in Contexts /\ Returned(s, a).state = "ON_CC"
         /\ Returned(s, a).visit = s.visit
         /\ Hunting(s) \in Contexts /\ Hunting(s).state = "HUNTING"
         /\ Hunting(s).visit = s.visit
         /\ Refreshed(s) \in Contexts /\ Refreshed(s).state = s.state
         /\ Refreshed(s).visit = s.visit
         /\ s.visit < MaxVisits => /\ Followed(s) \in Contexts
                                   /\ Followed(s).state = "TUNED"
                                   /\ Followed(s).visit = s.visit + 1
<1>1. Acquiring(s, a) \in Contexts /\ Acquiring(s, a).state = "ON_CC"
      /\ Acquiring(s, a).visit = s.visit
  BY DEF Acquiring, Contexts, States
<1>2. /\ [s EXCEPT !.voice = "none"] \in Contexts
      /\ [s EXCEPT !.voice = "none"].visit = s.visit
  BY DEF Contexts
<1>3. Returned(s, a) \in Contexts /\ Returned(s, a).state = "ON_CC" /\ Returned(s, a).visit = s.visit
  BY <1>2 DEF Returned, Acquiring, Contexts, States
<1>4. /\ Hunting(s) \in Contexts /\ Hunting(s).state = "HUNTING"
      /\ Hunting(s).visit = s.visit
  BY DEF Hunting, Contexts, States
<1>5. /\ Refreshed(s) \in Contexts /\ Refreshed(s).state = s.state
      /\ Refreshed(s).visit = s.visit
  BY DEF Refreshed, Contexts
<1>6. ASSUME s.visit < MaxVisits
      PROVE  /\ Followed(s) \in Contexts /\ Followed(s).state = "TUNED"
             /\ Followed(s).visit = s.visit + 1
  <2>1. s.visit + 1 \in Channels  BY <1>6, Numbers DEF Contexts, Channels
  <2>2. QED  BY <2>1 DEF Followed, Contexts, States
<1>7. QED  BY <1>1, <1>3, <1>4, <1>5, <1>6

(* Looking at the pending tune, and at what blocks a grant, as well.        *)
LEMMA ResolvedTypes ==
  ASSUME NEW s \in Contexts
  PROVE  /\ Resolved(s) \in Contexts /\ Resolved(s).visit = s.visit
         /\ Resolved(s).state \in {s.state, "HUNTING"}
         /\ Unblocked(s) \in Contexts /\ Unblocked(s).visit = s.visit
         /\ Unblocked(s).state \in {s.state, "HUNTING"}
<1>1. /\ [s EXCEPT !.request = 0] \in Contexts /\ [s EXCEPT !.request = 0].visit = s.visit
      /\ [s EXCEPT !.request = 0].state = s.state
  BY DEF Contexts
<1>2. /\ [Hunting(s) EXCEPT !.waiting = FALSE] \in Contexts
      /\ [Hunting(s) EXCEPT !.waiting = FALSE].visit = s.visit
      /\ [Hunting(s) EXCEPT !.waiting = FALSE].state = "HUNTING"
  BY DEF Hunting, Contexts, States
<1>3. /\ Resolved(s) \in Contexts /\ Resolved(s).visit = s.visit
      /\ Resolved(s).state \in {s.state, "HUNTING"}
  BY <1>1, <1>2 DEF Resolved
<1>4. /\ Refreshed(Resolved(s)) \in Contexts
      /\ Refreshed(Resolved(s)).state = Resolved(s).state
      /\ Refreshed(Resolved(s)).visit = Resolved(s).visit
  BY <1>3 DEF Refreshed, Contexts
<1>5. QED  BY <1>3, <1>4 DEF Unblocked

(* Two tunes in the controller and two that are looked at leave an identity. *)
LEMMA NewIdIsId ==
  ASSUME NEW u, IsTuner(u), NEW s
  PROVE  NewId(u, s) \in Ids
<1>1. \E id \in Ids : ~ InFlight(u, id) /\ id \notin {s.request, answer.id}
  <2> DEFINE x == u.inflight[1].id
             y == u.inflight[2].id
             r == s.request
             q == answer.id
  <2>1. \A id \in Ids : InFlight(u, id) => id \in {x, y}
    BY DEF InFlight, IsTuner, Tuners
  <2>2. \E id \in 1 .. 5 : id # x /\ id # y /\ id # r /\ id # q
    <3> HIDE DEF x, y, r, q
    <3>1. 1 \in 1 .. 5 /\ 2 \in 1 .. 5 /\ 3 \in 1 .. 5 /\ 4 \in 1 .. 5 /\ 5 \in 1 .. 5  OBVIOUS
    <3>2. QED  BY <3>1
  <2>3. QED  BY <2>1, <2>2, Numbers
<1>2. QED  BY <1>1 DEF NewId

(* The fields of a tuner. *)
LEMMA TunerFields ==
  ASSUME NEW u, IsTuner(u)
  PROVE  /\ u \in Tuners /\ u.at \in Channels /\ u.inflight \in Seq(Tunes)
         /\ u.gate \in Gates /\ u.gate.shut \in BOOLEAN /\ u.gate.older \in Nat
         /\ u.fresh \in BOOLEAN /\ u.result \in [Ids -> {"OK", "FAILED"}]
         /\ u.refusals \in 0 .. MaxRefusals
         /\ Len(u.inflight) \in 0 .. 2 /\ u.gate.older <= Len(u.inflight)
         /\ Len(u.inflight) = 0 <=> u.inflight = << >>
<1>1. /\ u \in Tuners /\ u.at \in Channels /\ u.inflight \in Seq(Tunes)
      /\ u.gate \in Gates
      /\ u.fresh \in BOOLEAN /\ u.result \in [Ids -> {"OK", "FAILED"}]
      /\ u.refusals \in 0 .. MaxRefusals
  BY DEF IsTuner, Tuners
<1>2. u.gate.shut \in BOOLEAN /\ u.gate.older \in Nat  BY <1>1 DEF Gates
<1>3. Len(u.inflight) \in Nat /\ (Len(u.inflight) = 0 <=> u.inflight = << >>)
  BY <1>1
<1>4. Len(u.inflight) <= 2 /\ u.gate.older <= Len(u.inflight)  BY DEF IsTuner
<1>5. Len(u.inflight) \in 0 .. 2
  <2> DEFINE n == Len(u.inflight)
  <2>1. n \in Nat /\ n <= 2  BY <1>3, <1>4
  <2> HIDE DEF n
  <2>2. n \in 0 .. 2  BY <2>1
  <2>3. QED  BY <2>2 DEF n
<1>6. QED  BY <1>1, <1>2, <1>3, <1>4, <1>5

(* Whatever a tuning hook answers: an accepted tune is the one the receiver *)
(* heads for, any other changes nothing that matters.                      *)
LEMMA AnswersAre ==
  ASSUME NEW u, IsTuner(u), NEW s,
         NEW to \in Channels, NEW a \in Answers(u, s, to)
  PROVE  /\ a.id \in Ids /\ a.result \in {"OK", "PENDING", "FAILED", "DEFERRED"}
         /\ IsTuner(a.tuner)
         /\ a.tuner.fresh => u.fresh /\ a.tuner.at = u.at
         /\ Accepted(a) => Heads(a.tuner, to)
         /\ ~ Accepted(a) => \A c : Heads(u, c) => Heads(a.tuner, c)
         /\ CallMoves(u, a.tuner)
<1> DEFINE id == NewId(u, s)
           tune == [id |-> id, to |-> to]
           ok == [Landed(u, id, to) EXCEPT !.gate = OpenGate]
           pending == [u EXCEPT !.inflight = Append(@, tune)]
           Refusal(cost) == [u EXCEPT !.result[id] = "FAILED", !.refusals = @ + cost]
<1>1. id \in Ids /\ tune \in Tunes  BY NewIdIsId DEF Tunes
<1>2. /\ u \in Tuners /\ u.inflight \in Seq(Tunes) /\ u.result \in [Ids -> {"OK", "FAILED"}]
      /\ Len(u.inflight) \in 0 .. 2 /\ u.gate.older <= Len(u.inflight)
      /\ u.gate \in Gates /\ u.gate.older \in Nat /\ u.refusals \in 0 .. MaxRefusals
      /\ Len(u.inflight) = 0 <=> u.inflight = << >>
  BY TunerFields
<1>3. \/ /\ a.result = "OK" /\ a.id = id /\ a.tuner = ok /\ u.inflight = << >>
      \/ /\ a.result = "PENDING" /\ a.id = id /\ a.tuner = pending /\ ~ Full(u)
      \/ \E cost \in {0, 1} : /\ a.result \in {"FAILED", "DEFERRED"} /\ a.id = id
                              /\ a.tuner = Refusal(cost)
                              /\ cost = 1 => u.refusals < MaxRefusals
  <2> DEFINE Rec(x, n, v) == [result |-> x, id |-> n, tuner |-> v]
  <2>1. CASE Full(u)
    <3>1. a = Rec("DEFERRED", id, Refusal(0))  BY <2>1 DEF Answers, Full
    <3>2. QED  BY <3>1
  <2>2. CASE ~ Full(u) /\ Len(u.inflight) = 1
    <3>1. a = Rec("PENDING", id, pending) \/ a = Rec("DEFERRED", id, Refusal(0))
      BY <2>2 DEF Answers
    <3>2. QED  BY <2>2, <3>1
  <2>3. CASE ~ Full(u) /\ Len(u.inflight) # 1
    <3>1. u.inflight = << >>  BY <1>2, <2>3 DEF Full
    <3>2. \/ a = Rec("OK", id, ok)
          \/ a = Rec("PENDING", id, pending)
          \/ \E x \in {"FAILED", "DEFERRED"} :
               u.refusals < MaxRefusals /\ a = Rec(x, id, Refusal(1))
      BY <2>3 DEF Answers
    <3>3. QED  BY <2>3, <3>1, <3>2
  <2>4. QED  BY <2>1, <2>2, <2>3
<1>4. CASE a.result = "OK" /\ a.id = id /\ a.tuner = ok /\ u.inflight = << >>
  <2>1. ok = [u EXCEPT !.at = to, !.fresh = FALSE, !.result[id] = "OK", !.gate = OpenGate]
    BY <1>2 DEF Landed, Tuners
  <2>2. OpenGate \in Gates /\ OpenGate.older = 0  BY DEF OpenGate, Gates
  <2>3. [u.result EXCEPT ![id] = "OK"] \in [Ids -> {"OK", "FAILED"}]  BY <1>1, <1>2
  <2>4. ok \in Tuners  BY <1>1, <1>2, <2>1, <2>2, <2>3 DEF Tuners
  <2>5. ok.inflight = u.inflight /\ ok.at = to /\ ~ ok.fresh /\ ok.gate = OpenGate
    BY <1>1, <1>2, <2>1 DEF Tuners
  <2>6. QED  BY <1>1, <1>2, <1>4, <2>2, <2>4, <2>5 DEF IsTuner, Heads, Accepted, CallMoves
<1>5. CASE a.result = "PENDING" /\ a.id = id /\ a.tuner = pending /\ ~ Full(u)
  <2>1. Len(u.inflight) \in 0 .. 1  BY <1>2, <1>5 DEF Full
  <2>2. Append(u.inflight, tune) \in Seq(Tunes)  BY <1>1, <1>2
  <2>3. /\ pending.inflight = Append(u.inflight, tune) /\ pending.at = u.at
        /\ pending.fresh = u.fresh /\ pending.gate = u.gate /\ pending \in Tuners
    BY <1>1, <1>2, <2>2 DEF Tuners
  <2>4. /\ Len(pending.inflight) = Len(u.inflight) + 1 /\ pending.inflight # << >>
        /\ pending.inflight[Len(pending.inflight)] = tune
    <3>1. /\ Len(Append(u.inflight, tune)) = Len(u.inflight) + 1
          /\ Append(u.inflight, tune)[Len(u.inflight) + 1] = tune
      BY <1>1, <1>2
    <3>2. Append(u.inflight, tune) # << >>
      <4>1. Len(<< >>) = 0  BY EmptySeq
      <4>2. Len(Append(u.inflight, tune)) # 0  BY <1>2, <3>1
      <4>3. QED  BY <4>1, <4>2
    <3>3. QED  BY <2>3, <3>1, <3>2
  <2>5. IsTuner(pending)  BY <1>2, <2>1, <2>3, <2>4 DEF IsTuner
  <2>6. QED  BY <1>1, <1>5, <2>3, <2>4, <2>5 DEF Heads, Accepted, CallMoves
<1>6. CASE \E cost \in {0, 1} : /\ a.result \in {"FAILED", "DEFERRED"} /\ a.id = id
                                /\ a.tuner = Refusal(cost)
                                /\ cost = 1 => u.refusals < MaxRefusals
  <2>1. PICK cost \in {0, 1} : /\ a.result \in {"FAILED", "DEFERRED"} /\ a.id = id
                               /\ a.tuner = Refusal(cost)
                               /\ cost = 1 => u.refusals < MaxRefusals
    BY <1>6
  <2>2. u.refusals + cost \in 0 .. MaxRefusals  BY <1>2, <2>1, Numbers DEF Tuners
  <2>3. Refusal(cost) \in Tuners  BY <1>1, <1>2, <2>2 DEF Tuners
  <2>4. /\ Refusal(cost).inflight = u.inflight /\ Refusal(cost).at = u.at
        /\ Refusal(cost).gate = u.gate /\ Refusal(cost).fresh = u.fresh
    BY <1>2 DEF Tuners
  <2>5. QED  BY <1>1, <1>2, <2>1, <2>3, <2>4 DEF IsTuner, Heads, Accepted, CallMoves
<1>7. QED  BY <1>3, <1>4, <1>5, <1>6

(* The controller's answers keep the receiver heading for where it headed: *)
(* the last tune lands, or its failure shuts the gate.                     *)
LEMMA ControllerHeads ==
  ASSUME IsTuner(tuner), Controller
  PROVE  /\ IsTuner(tuner')
         /\ tuner'.fresh => tuner.fresh /\ tuner'.at = tuner.at
         /\ \A c : Heads(tuner, c) => Heads(tuner', c)
<1> DEFINE n == Len(tuner.inflight)
           rest == Tail(tuner.inflight)
<1>1. /\ tuner \in Tuners /\ n \in 1 .. 2 /\ tuner.gate.older <= n
      /\ tuner.inflight \in Seq(Tunes) /\ tuner.gate \in Gates
      /\ tuner.gate.older \in Nat /\ tuner.inflight # << >>
      /\ tuner.gate = [shut |-> tuner.gate.shut, older |-> tuner.gate.older]
      /\ tuner.refusals \in 0 .. MaxRefusals
  <2>1. tuner.inflight # << >>  BY DEF Controller, TuneLands, TuneIsRefused
  <2>2. tuner.gate = [shut |-> tuner.gate.shut, older |-> tuner.gate.older]
    BY TunerFields DEF Gates
  <2>3. QED  BY <2>1, <2>2, TunerFields
<1>2. /\ rest \in Seq(Tunes) /\ Len(rest) = n - 1
      /\ n = 2 => rest # << >> /\ rest[Len(rest)] = tuner.inflight[n]
      /\ n = 1 => rest = << >> /\ Head(tuner.inflight) = tuner.inflight[n]
      /\ Head(tuner.inflight) \in Tunes
  <2>1. /\ Head(tuner.inflight) \in Tunes /\ rest \in Seq(Tunes) /\ Len(rest) = n - 1
        /\ \A i \in 1 .. Len(rest) : rest[i] = tuner.inflight[i + 1]
    BY <1>1, HeadTailProperties
  <2>2. << >> \in Seq(Tunes) /\ Len(<< >>) = 0  BY EmptySeq
  <2>3. ASSUME n = 2 PROVE rest # << >> /\ rest[Len(rest)] = tuner.inflight[n]
    <3>1. Len(rest) = 1 /\ 1 + 1 = n  BY <2>1, <2>3
    <3>2. Len(rest) = 1 /\ 1 \in 1 .. Len(rest) /\ 1 + 1 = n  BY <3>1
    <3>3. rest[1] = tuner.inflight[1 + 1]  BY <2>1, <3>2
    <3>4. rest # << >>  BY <2>2, <3>2
    <3>5. QED  BY <3>2, <3>3, <3>4
  <2>4. ASSUME n = 1 PROVE rest = << >> /\ Head(tuner.inflight) = tuner.inflight[n]
    <3>1. Len(rest) = 0  BY <2>1, <2>4
    <3>2. \A i \in 1 .. Len(rest) : rest[i] = << >>[i]  BY <3>1
    <3>3. rest = << >>  BY <2>1, <2>2, <3>1, <3>2, SeqEqual
    <3>4. QED  BY <2>4, <3>3
  <2>5. QED  BY <2>1, <2>3, <2>4
<1>3. CASE TuneLands
  <2> DEFINE tune == Head(tuner.inflight)
  <2>1. tuner' = [tuner EXCEPT !.at = tune.to, !.fresh = FALSE, !.result[tune.id] = "OK",
                               !.inflight = rest, !.gate = OldestLands(@)]
    BY <1>1, <1>3 DEF TuneLands, Landed, Tuners
  <2>2. OldestLands(tuner.gate) \in Gates /\ OldestLands(tuner.gate).older <= n - 1
    <3>1. CASE tuner.gate.older > 0
      <4>1. /\ [tuner.gate EXCEPT !.older = @ - 1] \in Gates
            /\ [tuner.gate EXCEPT !.older = @ - 1].older = tuner.gate.older - 1
        BY <1>1, <3>1 DEF Gates
      <4>2. QED  BY <1>1, <3>1, <4>1 DEF OldestLands
    <3>2. CASE ~ tuner.gate.older > 0
      <4>1. OpenGate \in Gates /\ OpenGate.older = 0  BY DEF OpenGate, Gates
      <4>2. QED  BY <1>1, <3>2, <4>1 DEF OldestLands
    <3>3. QED  BY <3>1, <3>2
  <2>3. tuner' \in Tuners  BY <1>1, <1>2, <2>1, <2>2 DEF Tuners, Tunes
  <2>4. /\ tuner'.inflight = rest /\ tuner'.at = tune.to /\ ~ tuner'.fresh
        /\ tuner'.gate = OldestLands(tuner.gate)
    BY <1>1, <2>1 DEF Tuners
  <2>5. IsTuner(tuner')  BY <1>1, <1>2, <2>2, <2>3, <2>4 DEF IsTuner
  <2>6. QED  BY <1>1, <1>2, <2>4, <2>5 DEF Heads
<1>4. CASE TuneIsRefused
  <2>1. /\ tuner' = [tuner EXCEPT !.result[Head(tuner.inflight).id] = "FAILED",
                                  !.inflight = rest, !.gate = OldestFails(@),
                                  !.refusals = @ + 1]
        /\ tuner.refusals + 1 \in 0 .. MaxRefusals
    BY <1>1, <1>4, Numbers DEF TuneIsRefused, Tuners
  <2>2. /\ OldestFails(tuner.gate) \in Gates /\ OldestFails(tuner.gate).older <= n - 1
        /\ OldestFails(tuner.gate).shut
    BY <1>1 DEF OldestFails, ShutBehind, Gates
  <2>3. tuner' \in Tuners  BY <1>1, <1>2, <2>1, <2>2 DEF Tuners, Tunes
  <2>4. /\ tuner'.inflight = rest /\ tuner'.at = tuner.at /\ tuner'.fresh = tuner.fresh
        /\ tuner'.gate = OldestFails(tuner.gate)
    BY <1>1, <2>1 DEF Tuners
  <2>5. IsTuner(tuner')  BY <1>1, <1>2, <2>2, <2>3, <2>4 DEF IsTuner
  <2>6. QED  BY <1>1, <1>2, <2>2, <2>4, <2>5 DEF Heads
<1>5. QED  BY <1>3, <1>4 DEF Controller

-----------------------------------------------------------------------------
(* What the machine does keeps the receiver heading for its call *)

(* The context that comes out of a tune is good beside the tuner that comes *)
(* out of it: one that follows no call, one that follows the call the      *)
(* accepted tune is for, and one that was good before a refusal.           *)
LEMMA AnswerGood ==
  ASSUME Rest, NEW s \in Contexts, NEW u, IsTuner(u), u.fresh => from = u.at,
         NEW to \in Channels, NEW a \in Answers(u, s, to)
  PROVE  /\ a.id \in Ids /\ a.result \in {"OK", "PENDING", "FAILED", "DEFERRED"}
         /\ IsTuner(a.tuner) /\ (a.tuner.fresh => from = a.tuner.at)
         /\ \A t \in Contexts : t.state # "TUNED" => Good(t, a.tuner)
         /\ Accepted(a) => \A t \in Contexts : t.visit = to => Good(t, a.tuner)
         /\ ~ Accepted(a) => \A t \in Contexts : Good(t, u) => Good(t, a.tuner)
<1>1. /\ a.id \in Ids /\ a.result \in {"OK", "PENDING", "FAILED", "DEFERRED"}
      /\ IsTuner(a.tuner)
      /\ a.tuner.fresh => u.fresh /\ a.tuner.at = u.at
      /\ Accepted(a) => Heads(a.tuner, to)
      /\ ~ Accepted(a) => \A c : Heads(u, c) => Heads(a.tuner, c)
  BY AnswersAre
<1>2. QED  BY <1>1 DEF Good

(* Trying the next control channel from a context off a call. *)
LEMMA NextCcIsGood ==
  ASSUME Rest, IsTuner(tuner), tuner.fresh => from = tuner.at,
         NEW s \in Contexts, s.state # "TUNED", TryNextCc(s)
  PROVE  Good(sm', tuner')
<1>1. PICK a \in Answers(tuner, s, CC) :
        tuner' = a.tuner /\ sm' = IF Accepted(a) THEN Acquiring(s, a) ELSE s
  BY DEF TryNextCc
<1>2. a.id \in Ids /\ (\A t \in Contexts : t.state # "TUNED" => Good(t, a.tuner))
  BY AnswerGood, Numbers
<1>3. Acquiring(s, a) \in Contexts /\ Acquiring(s, a).state = "ON_CC"
  BY <1>2, ContextTypes
<1>4. QED  BY <1>1, <1>2, <1>3

(* A tick off a call. *)
LEMMA TickIsGood ==
  ASSUME Rest, sm \in Contexts, IsTuner(tuner), tuner.fresh => from = tuner.at, TickElsewhere
  PROVE  Good(sm', tuner') /\ tuned' = tuned /\ force' \in Channels /\ losses' \in 0 .. MaxLosses
<1>1. /\ tuned' = tuned /\ force' \in Channels
  BY Numbers DEF Rest, TickElsewhere, TickForceOff, TickOnCc, TickCcLost, TickHunting
<1>2. losses' \in 0 .. MaxLosses
  <2>1. losses' = losses \/ (losses < MaxLosses /\ losses' = losses + 1)
    BY DEF TickElsewhere, TickForceOff, TickOnCc, TickCcLost, TickHunting
  <2>2. QED  BY <2>1, Numbers DEF Rest
<1>3. /\ Resolved(sm) \in Contexts /\ Resolved(sm).state \in {sm.state, "HUNTING"}
      /\ Refreshed(sm) \in Contexts /\ Refreshed(sm).state = sm.state
  BY ResolvedTypes DEF Refreshed, Contexts
<1>4. /\ Refreshed(Resolved(sm)) \in Contexts
      /\ Refreshed(Resolved(sm)).state = Resolved(sm).state
  BY <1>3 DEF Refreshed, Contexts
<1>5. Good(sm', tuner')
  <2>1. CASE TickForceOff  BY <2>1 DEF TickForceOff, Good
  <2>2. CASE TickOnCc
    <3>1. CASE Resolved(sm).state = "HUNTING"
      <4>1. TryNextCc(Resolved(sm))  BY <2>2, <3>1 DEF TickOnCc
      <4>2. QED  BY <1>3, <3>1, <4>1, NextCcIsGood
    <3>2. CASE Resolved(sm).state # "HUNTING"
      <4>1. /\ sm' = Refreshed(Resolved(sm)) \/ sm' = Resolved(sm)
            /\ tuner' = tuner /\ sm.state = "ON_CC"
        BY <2>2, <3>2 DEF TickOnCc
      <4>2. QED  BY <1>3, <1>4, <4>1 DEF Good
    <3>3. QED  BY <3>1, <3>2
  <2>3. CASE TickCcLost
    <3> DEFINE s == [Hunting(Refreshed(Resolved(sm))) EXCEPT !.heard = FALSE]
    <3>1. s \in Contexts /\ s.state = "HUNTING"  BY <1>4 DEF Hunting, Contexts, States
    <3>2. TryNextCc(s)  BY <2>3 DEF TickCcLost
    <3>3. QED  BY <3>1, <3>2, NextCcIsGood
  <2>4. CASE TickHunting
    <3>1. CASE sm.heard
      <4>1. sm' = [Refreshed(sm) EXCEPT !.state = "ON_CC"] /\ tuner' = tuner
        BY <2>4, <3>1 DEF TickHunting
      <4>2. /\ [Refreshed(sm) EXCEPT !.state = "ON_CC"] \in Contexts
            /\ [Refreshed(sm) EXCEPT !.state = "ON_CC"].state = "ON_CC"
        BY <1>3 DEF Contexts, States
      <4>3. QED  BY <4>1, <4>2 DEF Good
    <3>2. CASE ~ sm.heard
      <4>1. TryNextCc(sm) /\ sm.state # "TUNED"  BY <2>4, <3>2 DEF TickHunting
      <4>2. QED  BY <4>1, NextCcIsGood
    <3>3. QED  BY <3>1, <3>2
  <2>5. QED  BY <2>1, <2>2, <2>3, <2>4 DEF TickElsewhere
<1>6. QED  BY <1>1, <1>2, <1>5

(* A release under the guard. *)
LEMMA ReleaseIsGood ==
  ASSUME Rest, Good(sm, tuner), Release
  PROVE  Good(sm', tuner') /\ tuned' \in BOOLEAN /\ force' \in Channels
<1>1. PICK a \in Answers(tuner, sm, CC) :
        /\ tuner' = a.tuner
        /\ IF Accepted(a)
           THEN sm' = Returned(sm, a) /\ tuned' = FALSE /\ force' = 0
           ELSE force' = sm.visit /\ UNCHANGED <<sm, tuned>>
  BY DEF Release
<1>2. /\ a.id \in Ids /\ (\A t \in Contexts : t.state # "TUNED" => Good(t, a.tuner))
      /\ ~ Accepted(a) => Good(sm, a.tuner)
  BY AnswerGood, Numbers DEF Good
<1>3. /\ Returned(sm, a) \in Contexts /\ Returned(sm, a).state = "ON_CC"
  BY <1>2, ContextTypes DEF Good
<1>4. CASE Accepted(a)  BY <1>1, <1>2, <1>3, <1>4, Numbers
<1>5. CASE ~ Accepted(a)
  <2>1. sm.visit \in Channels  BY DEF Good, Contexts
  <2>2. QED  BY <1>1, <1>2, <1>5, <2>1 DEF Rest
<1>6. QED  BY <1>4, <1>5

(* The tune of a grant: the machine follows the call it asked for. *)
LEMMA GrantIsGood ==
  ASSUME Rest, NEW s \in Contexts, s.visit < MaxVisits, NEW u, Good(s, u),
         NEW still \in BOOLEAN, NEW latch \in Channels, TuneVc(s, u, still, latch)
  PROVE  /\ Good(sm', tuner') /\ tuned' \in BOOLEAN /\ silent' \in SUBSET Clocks
         /\ force' \in Channels
<1>1. PICK a \in Answers(u, s, s.visit + 1) :
        /\ tuner' = a.tuner
        /\ sm' = IF Accepted(a) THEN Followed(s) ELSE s
        /\ tuned' = (Accepted(a) \/ still)
        /\ silent' = IF Accepted(a) THEN {} ELSE silent
        /\ force' = latch
  BY DEF TuneVc
<1>2. s.visit + 1 \in Channels  BY Numbers DEF Contexts, Channels
<1>3. /\ a.id \in Ids
      /\ Accepted(a) => \A t \in Contexts : t.visit = s.visit + 1 => Good(t, a.tuner)
      /\ ~ Accepted(a) => Good(s, a.tuner)
  BY <1>2, AnswerGood DEF Good
<1>4. /\ Followed(s) \in Contexts /\ Followed(s).visit = s.visit + 1
  BY <1>3, ContextTypes
<1>5. Good(sm', tuner')  BY <1>1, <1>3, <1>4
<1>6. QED  BY <1>1, <1>5 DEF Rest

(* A frame that is handled while nobody releases. *)
LEMMA FrameIsGood ==
  ASSUME Rest, Good(sm, tuner), DispatchedFrame
  PROVE  /\ Good(sm', tuner') /\ tuned' \in BOOLEAN /\ silent' \in SUBSET Clocks
         /\ force' \in Channels
<1>1. sm \in Contexts /\ sm.visit \in Channels /\ IsTuner(tuner)  BY DEF Good, Contexts
<1>2. \A v : v \in {"none", "active", "ended"} =>
        /\ [sm EXCEPT !.voice = v] \in Contexts /\ [sm EXCEPT !.voice = v].state = sm.state
        /\ [sm EXCEPT !.voice = v].visit = sm.visit
  BY <1>1 DEF Contexts
<1>3. /\ Noted \in Contexts /\ Noted.state = sm.state /\ Noted.visit = sm.visit
  BY <1>1 DEF Noted, Contexts
<1>4. CASE CcBlock
  <2>1. sm' = Noted /\ UNCHANGED <<tuned, force, silent, tuner>>  BY <1>4 DEF CcBlock
  <2>2. QED  BY <1>3, <2>1 DEF Good, Rest
<1>5. CASE Grant
  <2> DEFINE s == Unblocked(Noted)
  <2>1. /\ s \in Contexts /\ s.visit = sm.visit /\ s.state # "TUNED" /\ s.visit < MaxVisits
    BY <1>3, <1>5, ResolvedTypes DEF Grant
  <2>2. Good(s, tuner)  BY <2>1 DEF Good
  <2>3. CASE Blocked(s)
    <3>1. sm' = s /\ UNCHANGED <<tuned, force, silent, tuner>>  BY <1>5, <2>3 DEF Grant
    <3>2. QED  BY <2>2, <3>1 DEF Rest
  <2>4. CASE ~ Blocked(s)
    <3>1. TuneVc(s, tuner, tuned, force)  BY <1>5, <2>4 DEF Grant
    <3>2. tuned \in BOOLEAN /\ force \in Channels  BY DEF Rest
    <3> HIDE DEF s
    <3>3. QED  BY <2>1, <2>2, <3>1, <3>2, GrantIsGood
  <2>5. QED  BY <2>3, <2>4
<1>6. CASE Preempt
  <2>1. PICK a \in Answers(tuner, sm, CC) :
          IF Accepted(a)
          THEN TuneVc(Returned(sm, a), a.tuner, FALSE, 0)
          ELSE /\ tuner' = a.tuner
               /\ force' = sm.visit
               /\ UNCHANGED <<sm, tuned, silent>>
    BY <1>6 DEF Preempt
  <2>2. /\ a.id \in Ids /\ (\A t \in Contexts : t.state # "TUNED" => Good(t, a.tuner))
        /\ ~ Accepted(a) => Good(sm, a.tuner)
    BY <1>1, AnswerGood, Numbers DEF Good
  <2>3. CASE Accepted(a)
    <3>1. /\ Returned(sm, a) \in Contexts /\ Returned(sm, a).state = "ON_CC"
          /\ Returned(sm, a).visit = sm.visit
      BY <1>1, <2>2, ContextTypes
    <3>2. Good(Returned(sm, a), a.tuner)  BY <2>2, <3>1
    <3>3. TuneVc(Returned(sm, a), a.tuner, FALSE, 0)  BY <2>1, <2>3
    <3>4. Returned(sm, a).visit < MaxVisits  BY <1>6, <3>1 DEF Preempt
    <3>5. 0 \in Channels  BY Numbers
    <3>6. QED  BY <3>1, <3>2, <3>3, <3>4, <3>5, GrantIsGood
  <2>4. CASE ~ Accepted(a)  BY <1>1, <2>1, <2>2, <2>4 DEF Rest
  <2>5. QED  BY <2>3, <2>4
<1>7. CASE Regrant
  <2>1. /\ sm' = [sm EXCEPT !.voice = "none"] /\ silent' = {}
        /\ UNCHANGED <<tuned, force, tuner>>
    BY <1>7 DEF Regrant
  <2>2. QED  BY <1>2, <2>1 DEF Good, Rest
<1>8. CASE VoiceStart \/ VoiceEnd
  <2>1. PICK phase \in {"active", "ended"} :
          /\ sm' = IF sm.state = "TUNED" THEN [sm EXCEPT !.voice = phase] ELSE sm
          /\ silent' = {} /\ UNCHANGED <<tuned, force, tuner>>
    BY <1>8 DEF VoiceStart, VoiceEnd, Voice
  <2>2. QED  BY <1>2, <2>1 DEF Good, Rest
<1>9. CASE ExplicitRelease
  <2>1. silent' = silent  BY <1>9 DEF ExplicitRelease
  <2>2. CASE PublicRelease
    <3>1. CASE StaleReset
      <4> DEFINE s == [sm EXCEPT !.state = "ON_CC", !.voice = "none", !.heard = FALSE,
                                 !.request = 0, !.waiting = FALSE]
      <4>1. sm' = s /\ UNCHANGED <<tuned, force, tuner>>  BY <3>1 DEF StaleReset
      <4>2. s \in Contexts /\ s.state = "ON_CC"  BY <1>1 DEF Contexts, States
      <4>3. QED  BY <2>1, <4>1, <4>2 DEF Good, Rest
    <3>2. CASE Release  BY <2>1, <3>2, ReleaseIsGood DEF Rest
    <3>3. QED  BY <2>2, <3>1, <3>2 DEF PublicRelease
  <2>3. CASE sm' = Noted /\ force' = 0 /\ UNCHANGED <<tuned, tuner>>
    BY <1>3, <2>1, <2>3, Numbers DEF Good, Rest
  <2>4. QED  BY <1>9, <2>2, <2>3 DEF ExplicitRelease
<1>10. QED  BY <1>4, <1>5, <1>6, <1>7, <1>8, <1>9 DEF DispatchedFrame

-----------------------------------------------------------------------------
(* Every step *)

NobodyClears == \A t \in {D, W} : pc[t] # "clearing"
Follows == HeadsForCall /\ Rest

(* The machine starts on the control channel with the receiver. *)
LEMMA InitFollows == Init => Follows
<1> SUFFICES ASSUME Init PROVE Follows  OBVIOUS
<1>1. sm \in Contexts /\ sm.state = "ON_CC"  BY Numbers DEF Init, Contexts, States
<1>2. IsTuner(tuner) /\ ~ tuner.fresh
  <2>1. /\ tuner = [at |-> CC, inflight |-> << >>, gate |-> OpenGate, fresh |-> FALSE,
                    result |-> [i \in Ids |-> "OK"], refusals |-> 0]
    BY DEF Init
  <2>2. OpenGate \in Gates /\ OpenGate.older = 0  BY DEF OpenGate, Gates
  <2>3. << >> \in Seq(Tunes) /\ Len(<< >>) = 0  BY EmptySeq
  <2>4. 0 \in 0 .. MaxRefusals  BY Numbers
  <2>5. tuner \in Tuners  BY <2>1, <2>2, <2>3, <2>4, Numbers DEF Tuners
  <2>6. QED  BY <2>1, <2>2, <2>3, <2>5 DEF IsTuner
<1>3. Rest
  <2>1. answer \in [result : {"OK", "PENDING"}, id : Ids]  BY Numbers DEF Init
  <2>2. losses \in 0 .. MaxLosses  BY Numbers DEF Init
  <2>3. QED  BY <2>1, <2>2, Numbers DEF Init, Rest
<1>4. QED  BY <1>1, <1>2, <1>3 DEF Follows, HeadsForCall, Good

(* A step that clears nothing of its own: it is enough that machine and    *)
(* tuner are good together, or have not been touched.                      *)
LEMMA QuietStep ==
  ASSUME Follows, Rest', from' = from,
         \/ Good(sm', tuner')
         \/ UNCHANGED <<sm, tuner>> /\ (NobodyClears' => NobodyClears)
  PROVE  Follows'
BY DEF Follows, HeadsForCall, Good, NobodyClears

(* A move of one thread that was not clearing. *)
LEMMA MoveKeeps ==
  ASSUME pc \in [{D, W} -> Pcs], NEW t \in {D, W}, NEW next, Go(t, next), pc[t] # "clearing"
  PROVE  NobodyClears' => NobodyClears
<1>1. \A u \in {D, W} : u # t => pc'[u] = pc[u]  BY DEF Go
<1>2. QED  BY <1>1 DEF NobodyClears

(* The steps of a release: once its tune is accepted the call is over. *)
LEMMA ReleaseFollows ==
  ASSUME IInv, Follows, NEW t \in {D, W}, NEW next \in Pcs \ Releasing,
         \/ pc[t] \notin Releasing /\ (ReleaseEnter(t, next) \/ ReleaseContended(t, next))
         \/ ReleaseTune(t, next) \/ ReleaseClear(t, next)
  PROVE  Follows'
<1>1. /\ pc \in [{D, W} -> Pcs] /\ sm \in Contexts /\ IsTuner(tuner)
      /\ tuner.fresh => from = tuner.at
      /\ NobodyClears => Good(sm, tuner)
      /\ sm.visit \in Channels /\ Rest
  BY DEF IInv, LockHeldOnce, Follows, HeadsForCall, NobodyClears, Contexts
<1>2. CASE pc[t] \notin Releasing /\ (ReleaseEnter(t, next) \/ ReleaseContended(t, next))
  <2>1. \E to : Go(t, to)  BY <1>2 DEF ReleaseEnter, ReleaseContended
  <2>2. pc[t] # "clearing"  BY <1>2 DEF Releasing
  <2>3. UNCHANGED <<sm, tuner, tuned, silent, answer, from, losses>> /\ force' \in {0, force}
    BY <1>2 DEF ReleaseEnter, ReleaseContended
  <2>4. Rest'  BY <1>1, <2>3, Numbers DEF Rest
  <2>5. QED  BY <1>1, <2>1, <2>2, <2>3, <2>4, MoveKeeps, QuietStep
<1>3. CASE ReleaseTune(t, next)
  <2>1. NobodyClears
    BY <1>3, Threads DEF IInv, LockHeldOnce, NobodyClears, ReleaseTune, Releasing
  <2>2. PICK a \in Answers(tuner, sm, CC) :
          /\ tuner' = a.tuner
          /\ IF Accepted(a)
             THEN /\ tuned' = FALSE
                  /\ answer' = [result |-> a.result, id |-> a.id]
                  /\ Go(t, "clearing") /\ UNCHANGED force
             ELSE force' = sm.visit /\ Go(t, next) /\ UNCHANGED <<tuned, answer>>
    BY <1>3 DEF ReleaseTune
  <2>3. UNCHANGED <<sm, silent, from, losses>>  BY <1>3 DEF ReleaseTune
  <2>4. /\ a.id \in Ids /\ IsTuner(a.tuner) /\ (a.tuner.fresh => from = a.tuner.at)
        /\ ~ Accepted(a) => Good(sm, a.tuner)
    BY <1>1, <2>1, AnswerGood, Numbers
  <2>5. CASE Accepted(a)
    <3>1. pc'[t] = "clearing"  BY <1>1, <2>2, <2>5 DEF Go
    <3>2. Rest'
      <4>1. a.result \in {"OK", "PENDING"} /\ a.id \in Ids  BY <2>4, <2>5 DEF Accepted
      <4>2. answer' \in [result : {"OK", "PENDING"}, id : Ids]  BY <2>2, <2>5, <4>1
      <4>3. UNCHANGED <<silent, force, from, losses>> /\ tuned' = FALSE
        BY <2>2, <2>3, <2>5
      <4>4. QED  BY <1>1, <4>2, <4>3 DEF Rest
    <3>3. HeadsForCall'  BY <1>1, <2>2, <2>3, <2>4, <3>1 DEF HeadsForCall
    <3>4. QED  BY <3>2, <3>3 DEF Follows
  <2>6. CASE ~ Accepted(a)
    <3>1. Rest'  BY <1>1, <2>2, <2>3, <2>6 DEF Rest
    <3>2. QED  BY <2>2, <2>3, <2>4, <2>6, <3>1, QuietStep
  <2>7. QED  BY <2>5, <2>6
<1>4. CASE ReleaseClear(t, next)
  <2>1. /\ sm' = Returned(sm, answer) /\ tuned' = FALSE
        /\ UNCHANGED <<force, silent, tuner, answer, from, losses>>
    BY <1>4 DEF ReleaseClear
  <2>2. answer.id \in Ids  BY <1>1 DEF Rest
  <2>3. Returned(sm, answer) \in Contexts /\ Returned(sm, answer).state = "ON_CC"
    BY <1>1, <2>2, ContextTypes
  <2>4. Good(sm', tuner')  BY <1>1, <2>1, <2>3 DEF Good
  <2>5. Rest'  BY <1>1, <2>1 DEF Rest
  <2>6. QED  BY <2>1, <2>4, <2>5, QuietStep
<1>5. QED  BY <1>2, <1>3, <1>4

(* The decoder's steps. *)
LEMMA DecoderFollows ==
  ASSUME IInv, Follows, Decoder
  PROVE  Follows'
<1>1. /\ pc \in [{D, W} -> Pcs] /\ sm \in Contexts /\ IsTuner(tuner)
      /\ tuner.fresh => from = tuner.at
      /\ NobodyClears => Good(sm, tuner)
      /\ sm.visit \in Channels /\ Rest
  BY DEF IInv, LockHeldOnce, Follows, HeadsForCall, NobodyClears, Contexts
<1>2. (pc[W] = "idle" /\ pc[D] # "clearing") => NobodyClears  BY Threads DEF NobodyClears
<1>3. CASE LoopTick("top", "no_carrier") \/ LoopTick("sync_tick", "listening")
  <2>1. /\ \E next : Go(D, next)
        /\ pc[D] # "clearing" /\ UNCHANGED <<silent, answer, from>>
        /\ TickDecoder \/ UNCHANGED <<sm, tuned, force, tuner, losses>>
    BY <1>3 DEF LoopTick
  <2>2. CASE TickDecoder
    <3>1. Good(sm, tuner)  BY <1>1, <1>2, <2>1, <2>2 DEF TickDecoder, GuardFree
    <3>2. /\ Good(sm', tuner') /\ tuned' \in BOOLEAN /\ force' \in Channels
          /\ losses' \in 0 .. MaxLosses
      <4>1. CASE TickElsewhere  BY <1>1, <4>1, TickIsGood DEF Rest
      <4>2. CASE Release /\ UNCHANGED losses
        BY <1>1, <3>1, <4>2, ReleaseIsGood DEF Rest
      <4>3. QED  BY <2>2, <4>1, <4>2 DEF TickDecoder
    <3>3. Rest'  BY <1>1, <2>1, <3>2 DEF Rest
    <3>4. QED  BY <2>1, <3>2, <3>3, QuietStep
  <2>3. CASE UNCHANGED <<sm, tuned, force, tuner, losses>>
    <3>1. Rest'  BY <1>1, <2>1, <2>3 DEF Rest
    <3>2. QED  BY <1>1, <2>1, <2>3, <3>1, MoveKeeps, QuietStep
  <2>4. QED  BY <2>1, <2>2, <2>3
<1>4. CASE \/ NoCarrier("no_carrier", "recover", "search") \/ NoCarrier("hook", "hook_recover", "top")
  <2>1. /\ \E next : Go(D, next)
        /\ pc[D] # "clearing" /\ UNCHANGED <<sm, tuned, force, silent, tuner, answer, from, losses>>
    BY <1>4 DEF NoCarrier
  <2>2. Rest'  BY <1>1, <2>1 DEF Rest
  <2>3. QED  BY <1>1, <2>1, <2>2, MoveKeeps, QuietStep
<1>5. CASE NoCarrierReturn("recover", "search") \/ NoCarrierReturn("hook_recover", "top")
  <2>1. /\ \E next : Go(D, next)
        /\ pc[D] # "clearing" /\ UNCHANGED <<force, silent, answer, from, losses>>
    BY <1>5 DEF NoCarrierReturn
  <2>2. CASE UNCHANGED <<sm, tuned, tuner>>
    <3>1. Rest'  BY <1>1, <2>1, <2>2 DEF Rest
    <3>2. QED  BY <1>1, <2>1, <2>2, <3>1, MoveKeeps, QuietStep
  <2>3. CASE /\ GuardFree
             /\ \E a \in Answers(tuner, sm, CC) :
                  /\ tuner' = a.tuner
                  /\ sm' = IF Accepted(a) THEN Acquiring(sm, a) ELSE sm
                  /\ tuned' = (tuned /\ a.result = "DEFERRED")
    <3>1. Good(sm, tuner)  BY <1>1, <1>2, <2>1, <2>3 DEF GuardFree
    <3>2. PICK a \in Answers(tuner, sm, CC) :
                  /\ tuner' = a.tuner
                  /\ sm' = IF Accepted(a) THEN Acquiring(sm, a) ELSE sm
                  /\ tuned' = (tuned /\ a.result = "DEFERRED")
      BY <2>3
    <3>3. /\ a.id \in Ids /\ (\A t \in Contexts : t.state # "TUNED" => Good(t, a.tuner))
          /\ ~ Accepted(a) => Good(sm, a.tuner)
      BY <1>1, <3>1, AnswerGood, Numbers
    <3>4. Acquiring(sm, a) \in Contexts /\ Acquiring(sm, a).state = "ON_CC"
      BY <1>1, <3>3, ContextTypes
    <3>5. Good(sm', tuner')  BY <3>2, <3>3, <3>4
    <3>6. Rest'  BY <1>1, <2>1, <3>2 DEF Rest
    <3>7. QED  BY <2>1, <3>5, <3>6, QuietStep
  <2>4. QED  BY <1>5, <2>2, <2>3 DEF NoCarrierReturn
<1>6. CASE BeginSearch
  <2>1. /\ Go(D, "sync_tick") /\ pc[D] # "clearing" /\ from' = tuner.at
        /\ tuner' = [tuner EXCEPT !.fresh = TRUE]
        /\ UNCHANGED <<sm, tuned, force, silent, answer, losses>>
    BY <1>6 DEF BeginSearch
  <2>2. /\ IsTuner(tuner') /\ tuner'.at = tuner.at /\ tuner'.at \in Channels
        /\ tuner'.inflight = tuner.inflight /\ tuner'.gate = tuner.gate
    BY <1>1, <2>1 DEF IsTuner, Tuners
  <2>3. \A c : Heads(tuner, c) => Heads(tuner', c)  BY <2>2 DEF Heads
  <2>4. Rest'  BY <1>1, <2>1, <2>2 DEF Rest
  <2>5. NobodyClears' => NobodyClears  BY <1>1, <2>1, MoveKeeps
  <2>6. HeadsForCall'
    BY <1>1, <2>1, <2>2, <2>3, <2>5 DEF HeadsForCall, Good, NobodyClears
  <2>7. QED  BY <2>4, <2>6 DEF Follows
<1>7. CASE SyncFound \/ NoSync \/ NoSyncForLong \/ NoSyncLatch \/ FrameWithheld
  <2>1. /\ \E next : Go(D, next)
        /\ pc[D] # "clearing" /\ UNCHANGED <<sm, tuned, tuner, answer, from, losses>>
        /\ force' \in {force, sm.visit}
    BY <1>7 DEF SyncFound, NoSync, NoSyncForLong, HangtimePasses, Listen, NoSyncLatch, FrameWithheld, Frame
  <2>2. silent' = silent \/ \E clock \in Clocks : silent' = silent \cup {clock}
    BY <1>7 DEF SyncFound, NoSync, NoSyncForLong, HangtimePasses, Listen, NoSyncLatch, FrameWithheld
  <2>3. silent' \in SUBSET Clocks  BY <1>1, <2>2 DEF Rest
  <2>4. Rest'  BY <1>1, <2>1, <2>3 DEF Rest
  <2>5. QED  BY <1>1, <2>1, <2>4, MoveKeeps, QuietStep
<1>8. CASE NoSyncRelease \/ ReleaseTune(D, "hook") \/ ReleaseClear(D, "hook")
  <2>1. "hook" \in Pcs \ Releasing  BY DEF Pcs, Releasing
  <2>2. NoSyncRelease => /\ pc[D] \notin Releasing
                         /\ ReleaseEnter(D, "hook") \/ ReleaseContended(D, "hook")
    BY DEF NoSyncRelease, Releasing
  <2>3. QED  BY <1>8, <2>1, <2>2, ReleaseFollows
<1>9. CASE DispatchedFrame
  <2>1. GuardFree /\ pc[D] # "clearing" /\ UNCHANGED <<answer, from, losses>>
    BY <1>9 DEF DispatchedFrame, CcBlock, Grant, Preempt, Regrant, VoiceStart, VoiceEnd, Voice,
      ExplicitRelease, Dispatch, Frame
  <2>2. Good(sm, tuner)  BY <1>1, <1>2, <2>1 DEF GuardFree
  <2>3. /\ Good(sm', tuner') /\ tuned' \in BOOLEAN /\ silent' \in SUBSET Clocks
        /\ force' \in Channels
    BY <1>1, <1>9, <2>2, FrameIsGood
  <2>4. Rest'  BY <1>1, <2>1, <2>3 DEF Rest
  <2>5. QED  BY <2>1, <2>3, <2>4, QuietStep
<1>10. QED  BY <1>3, <1>4, <1>5, <1>6, <1>7, <1>8, <1>9 DEF Decoder

(* The watchdog's steps. *)
LEMMA WatchdogFollows ==
  ASSUME IInv, Follows, Watchdog
  PROVE  Follows'
<1>1. /\ pc \in [{D, W} -> Pcs] /\ sm \in Contexts /\ IsTuner(tuner)
      /\ tuner.fresh => from = tuner.at
      /\ Rest
  BY DEF IInv, LockHeldOnce, Follows, HeadsForCall
<1>2. CASE WatchdogTick
  <2>1. TickElsewhere /\ UNCHANGED <<pc, silent, answer, from>>  BY <1>2 DEF WatchdogTick
  <2>2. Good(sm', tuner') /\ tuned' = tuned /\ force' \in Channels /\ losses' \in 0 .. MaxLosses
    BY <1>1, <2>1, TickIsGood
  <2>3. Rest'  BY <1>1, <2>1, <2>2 DEF Rest
  <2>4. QED  BY <2>1, <2>2, <2>3, QuietStep
<1>3. CASE WatchdogRelease \/ ReleaseTune(W, "idle") \/ ReleaseClear(W, "idle")
  <2>1. "idle" \in Pcs \ Releasing  BY DEF Pcs, Releasing
  <2>2. WatchdogRelease => /\ pc[W] \notin Releasing
                           /\ ReleaseEnter(W, "idle") \/ ReleaseContended(W, "idle")
    BY Threads DEF WatchdogRelease
  <2>3. QED  BY <1>3, <2>1, <2>2, ReleaseFollows
<1>4. QED  BY <1>2, <1>3 DEF Watchdog

(* Every step keeps the receiver heading for the call. *)
LEMMA StepFollows ==
  ASSUME IInv, Follows, [Next]_vars
  PROVE  Follows'
<1>1. CASE Controller
  <2>1. UNCHANGED <<pc, sm, tuned, force, silent, answer, from, losses>>
    BY <1>1 DEF Controller, TuneLands, TuneIsRefused
  <2>2. /\ IsTuner(tuner')
        /\ tuner'.fresh => tuner.fresh /\ tuner'.at = tuner.at
        /\ \A c : Heads(tuner, c) => Heads(tuner', c)
    BY <1>1, ControllerHeads DEF Follows, HeadsForCall
  <2>3. QED  BY <2>1, <2>2 DEF Follows, HeadsForCall, Good, Rest
<1>2. CASE UNCHANGED vars
  BY <1>2 DEF vars, Follows, HeadsForCall, Good, Rest
<1>3. QED  BY <1>1, <1>2, DecoderFollows, WatchdogFollows DEF Next

-----------------------------------------------------------------------------
(* The machine's part of the tune ledger *)

LedgerMoves == Ledger!Next \/ UNCHANGED Ledger!vars

(* Without a failure there is nothing a tune could be older than. *)
ShutOrOpen == tuner.gate.shut \/ tuner.gate = OpenGate

(* The two modules read the gate alike. *)
LEMMA SameGates ==
  /\ OpenGate = Ledger!OpenGate
  /\ \A n : ShutBehind(n) = Ledger!ShutBehind(n)
  /\ \A g : OldestLands(g) = Ledger!OldestLands(g) /\ OldestFails(g) = Ledger!OldestFails(g)
BY DEF OpenGate, Ledger!OpenGate, ShutBehind, Ledger!ShutBehind,
       OldestLands, Ledger!OldestLands, OldestFails, Ledger!OldestFails

(* One call moves the ledger. *)
LEMMA CallMovesLedger ==
  ASSUME CallMoves(tuner, tuner')
  PROVE  LedgerMoves
<1>1. CASE Len(tuner'.inflight) = Len(tuner.inflight) + 1 /\ tuner'.gate = tuner.gate
  BY <1>1 DEF LedgerMoves, Ledger!Next, Ledger!CallsKept
<1>2. CASE tuner'.inflight = tuner.inflight /\ tuner'.gate = OpenGate
  BY <1>2, SameGates DEF LedgerMoves, Ledger!Next, Ledger!Landing, Ledger!CallLands
<1>3. CASE tuner'.inflight = tuner.inflight /\ tuner'.gate = tuner.gate
  BY <1>3 DEF LedgerMoves, Ledger!vars
<1>4. QED  BY <1>1, <1>2, <1>3 DEF CallMoves

(* A tune under the guard is one call, whoever asks for it. *)
LEMMA AnswerMovesLedger ==
  ASSUME IsTuner(tuner), NEW s, NEW to \in Channels,
         \E a \in Answers(tuner, s, to) : tuner' = a.tuner
  PROVE  LedgerMoves
BY AnswersAre, CallMovesLedger

(* A tick makes one call at most. *)
LEMMA TickMovesLedger ==
  ASSUME IsTuner(tuner), TickElsewhere
  PROVE  LedgerMoves
<1>1. UNCHANGED tuner \/ \E s : TryNextCc(s)
  BY DEF TickElsewhere, TickForceOff, TickOnCc, TickCcLost, TickHunting
<1>2. CASE UNCHANGED tuner  BY <1>2 DEF LedgerMoves, Ledger!vars
<1>3. ASSUME NEW s, TryNextCc(s) PROVE LedgerMoves
  BY <1>3, Numbers, AnswerMovesLedger DEF TryNextCc
<1>4. QED  BY <1>1, <1>2, <1>3

(* A grant that displaces a call makes two, on an open gate and with no     *)
(* tune under way.                                                         *)
LEMMA PreemptMovesLedger ==
  ASSUME IsTuner(tuner), ShutOrOpen, sm \in Contexts, Preempt
  PROVE  LedgerMoves
<1>1. tuner.inflight = << >> /\ Len(tuner.inflight) = 0 /\ tuner.gate = OpenGate
  BY TunerFields DEF Preempt, Dispatch, Dispatchable, GateOpen, ShutOrOpen
<1>2. PICK a \in Answers(tuner, sm, CC) :
        \/ TuneVc(Returned(sm, a), a.tuner, FALSE, 0)
        \/ tuner' = a.tuner
  BY DEF Preempt
<1>3. IsTuner(a.tuner) /\ CallMoves(tuner, a.tuner) /\ a.id \in Ids  BY AnswersAre, Numbers
<1>4. CASE tuner' = a.tuner  BY <1>3, <1>4, CallMovesLedger
<1>5. CASE TuneVc(Returned(sm, a), a.tuner, FALSE, 0)
  <2> DEFINE s == Returned(sm, a)
  <2>1. s.visit + 1 \in Channels
    <3>1. s.visit = sm.visit /\ sm.visit \in Channels  BY <1>3, ContextTypes DEF Contexts
    <3>2. sm.visit < MaxVisits  BY DEF Preempt
    <3>3. QED  BY <3>1, <3>2, Numbers DEF Channels
  <2>2. PICK b \in Answers(a.tuner, s, s.visit + 1) : tuner' = b.tuner
    BY <1>5 DEF TuneVc
  <2>3. CallMoves(a.tuner, tuner')  BY <1>3, <2>1, <2>2, AnswersAre
  <2>4. tuner'.gate = tuner.gate  BY <1>1, <1>3, <2>3 DEF CallMoves
  <2>5. Len(a.tuner.inflight) = 0 \/ Len(a.tuner.inflight) = 1
    BY <1>1, <1>3 DEF CallMoves
  <2>6. \/ Len(tuner'.inflight) = Len(a.tuner.inflight)
        \/ Len(tuner'.inflight) = Len(a.tuner.inflight) + 1
    BY <2>3 DEF CallMoves
  <2>7. \/ tuner'.inflight = tuner.inflight
        \/ Len(tuner'.inflight) = Len(tuner.inflight) + 1
        \/ Len(tuner'.inflight) = Len(tuner.inflight) + 2
    <3>1. \/ tuner'.inflight = tuner.inflight
          \/ Len(tuner'.inflight) = 1 \/ Len(tuner'.inflight) = 2
      <4>1. CASE Len(a.tuner.inflight) = 0
        <5>1. a.tuner.inflight = tuner.inflight  BY <1>1, <1>3, <4>1 DEF CallMoves
        <5>2. tuner'.inflight = a.tuner.inflight \/ Len(tuner'.inflight) = 0 + 1
          BY <2>3, <4>1 DEF CallMoves
        <5>3. QED  BY <5>1, <5>2
      <4>2. CASE Len(a.tuner.inflight) = 1  BY <2>6, <4>2
      <4>3. QED  BY <2>5, <4>1, <4>2
    <3>2. QED  BY <1>1, <3>1
  <2>8. QED
    BY <2>4, <2>7 DEF LedgerMoves, Ledger!Next, Ledger!CallsKept, Ledger!vars
<1>6. QED  BY <1>2, <1>4, <1>5

(* The frames that are handled make the calls of a grant or of a release. *)
LEMMA FrameMovesLedger ==
  ASSUME IsTuner(tuner), ShutOrOpen, sm \in Contexts, DispatchedFrame
  PROVE  LedgerMoves
<1>1. CASE UNCHANGED tuner  BY <1>1 DEF LedgerMoves, Ledger!vars
<1>2. CASE Preempt  BY <1>2, PreemptMovesLedger
<1>3. ASSUME NEW s, NEW to \in Channels, \E a \in Answers(tuner, s, to) : tuner' = a.tuner
      PROVE  LedgerMoves
  BY <1>3, AnswerMovesLedger
<1>4. CASE Grant
  <2>1. Noted \in Contexts /\ Noted.visit = sm.visit  BY DEF Noted, Contexts
  <2> DEFINE s == Unblocked(Noted)
  <2>2. s.visit = sm.visit  BY <2>1, ResolvedTypes
  <2>3. s.visit + 1 \in Channels  BY <1>4, <2>2, Numbers DEF Grant, Channels, Contexts
  <2>4. UNCHANGED tuner \/ TuneVc(s, tuner, tuned, force)  BY <1>4 DEF Grant
  <2>5. QED  BY <1>1, <1>3, <2>3, <2>4 DEF TuneVc
<1>5. CASE ExplicitRelease
  <2>1. UNCHANGED tuner \/ Release
    BY <1>5 DEF ExplicitRelease, PublicRelease, StaleReset
  <2>2. QED  BY <1>1, <1>3, <2>1, Numbers DEF Release
<1>6. CASE CcBlock \/ Regrant \/ VoiceStart \/ VoiceEnd
  BY <1>1, <1>6 DEF CcBlock, Regrant, VoiceStart, VoiceEnd, Voice
<1>7. QED  BY <1>2, <1>4, <1>5, <1>6 DEF DispatchedFrame

(* The controller answers the oldest tune. *)
LEMMA ControllerMovesLedger ==
  ASSUME IsTuner(tuner), Controller
  PROVE  LedgerMoves
<1> DEFINE rest == Tail(tuner.inflight)
<1>1. tuner.inflight # << >>  BY DEF Controller, TuneLands, TuneIsRefused
<1>2. Len(rest) = Len(tuner.inflight) - 1 /\ Len(tuner.inflight) > 0
  BY <1>1, TunerFields, HeadTailProperties
<1>3. /\ tuner'.inflight = rest
      /\ tuner'.gate = OldestLands(tuner.gate) \/ tuner'.gate = OldestFails(tuner.gate)
  BY TunerFields DEF Controller, TuneLands, TuneIsRefused, Landed, Tuners
<1>4. QED
  BY <1>2, <1>3, SameGates
  DEF LedgerMoves, Ledger!Next, Ledger!Landing, Ledger!AnswerLands, Ledger!AnswerFails

(* Each thread makes its calls one at a time, or two under the guard. *)
LEMMA StepMovesLedger ==
  ASSUME IsTuner(tuner), ShutOrOpen, sm \in Contexts, [Next]_vars
  PROVE  LedgerMoves
<1>1. ASSUME UNCHANGED tuner  PROVE LedgerMoves
  BY <1>1 DEF LedgerMoves, Ledger!vars
<1>2. ASSUME NEW s, \E a \in Answers(tuner, s, CC) : tuner' = a.tuner
      PROVE  LedgerMoves
  BY <1>2, Numbers, AnswerMovesLedger
<1>3. ASSUME NEW t, NEW next, ReleaseTune(t, next) \/ ReleaseClear(t, next)
      PROVE  LedgerMoves
  BY <1>1, <1>2, <1>3 DEF ReleaseTune, ReleaseClear
<1>4. ASSUME NEW t, NEW next, ReleaseEnter(t, next) \/ ReleaseContended(t, next)
      PROVE  LedgerMoves
  BY <1>1, <1>4 DEF ReleaseEnter, ReleaseContended
<1>5. ASSUME NEW at, NEW next, LoopTick(at, next)  PROVE LedgerMoves
  <2>1. UNCHANGED tuner \/ TickElsewhere \/ Release
    BY <1>5 DEF LoopTick, TickDecoder
  <2>2. QED  BY <1>1, <1>2, <2>1, TickMovesLedger DEF Release
<1>6. ASSUME NEW at, NEW next, NoCarrierReturn(at, next)  PROVE LedgerMoves
  BY <1>1, <1>2, <1>6 DEF NoCarrierReturn
<1>7. CASE BeginSearch
  <2>1. tuner'.inflight = tuner.inflight /\ tuner'.gate = tuner.gate
    BY <1>7, TunerFields DEF BeginSearch, Tuners
  <2>2. QED  BY <2>1 DEF LedgerMoves, Ledger!vars
<1>8. CASE Decoder
  <2>1. ASSUME NEW at, NEW due, NEW otherwise, NoCarrier(at, due, otherwise)
        PROVE  LedgerMoves
    BY <1>1, <2>1 DEF NoCarrier
  <2>2. CASE SyncFound \/ NoSync \/ NoSyncForLong \/ NoSyncLatch \/ FrameWithheld
    BY <1>1, <2>2
    DEF SyncFound, NoSync, NoSyncForLong, HangtimePasses, Listen, NoSyncLatch, FrameWithheld
  <2>3. CASE NoSyncRelease  BY <1>4, <2>3 DEF NoSyncRelease
  <2>4. QED
    BY <1>3, <1>5, <1>6, <1>7, <1>8, <2>1, <2>2, <2>3, FrameMovesLedger DEF Decoder
<1>9. CASE Watchdog
  <2>1. CASE WatchdogTick  BY <2>1, TickMovesLedger DEF WatchdogTick
  <2>2. CASE WatchdogRelease  BY <1>4, <2>2 DEF WatchdogRelease
  <2>3. QED  BY <1>3, <1>9, <2>1, <2>2 DEF Watchdog
<1>10. QED
  BY <1>1, <1>8, <1>9, ControllerMovesLedger DEF Next, vars

(* A gate that is not shut stays as it was opened. *)
LEMMA GateStays ==
  ASSUME IsTuner(tuner), ShutOrOpen, LedgerMoves
  PROVE  ShutOrOpen'
<1>1. tuner.gate.older \in Nat /\ tuner.gate \in Gates  BY TunerFields
<1>2. (OldestFails(tuner.gate)).shut  BY DEF OldestFails, ShutBehind
<1>3. OldestLands(tuner.gate).shut \/ OldestLands(tuner.gate) = OpenGate
  <2>1. CASE tuner.gate = OpenGate  BY <2>1 DEF OldestLands, OpenGate
  <2>2. CASE tuner.gate.shut
    <3>1. [tuner.gate EXCEPT !.older = @ - 1].shut  BY <1>1, <2>2 DEF Gates
    <3>2. QED  BY <3>1 DEF OldestLands
  <2>3. QED  BY <2>1, <2>2 DEF ShutOrOpen
<1>4. \A n : ShutBehind(n).shut  BY DEF ShutBehind
<1>5. \/ tuner'.gate \in {tuner.gate, OpenGate, OldestLands(tuner.gate), OldestFails(tuner.gate)}
      \/ \E n : tuner'.gate = ShutBehind(n)
  BY SameGates
  DEF LedgerMoves, Ledger!Next, Ledger!vars, Ledger!Landing, Ledger!CallsKept, Ledger!CallLands,
      Ledger!CallGated, Ledger!AnswerLands, Ledger!AnswerFails, Ledger!Retire, Ledger!Restart
<1>6. QED  BY <1>2, <1>3, <1>4, <1>5 DEF ShutOrOpen

-----------------------------------------------------------------------------
(* Theorems *)

(* At most one thread is inside a release, the options say tuned only while *)
(* the machine follows a call, and a call stays up while somebody returns   *)
(* from it.                                                                *)
THEOREM Invariance == Spec => []IInv
<1>1. IInv /\ [Next]_vars => IInv'  BY StepIsSound DEF Sound
<1>2. QED  BY <1>1, InitIInv, PTL DEF Spec

(* However often the watchdog and frame sync give up one call together, one *)
(* of them sends the receiver back, and only while the call is up.         *)
THEOREM ReturnEndsAVisitAlways == Spec => ReturnEndsAVisit
<1>1. IInv /\ [Next]_vars =>
        [\A t \in {D, W} :
           (pc[t] = "releasing" /\ pc'[t] = "clearing") => sm.state = "TUNED"]_vars
  BY StepIsSound DEF Sound
<1>2. QED  BY <1>1, Invariance, PTL DEF Spec, ReturnEndsAVisit

(* Whenever nobody clears a call that was returned from, the receiver heads *)
(* for the call the machine follows, and fresh frames are from where it is. *)
THEOREM ReceiverFollows == Spec => []Follows
<1>1. IInv /\ Follows /\ [Next]_vars => Follows'  BY StepFollows
<1>2. QED  BY <1>1, InitFollows, Invariance, PTL DEF Spec

(* What is remembered of a failed no-carrier return is a Boolean. *)
LEMMA HistoryTyped ==
  ASSUME deserted \in BOOLEAN, [Next]_vars
  PROVE  deserted' \in BOOLEAN
<1>1. CASE Watchdog \/ Controller \/ UNCHANGED vars
  BY <1>1
  DEF Watchdog, WatchdogTick, WatchdogRelease, ReleaseEnter, ReleaseContended, ReleaseTune,
    ReleaseClear, Controller, TuneLands, TuneIsRefused, vars
<1>2. CASE DispatchedFrame
  <2>1. \A s, u, still, latch : TuneVc(s, u, still, latch) => deserted' \in BOOLEAN
    BY DEF TuneVc
  <2>2. QED
    BY <1>2, <2>1
    DEF DispatchedFrame, CcBlock, Grant, Preempt, Regrant, VoiceStart, VoiceEnd, Voice,
      ExplicitRelease
<1>3. ASSUME NEW at, NEW next, NoCarrierReturn(at, next)  PROVE deserted' \in BOOLEAN
  BY <1>3 DEF NoCarrierReturn
<1>4. CASE Decoder /\ ~ DispatchedFrame
  BY <1>3, <1>4
  DEF Decoder, LoopTick, NoCarrier, BeginSearch, SyncFound, NoSync, NoSyncForLong, HangtimePasses, Listen,
    NoSyncLatch, NoSyncRelease, ReleaseEnter, ReleaseContended, ReleaseTune, ReleaseClear,
    FrameWithheld
<1>5. QED  BY <1>1, <1>2, <1>4 DEF Next

(* Every variable of the machine, its tuner and its gate keeps its type.   *)
THEOREM TypeCorrect == Spec => []TypeOK
<1>1. IInv /\ Follows /\ deserted \in BOOLEAN => TypeOK
  <2> SUFFICES ASSUME IInv, Follows, deserted \in BOOLEAN PROVE TypeOK  OBVIOUS
  <2>1. /\ tuner.at \in Channels /\ tuner.fresh \in BOOLEAN
        /\ tuner.refusals \in 0 .. MaxRefusals
        /\ tuner.result \in [Ids -> {"OK", "FAILED"}]
        /\ Len(tuner.inflight) <= 2 /\ tuner.inflight \in Seq(Tunes)
        /\ tuner.gate \in Gates /\ tuner.gate.older <= Len(tuner.inflight)
    <3>1. IsTuner(tuner)  BY DEF Follows, HeadsForCall
    <3>2. Len(tuner.inflight) <= 2  BY <3>1 DEF IsTuner
    <3>3. QED  BY <3>1, <3>2, TunerFields
  <2>2. \A i \in DOMAIN tuner.inflight : tuner.inflight[i] \in [id : Ids, to : Channels]
    <3>1. DOMAIN tuner.inflight = 1 .. Len(tuner.inflight)  BY <2>1, LenProperties
    <3>2. QED  BY <2>1, <3>1, ElementOfSeq DEF Tunes
  <2>3. pc \in [{D, W} -> Pcs] /\ sm \in Contexts /\ Rest
    BY DEF IInv, LockHeldOnce, Follows, HeadsForCall
  <2>4. QED  BY <2>1, <2>2, <2>3 DEF TypeOK, Contexts, States, Rest
<1>2. Init => deserted \in BOOLEAN  BY DEF Init
<1>3. deserted \in BOOLEAN /\ [Next]_vars => (deserted \in BOOLEAN)'  BY HistoryTyped
<1>4. QED  BY <1>1, <1>2, <1>3, Invariance, ReceiverFollows, PTL DEF Spec

(* A frame that is handled during a call is from the call's channel: with   *)
(* no tune under way and the gate open, the receiver has arrived where it   *)
(* was heading, and a fresh frame is from where the receiver is.            *)
THEOREM FrameMatchesStateAlways == Spec => []FrameMatchesState
<1>1. IInv /\ Follows => FrameMatchesState
  <2> SUFFICES ASSUME IInv, Follows, pc[D] = "synced", GuardFree, Dispatchable,
                      sm.state = "TUNED"
               PROVE  from = sm.visit
    BY DEF FrameMatchesState
  <2>1. \A t \in {D, W} : pc[t] # "clearing"  BY DEF GuardFree
  <2>2. Heads(tuner, sm.visit) /\ (tuner.fresh => from = tuner.at)
    BY <2>1 DEF Follows, HeadsForCall, Good
  <2>3. QED  BY <2>2 DEF Dispatchable, GateOpen, Heads
<1>2. QED  BY <1>1, Invariance, ReceiverFollows, PTL

(* Whichever of the two threads tunes, the machine's tunes and its gate are *)
(* those of an owner of the tune ledger: every tune the controller is left *)
(* with is answered once, and the gate is what their answers make of it.   *)
THEOREM MachineKeepsLedger == Spec => LedgerKept
<1>1. Init => Ledger!Init /\ ShutOrOpen
  <2>1. SUFFICES ASSUME Init PROVE Len(tuner.inflight) = 0 /\ tuner.gate = OpenGate
    BY SameGates DEF Ledger!Init, ShutOrOpen
  <2>2. QED  BY <2>1, EmptySeq DEF Init
<1>2. Follows /\ ShutOrOpen /\ [Next]_vars => LedgerMoves /\ ShutOrOpen'
  BY StepMovesLedger, GateStays DEF Follows, HeadsForCall
<1>3. Follows /\ ShutOrOpen /\ [Next]_vars => [Ledger!Next]_(Ledger!vars) /\ ShutOrOpen'
  BY <1>2 DEF LedgerMoves
<1>4. QED  BY <1>1, <1>3, ReceiverFollows, PTL DEF Spec, LedgerKept, Ledger!Spec
=============================================================================
