-------------------------- MODULE ReconfigureGate --------------------------
(***************************************************************************)
(* How a live reconfigure of the tuner is kept apart from demodulation     *)
(* (src/upstream/dsd-neo/src/io/radio/rtl_sdr_fm.cpp).                     *)
(*                                                                         *)
(* Four threads share the input ring, the demodulator state and the output *)
(* ring: the capture callback fills the input ring, the demod thread turns *)
(* its blocks into output, the controller thread reprograms the tuner and  *)
(* resets the demodulator, and, when rigctl tunes while RTL supplies the   *)
(* audio, the decoder thread applies a retune profile itself.  They keep   *)
(* apart by two flags, retune_in_progress and demod_processing_active, by  *)
(* a capture hold, and by a purge of the input ring.                       *)
(*                                                                         *)
(* A block is what one reservation of the ring yields, tagged with the     *)
(* configuration of the tuner it was captured under and with the discard   *)
(* generations at which it was reserved and committed; the tags are        *)
(* history, no thread reads them.  Muting by byte count, replay, the cold  *)
(* start and the watermark's own pauses are left out.                      *)
(*                                                                         *)
(* demod_enter_processing_block announces a block by a release store of    *)
(* demod_processing_active and then looks at retune_in_progress by an      *)
(* acquire load.  Nothing orders the two: an x86 build may take the load   *)
(* first, and a wait for the demod thread can then end although the thread *)
(* has just announced a block.  Here such a store reaches memory some time *)
(* later (Flush), and a read-modify-write or a sequentially consistent     *)
(* store of the same thread waits for it.  A block the wait did not see is *)
(* `overlooked'.  The other side has no such gap: the controller closes    *)
(* the gate and then takes the mutex of the output waiters, and the family *)
(* gate is a compare and exchange.                                         *)
(***************************************************************************)
EXTENDS Naturals, Sequences

CONSTANTS
  RingBlocks,      \* capacity of the input ring, in blocks
  OutputBlocks,    \* capacity of the output ring, in blocks
  FamilySwitcher,  \* whether the decoder thread applies profiles itself
  MaxReconfigures  \* bound: reconfigures in one behaviour

ASSUME RingAssumption == RingBlocks \in Nat \ {0} /\ OutputBlocks \in Nat \ {0}
ASSUME SwitcherAssumption == FamilySwitcher \in BOOLEAN
ASSUME BoundAssumption == MaxReconfigures \in Nat

VARIABLES
  gate,        \* retune_in_progress
  active,      \* demod_processing_active, as the other threads see it
  stored,      \* the demod thread's stores of it that are still on the way
  hold,        \* capture_reconfigure_hold
  generation,  \* discard_generation of the input ring
  purge,       \* g_ring_purge_pending
  ring,        \* the input ring
  output,      \* the output ring: how its blocks were demodulated
  capture,     \* the capture callback and the block it carries
  demod,       \* the demod thread and the span it has reserved
  controller,  \* where the controller thread is
  decoder,     \* where the decoder thread is in a profile or a soft stop
  armed,       \* gate_armed of the two threads that run rtl_stream_toggle_cqpsk
  exit_flag,   \* the exit flag of the program
  exiting,     \* the stream's should_exit, or the exit flag
  overlooked,  \* history: a wait ended before the block in hand was seen announced
  config,      \* history: configurations programmed so far
  begun        \* history: reconfigures begun so far

inputs == <<hold, generation, purge, ring, capture>>
flags == <<gate, active, stored>>
vars == <<gate, active, stored, hold, generation, purge, ring, output, capture,
          demod, controller, decoder, armed, exit_flag, exiting, overlooked, config, begun>>

Samples == [config : Nat, overlooked : BOOLEAN]
Blocks == [config : Nat, reserved : Nat, committed : Nat]
Togglers == {"controller", "decoder"}

TypeOK ==
  /\ gate \in BOOLEAN /\ active \in BOOLEAN /\ stored \in Seq(BOOLEAN)
  /\ hold \in BOOLEAN /\ generation \in Nat /\ purge \in BOOLEAN
  /\ ring \in Seq(Blocks) /\ Len(ring) <= RingBlocks
  /\ output \in Seq(Samples) /\ Len(output) <= OutputBlocks
  /\ capture \in [pc : {"idle", "arrived", "reserved", "checked"}, block : Blocks]
  /\ demod \in [pc : {"top", "gate", "read", "enter", "store", "confirm", "prepare",
                      "recheck", "settle", "process", "output", "write", "exited"},
                span : Blocks, held : BOOLEAN]
  /\ controller \in {"idle", "wait", "clear", "hold", "discard", "purge", "program",
                     "reset", "profile", "rediscard", "repurge", "release", "open"}
  /\ decoder \in {"idle", "wait", "apply", "joining", "stopped"}
  /\ armed \in [Togglers -> BOOLEAN]
  /\ exit_flag \in BOOLEAN /\ exiting \in BOOLEAN
  /\ overlooked \in BOOLEAN /\ config \in Nat /\ begun \in 0 .. MaxReconfigures

NoBlock == [config |-> 0, reserved |-> 0, committed |-> 0]

Init ==
  /\ gate = FALSE /\ active = FALSE /\ stored = << >>
  /\ hold = FALSE /\ generation = 0 /\ purge = FALSE
  /\ ring = << >> /\ output = << >>
  /\ capture = [pc |-> "idle", block |-> NoBlock]
  /\ demod = [pc |-> "top", span |-> NoBlock, held |-> FALSE]
  /\ controller = "idle" /\ decoder = "idle"
  /\ armed = [t \in Togglers |-> FALSE]
  /\ exit_flag = FALSE /\ exiting = FALSE
  /\ overlooked = FALSE /\ config = 0 /\ begun = 0

-----------------------------------------------------------------------------
(* rtlsdr_callback and rtl_write_u8_to_ring.  A callback that finds the     *)
(* hold drops its buffer and changes nothing.                              *)

NothingCaptured == [pc |-> "idle", block |-> NoBlock]

OthersOfCapture == <<flags, hold, generation, purge, output, demod, controller, decoder,
                     armed, exit_flag, exiting, overlooked, config, begun>>

CaptureCallback ==
  /\ capture.pc = "idle" /\ ~ hold /\ ~ exiting
  /\ capture' = [pc |-> "arrived", block |-> [NoBlock EXCEPT !.config = config]]
  /\ UNCHANGED <<ring, OthersOfCapture>>

(* Faulty variant: the free space is not looked at. *)
CaptureReserveUnbounded ==
  /\ capture.pc = "arrived"
  /\ capture' = [capture EXCEPT !.pc = "reserved", !.block.reserved = generation]
  /\ UNCHANGED <<ring, OthersOfCapture>>

CaptureReserve ==
  /\ capture.pc = "arrived"
  /\ capture' = IF Len(ring) < RingBlocks
                THEN [capture EXCEPT !.pc = "reserved", !.block.reserved = generation]
                ELSE NothingCaptured
  /\ UNCHANGED <<ring, OthersOfCapture>>

CaptureCheck ==
  /\ capture.pc = "reserved"
  /\ capture' = IF capture.block.reserved = generation
                THEN [capture EXCEPT !.pc = "checked"]
                ELSE NothingCaptured
  /\ UNCHANGED <<ring, OthersOfCapture>>

(* A buffer larger than the reservation goes on with another one. *)
CaptureCommit ==
  /\ capture.pc = "checked"
  /\ ring' = Append(ring, [capture.block EXCEPT !.committed = generation])
  /\ \/ capture' = NothingCaptured
     \/ capture' = [capture EXCEPT !.pc = "arrived", !.block.reserved = 0]
  /\ UNCHANGED OthersOfCapture

CaptureStep == CaptureCallback \/ CaptureReserve \/ CaptureCheck \/ CaptureCommit

-----------------------------------------------------------------------------
(* The demod thread: one pass of demod_thread_fn.                          *)

OthersOfDemod == <<gate, hold, generation, capture, controller, decoder, armed,
                   exit_flag, exiting, config, begun>>
Drained == stored = << >>

(* demod_processing_active.store(v, release). *)
StoreActive(v) == stored' = Append(stored, v) /\ UNCHANGED active

ToTop ==
  /\ demod' = [pc |-> "top", span |-> NoBlock, held |-> FALSE]
  /\ overlooked' = FALSE

(* demod_input_span_commit_reserved: the tail moves past a span still held. *)
CommitSpan ==
  /\ Drained
  /\ ring' = IF demod.held /\ ring # << >> THEN Tail(ring) ELSE ring

Goto(pc) == demod' = [demod EXCEPT !.pc = pc] /\ UNCHANGED overlooked

DemodPurge ==
  /\ demod.pc = "top" /\ purge /\ Drained /\ ~ exiting
  /\ purge' = FALSE
  /\ ring' = << >>
  /\ UNCHANGED <<active, stored, output, demod, overlooked, OthersOfDemod>>

DemodNoPurge ==
  /\ demod.pc = "top" /\ ~ purge /\ Drained /\ ~ exiting
  /\ Goto("gate")
  /\ UNCHANGED <<active, stored, purge, ring, output, OthersOfDemod>>

DemodPause ==
  /\ demod.pc = "gate"
  /\ Goto(IF gate THEN "top" ELSE "read")
  /\ UNCHANGED <<active, stored, purge, ring, output, OthersOfDemod>>

(* The watermark looks at both flags again before the ring is reserved. *)
DemodWatermark ==
  /\ demod.pc = "read" /\ (purge \/ gate)
  /\ ToTop
  /\ UNCHANGED <<active, stored, purge, ring, output, OthersOfDemod>>

DemodRead ==
  /\ demod.pc = "read" /\ ring # << >>
  /\ demod' = [pc |-> "enter", span |-> Head(ring), held |-> TRUE]
  /\ UNCHANGED <<active, stored, purge, ring, output, overlooked, OthersOfDemod>>

DemodReadExit ==
  /\ demod.pc = "read" /\ exiting
  /\ ToTop
  /\ UNCHANGED <<active, stored, purge, ring, output, OthersOfDemod>>

DemodExit ==
  /\ demod.pc = "top" /\ exiting
  /\ Goto("exited")
  /\ UNCHANGED <<active, stored, purge, ring, output, OthersOfDemod>>

(* demod_enter_processing_block: look, announce, look again. *)
DemodEnter ==
  /\ demod.pc = "enter"
  /\ IF gate THEN CommitSpan /\ ToTop ELSE UNCHANGED ring /\ Goto("store")
  /\ UNCHANGED <<active, stored, purge, output, OthersOfDemod>>

DemodStore ==
  /\ demod.pc = "store"
  /\ StoreActive(TRUE)
  /\ Goto("confirm")
  /\ UNCHANGED <<purge, ring, output, OthersOfDemod>>

(* demod_discard_iteration_input and demod_leave_processing_block; after an *)
(* entry that failed in the other order, which only the demod thread sees.  *)
Discard ==
  /\ CommitSpan
  /\ StoreActive(FALSE)
  /\ ToTop

(* Faulty variant: the block is not looked at again once it is announced. *)
DemodConfirmBlindly ==
  /\ demod.pc = "confirm"
  /\ Goto("prepare")
  /\ UNCHANGED <<active, stored, purge, ring, output, OthersOfDemod>>

DemodConfirm ==
  /\ demod.pc = "confirm"
  /\ IF gate THEN Discard ELSE Goto("prepare") /\ UNCHANGED <<active, stored, ring>>
  /\ UNCHANGED <<purge, output, OthersOfDemod>>

(* demod_prepare_input_block: a span that wraps is copied and committed now. *)
DemodPrepare ==
  /\ demod.pc = "prepare"
  /\ \/ Goto("recheck") /\ UNCHANGED ring
     \/ CommitSpan /\ demod' = [demod EXCEPT !.pc = "recheck", !.held = FALSE]
        /\ UNCHANGED overlooked
  /\ UNCHANGED <<active, stored, purge, output, OthersOfDemod>>

(* Faulty variant: a purge that is still pending is not looked at. *)
DemodRecheckGateOnly ==
  /\ demod.pc = "recheck"
  /\ IF gate
     THEN Discard
     ELSE Goto("settle") /\ UNCHANGED <<active, stored, ring>>
  /\ UNCHANGED <<purge, output, OthersOfDemod>>

DemodRecheck ==
  /\ demod.pc = "recheck"
  /\ IF gate \/ purge
     THEN Discard
     ELSE Goto("settle") /\ UNCHANGED <<active, stored, ring>>
  /\ UNCHANGED <<purge, output, OthersOfDemod>>

(* Whether a block settles depends on its samples. *)
DemodSettle ==
  /\ demod.pc = "settle"
  /\ \/ Discard
     \/ ~ gate /\ Goto("process") /\ UNCHANGED <<active, stored, ring>>
  /\ UNCHANGED <<purge, output, OthersOfDemod>>

(* full_demod, and the release of a span used in place: from here on the   *)
(* span's configuration is the one its samples were demodulated under.     *)
DemodProcess ==
  /\ demod.pc = "process"
  /\ IF demod.held THEN CommitSpan ELSE UNCHANGED ring
  /\ demod' = [demod EXCEPT !.pc = "output", !.held = FALSE, !.span.config = config]
  /\ UNCHANGED <<active, stored, purge, output, overlooked, OthersOfDemod>>

(* demod_write_output_samples_interruptible gives up when the gate closes  *)
(* or the program exits; it does not look at the stream's should_exit.     *)
LeaveOutput ==
  /\ StoreActive(FALSE)
  /\ ToTop

(* Faulty variant: a writer with no space waits for space alone. *)
DemodOutputUncancelled ==
  /\ demod.pc = "output"
  /\ Len(output) < OutputBlocks
  /\ Goto("write")
  /\ UNCHANGED <<active, stored, purge, ring, output, OthersOfDemod>>

DemodOutput ==
  /\ demod.pc = "output"
  /\ gate \/ exit_flag \/ Len(output) < OutputBlocks
  /\ IF gate \/ exit_flag THEN LeaveOutput ELSE Goto("write") /\ UNCHANGED <<active, stored>>
  /\ UNCHANGED <<purge, ring, output, OthersOfDemod>>

DemodWrite ==
  /\ demod.pc = "write"
  /\ output' = Append(output, [config |-> demod.span.config, overlooked |-> overlooked])
  /\ LeaveOutput
  /\ UNCHANGED <<purge, ring, OthersOfDemod>>

DemodStep ==
  \/ DemodPurge \/ DemodNoPurge \/ DemodPause \/ DemodWatermark \/ DemodRead
  \/ DemodReadExit \/ DemodExit \/ DemodEnter \/ DemodStore \/ DemodConfirm
  \/ DemodPrepare \/ DemodRecheck \/ DemodSettle \/ DemodProcess \/ DemodOutput
  \/ DemodWrite

(* The oldest delayed store reaches memory. *)
Flush ==
  /\ stored # << >>
  /\ active' = Head(stored)
  /\ stored' = Tail(stored)
  /\ UNCHANGED <<gate, inputs, output, demod, controller, decoder, armed, exit_flag,
                 exiting, overlooked, config, begun>>

-----------------------------------------------------------------------------
(* rtl_stream_enter_demod_family_switch_gate and its leave: a compare and   *)
(* exchange closes the gate, and only who closed it opens it again.        *)

EnterFamilyGate(t) ==
  /\ armed' = [armed EXCEPT ![t] = ~ gate]
  /\ gate' = TRUE

(* Faulty variant: the gate is opened by whoever leaves. *)
LeaveFamilyGateAlways(t) ==
  /\ gate' = FALSE
  /\ armed' = [armed EXCEPT ![t] = FALSE]

LeaveFamilyGate(t) ==
  /\ gate' = (gate /\ ~ armed[t])
  /\ armed' = [armed EXCEPT ![t] = FALSE]

(* The demod thread has announced a block, and the store is on its way. *)
OnItsWay == \E i \in DOMAIN stored : stored[i]

(* controller_wait_for_demod_idle. *)
DemodIdle ==
  /\ ~ active \/ exiting
  /\ overlooked' = (overlooked \/ OnItsWay)

(* The output is cleared when the demodulator family changed. *)
ClearIfChanged == output' \in {output, << >>}

OthersOfDecoder == <<active, stored, inputs, demod, controller, exit_flag, config, begun>>

DecoderRead ==
  /\ decoder = "idle" /\ ~ exiting
  /\ output # << >>
  /\ output' = Tail(output)
  /\ UNCHANGED <<gate, armed, decoder, exiting, overlooked, OthersOfDecoder>>

SwitchEnter ==
  /\ FamilySwitcher
  /\ decoder = "idle" /\ ~ exiting
  /\ decoder' = "wait"
  /\ EnterFamilyGate("decoder")
  /\ UNCHANGED <<output, exiting, overlooked, OthersOfDecoder>>

SwitchIdle ==
  /\ decoder = "wait" /\ DemodIdle
  /\ decoder' = "apply"
  /\ UNCHANGED <<gate, armed, output, exiting, OthersOfDecoder>>

SwitchApply ==
  /\ decoder = "apply"
  /\ decoder' = "idle"
  /\ ClearIfChanged
  /\ LeaveFamilyGate("decoder")
  /\ UNCHANGED <<exiting, overlooked, OthersOfDecoder>>

(* dsd_rtl_stream_soft_stop, when the engine ends or a menu restarts the    *)
(* stream, which leaves the exit flag alone: the thread that reads the      *)
(* output asks the others to exit and joins the demod thread.              *)
SoftStop ==
  /\ decoder = "idle"
  /\ decoder' = "joining"
  /\ exiting' = TRUE
  /\ UNCHANGED <<gate, armed, output, overlooked, OthersOfDecoder>>

JoinDemod ==
  /\ decoder = "joining" /\ demod.pc = "exited"
  /\ decoder' = "stopped"
  /\ UNCHANGED <<gate, armed, output, exiting, overlooked, OthersOfDecoder>>

DecoderStep ==
  \/ DecoderRead \/ SwitchEnter \/ SwitchIdle \/ SwitchApply \/ SoftStop \/ JoinDemod

-----------------------------------------------------------------------------
(* The controller thread: controller_apply_reconfigure.                    *)

OthersOfController == <<active, stored, ring, capture, demod, decoder, exit_flag, exiting>>

Advance(from, to) ==
  /\ controller = from
  /\ controller' = to
  /\ UNCHANGED OthersOfController

ControllerBegin ==
  /\ begun < MaxReconfigures /\ ~ exiting
  /\ Advance("idle", "wait")
  /\ begun' = begun + 1
  /\ gate' = TRUE
  /\ UNCHANGED <<overlooked, hold, generation, purge, output, armed, config>>

ControllerWait ==
  /\ DemodIdle
  /\ Advance("wait", "clear")
  /\ UNCHANGED <<gate, hold, generation, purge, output, armed, config, begun>>

(* Faulty variant: what the decoder has not read yet stays in the output. *)
ControllerClearNothing ==
  /\ Advance("clear", "hold")
  /\ UNCHANGED <<overlooked, gate, hold, generation, purge, output, armed, config, begun>>

ControllerClear ==
  /\ Advance("clear", "hold")
  /\ output' = << >>
  /\ UNCHANGED <<overlooked, gate, hold, generation, purge, armed, config, begun>>

ControllerHold ==
  /\ Advance("hold", "discard")
  /\ hold' = TRUE
  /\ UNCHANGED <<overlooked, gate, generation, purge, output, armed, config, begun>>

(* controller_request_input_purge, before the tuner is touched and again    *)
(* once the demodulator has been reset.                                    *)
RequestDiscard ==
  /\ Advance("discard", "purge") \/ Advance("rediscard", "repurge")
  /\ generation' = generation + 1
  /\ UNCHANGED <<overlooked, gate, hold, purge, output, armed, config, begun>>

RequestPurge ==
  /\ Advance("purge", "program") \/ Advance("repurge", "release")
  /\ purge' = TRUE
  /\ UNCHANGED <<overlooked, gate, hold, generation, output, armed, config, begun>>

(* Faulty variant: a refusal returns without opening the gate. *)
ControllerProgramReturning ==
  /\ \/ Advance("program", "reset") /\ config' = config + 1
     \/ Advance("program", "idle") /\ UNCHANGED config
  /\ UNCHANGED <<overlooked, gate, hold, generation, purge, output, armed, begun>>

(* apply_capture_settings: the tuner is reprogrammed, or refuses unchanged. *)
ControllerProgram ==
  /\ \/ Advance("program", "reset") /\ config' = config + 1
     \/ Advance("program", "release") /\ UNCHANGED config
  /\ UNCHANGED <<overlooked, gate, hold, generation, purge, output, armed, begun>>

(* controller_finalize_rate_chain: a profile goes through the family gate   *)
(* this thread has closed already; without one the chain is reset at once. *)
ControllerReset ==
  /\ \/ Advance("reset", "profile") /\ EnterFamilyGate("controller")
     \/ Advance("reset", "rediscard") /\ UNCHANGED <<gate, armed>>
  /\ UNCHANGED <<overlooked, hold, generation, purge, output, config, begun>>

ControllerProfile ==
  /\ DemodIdle
  /\ Advance("profile", "rediscard")
  /\ ClearIfChanged
  /\ LeaveFamilyGate("controller")
  /\ UNCHANGED <<hold, generation, purge, config, begun>>

ControllerRelease ==
  /\ Advance("release", "open")
  /\ hold' = FALSE
  /\ UNCHANGED <<overlooked, gate, generation, purge, output, armed, config, begun>>

ControllerOpen ==
  /\ Advance("open", "idle")
  /\ gate' = FALSE
  /\ UNCHANGED <<overlooked, hold, generation, purge, output, armed, config, begun>>

ControllerWork ==
  \/ ControllerWait \/ ControllerClear \/ ControllerHold \/ RequestDiscard
  \/ RequestPurge \/ ControllerProgram \/ ControllerReset \/ ControllerProfile
  \/ ControllerRelease \/ ControllerOpen

RaiseExit ==
  /\ ~ exit_flag
  /\ exit_flag' = TRUE
  /\ exiting' = TRUE
  /\ UNCHANGED <<flags, inputs, output, demod, controller, decoder, armed, overlooked,
                 config, begun>>

Next ==
  \/ CaptureStep \/ DemodStep \/ Flush \/ DecoderStep
  \/ ControllerBegin \/ ControllerWork \/ RaiseExit

Spec == Init /\ [][Next]_vars

(* The threads run and stores reach memory.  Nothing is assumed of the      *)
(* capture, of the decoder's reading, or of new reconfigures.              *)
FairSpec ==
  /\ Spec
  /\ WF_vars(DemodStep) /\ WF_vars(ControllerWork) /\ WF_vars(Flush) /\ WF_vars(JoinDemod)

-----------------------------------------------------------------------------
(* A block is under way once the demod thread has confirmed it. *)
InBlock == demod.pc \in {"prepare", "recheck", "settle", "process", "output", "write"}

(* Between the end of its wait and the opening of the gate the controller   *)
(* owns the tuner and the demodulator.                                     *)
Reconfiguring == controller \notin {"idle", "wait"}

(* demod_enter_processing_block against controller_enter_reconfigure_gate:  *)
(* once a thread has waited for the demod thread to be idle, no block is    *)
(* under way until the gate opens, except one whose announcement (the      *)
(* release store) was still on its way when the wait ended: in particular  *)
(* no later block starts.  Shutdown cuts the wait short.                   *)
IdleMeansIdle ==
  Reconfiguring \/ (decoder = "apply" /\ armed["decoder"])
    => exiting \/ overlooked \/ ~ InBlock

(* retune_in_progress stays set from the end of the wait to                 *)
(* controller_end_reconfigure, also across a profile that goes through the  *)
(* same flag in the middle of it.                                          *)
GateCoversReset == Reconfiguring => gate

(* g_ring_purge_pending and the second look in demod_prepare_iteration_input: *)
(* a block that was in the input ring when a purge was requested is never   *)
(* demodulated, also when its span was reserved before the purge, unless it *)
(* is the block the reconfigure's wait overlooked.                         *)
PurgedNeverDemodulated ==
  demod.pc \in {"settle", "process", "output", "write"} =>
    exiting \/ overlooked \/ demod.span.committed = generation

(* The gate, the wait, the clear and the second look before the write: the  *)
(* output never holds what was demodulated before the last reprogramming,  *)
(* but for a block that reconfigure's wait overlooked.                     *)
OutputOfThisTuning ==
  exiting \/ \A i \in DOMAIN output : output[i].config = config \/ output[i].overlooked

(* A gate that is closed is one somebody is going to open: it is never left *)
(* closed by a reconfigure that failed or by two that overlapped.          *)
GateHasOwner ==
  gate => controller # "idle" \/ armed["decoder"]

(* controller_wait_for_demod_idle ends although the output may be full and  *)
(* nobody reads it: a reconfigure always runs to its end.                  *)
ReconfigureEnds == controller # "idle" ~> controller = "idle"

(* dsd_rtl_stream_soft_stop ends when the program exits: the demod thread   *)
(* is joined although it may be waiting for space nobody will make.        *)
ExitJoins == decoder = "joining" /\ exit_flag ~> decoder = "stopped"

(* ... and, as its description has it, without the exit flag. *)
SoftStopJoins == decoder = "joining" ~> decoder = "stopped"

=============================================================================
