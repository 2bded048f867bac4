# A TLA+ development of the XeraX-SDR receiver

XeraX-SDR is a desktop and Android build of the `dsd-neo` digital voice decoder
(`src/upstream/dsd-neo`).  This directory specifies the part of it that is hardest to
test: how threads agree on *what the receiver is tuned to* while samples keep flowing.
Paths below are relative to `src/upstream/dsd-neo` and `rtl_sdr_fm.cpp` stands for
`src/io/radio/rtl_sdr_fm.cpp`.

## 1. The system

### Threads

| thread | code | what it shares |
|---|---|---|
| decoder | `live_scanner_main_loop`, `src/engine/engine.c:2657` | reads the output ring, runs the trunking state machines, tunes, drains frontend commands |
| P25 watchdog | `src/protocol/p25/p25_sm_watchdog.c` | ticks the P25 state machine under a guard, and so may tune |
| capture callback | `rtlsdr_callback`, `src/io/radio/rtl_device.cpp:2365` | fills the input ring |
| demod | `demod_thread_fn`, `rtl_sdr_fm.cpp:3469` | input ring to output ring, owns the demodulator state |
| controller | `controller_thread_retune_loop` in `rtl_sdr_fm.cpp` | reprograms the tuner, resets the demodulator, answers tunes |
| UDP control, rigctl, frontends | `src/io/control`, `src/app_control` | ask for tunes, publish corrections, restart the stream, edit the channel map |

### Components

| component | state | operations | what makes it correct |
|---|---|---|---|
| tune request ledger, `src/runtime/trunk_tuning_hooks.c` | 64 records, unresolved count, generation | begin, publish, mark_ready, complete, retire, reset, lock-free frame check | a frame is dispatched only if no tune was unresolved and none completed since it was collected; every request is decided once |
| retune requests and completions, `rtl_sdr_fm.cpp` 4402–4660, 5392–5430, 8265–8395 | one queued request, request and completion ids, 256 result slots, timeout gate | schedule, take, apply, publish, signal, wait, time out, cancel | each caller gets the answer of its own request; every token is answered; the gate opens again |
| live reconfigure, `rtl_sdr_fm.cpp` 2058–2316, 3241–3522, 3986–4122, 7815–7888; `rtl_device.cpp` 900–963 | two flags, capture hold, discard generation, pending purge | enter, wait, clear, hold, purge, program, reset, release, open | the controller and a block never overlap; nothing captured or demodulated under the old tuning comes out after |
| output ring, `include/dsd-neo/runtime/ring.h`, `src/runtime/ring.cpp`, `src/io/radio/rtl_stream.cpp` | head, tail, buffer, output generation | write, read, clear, drain, gate | nothing lost or doubled; no handoff across a generation; nothing after a timed-out tune |
| tuning glue, `src/engine/trunk_tuning.c` | tuned frequencies of options and decoder | tune_to_freq, tune_to_cc, return_to_cc, scan tunes | ledger, hardware and decoder state agree |
| engine, `src/engine/engine.c` | no-carrier recovery request | frame dispatch, recovery of a failed gate | frames under the current generation only; a failed gate is recovered |
| channel scan, `src/engine/channel_scan.c` | row, request, retry, needs_commit | step, pending, commit, leave | a committed row is the row the hardware is on |
| trunk scan, `src/engine/trunk_scan.c` | target, dwell, systems | tick, switch, restore | one system owns the receiver at a time |
| trunking state machines, `src/protocol/p25/p25_trunk_sm.c`, `src/protocol/dmr/dmr_trunk_sm.c` | grant, hang time, control channel | grant, tick, release | every voice tune is followed by a return to the control channel |
| corrections, `src/io/radio/rtl_ppm_request.h`, `rtl_sdr_fm.cpp` 1015–1140, 4380–4400 | desired, queued, active and refused correction with identities | publish, schedule, take, refuse, roll back | only a refused correction is taken back; desired and applied agree in the end |
| candidates, watermark, worker pool, call state, UI snapshots, IQ capture | see `PROJECT.json` | | |
| signal processing, error correction, protocol parsing, ciphers, audio, configuration, frontends, drivers, Android, build | | | sequential or numeric; see section 8 |

### How they interact

The decoder opens a request in the ledger, and asks the RTL backend to tune with the
request as a *token*.  The backend queues it for the controller and waits at most 500 ms.
The controller closes the retune gate, waits for the demod thread, empties the output,
holds the capture, purges the input ring, programs the tuner, resets the demodulator, purges
again, opens, drains, publishes the token's result to the ledger by callback and signals the
waiter.  The caller returns with the result, or with a timeout, and then reports what *it*
did to the ledger.  So the backend's and the owner's reports race, and the ledger reconciles
them.  The decoder judges every frame by the ledger, without its lock.

Above the ledger, whoever asked for a tune keeps state of its own and has to keep it in step with
answers that come later: the channel scan its row, settings and keys; the P25 machine its call, with the
options' `trunk_is_tuned`, the watchdog and the frame-sync hooks all able to end it.

### What is hard

Two reports of one request in any order; a late answer to a request that was given up; a
bounded history; a lock-free test against two-step updates; two flags set and read crosswise
by two threads; one flag for two owners; a purge of spans that are already reserved; a
third thread that resets the indices of a lock-free ring; a timeout that must stop a reader
that is anywhere in its pass; a stop while somebody waits for space; a row whose settings change, or that
disappears, while it is being tuned; a call that two threads give up at once, or whose return is refused; a
correction refused after a newer one was published.  `PROJECT.json` lists
each hazard at its line with the properties that cover it, or the reason why none does yet.

## 2. The modules

| module | models | proofs |
|---|---|---|
| `FrameGate` | the abstract promise of the ledger to a frame dispatcher | |
| `TuneGate` | the ledger's gate as one owner of tunes sees it: three operators | |
| `OwnedTunes` | over `TuneGate`, the abstract promise of the ledger to an owner of tunes | |
| `TuneRequests` | the ledger, implements `FrameGate` and `OwnedTunes` | `TuneRequestsProofs`, `OwnedTunesProofs` |
| `TuneQueue` | the abstract promise of the controller: two tagged tunes at most, answered in order | |
| `RetuneController` | queue, controller, completions, timeout gate, soft stop; implements `TuneQueue` | `RetuneControllerProofs` |
| `ReconfigureGate` | capture, demod, controller and decoder around a live reconfigure | `ReconfigureGateProofs` |
| `OutputRing` | writer, reader, clearing controller and timed-out caller of the output ring | `OutputRingProofs` |
| `ChannelScan` | the typed conventional scan over `TuneGate` and its tuner, with the user's commands; keeps `OwnedTunes` | `ChannelScanProofs` |
| `PpmRequests` | publishers, reader and controller of frequency corrections | `PpmRequestsProofs` |
| `P25TrunkSM` | decoder, watchdog and controller around P25 Phase 1 calls, over `TuneGate`; keeps `OwnedTunes` | `P25TrunkSMProofs` |
| `MC…` | constants and symmetry for TLC | |

**TuneRequests.**  One action is one critical section, except where the lock-free observer
can see the middle of one: `finish_success_locked` advances the generation and then lowers
the count, so a success is `AdvanceGeneration` (`generation`, `settling`) followed by
`Settle`; `request_begin` draws its identity before the lock, so it is `BeginId`, then
`BeginSlot` or `BeginRefused`.  The observer makes the four loads of `frame_is_current` as
four actions.  `refused` and `established` are history variables: which requests somebody
reported as failed, and which advanced the generation.  The owner's actions are `Begin…`,
`MarkReady`, `Complete`; the backend's are `PublishOk` and `PublishFailed`, at any time after the
identity exists, any number of times.  Results other than OK and PENDING are one value.

**RetuneController.**  `pending` is the queued request (a set of at most one record);
`Enqueue` is the section under `hop_m`, with coalescing and refusal; `ControllerTake`,
`ControllerApply`, `ControllerPublish`, `ControllerSignal` are the controller's pass,
whose order (publish, then advance the completion id, then open the gate) matters.
`WaitDone`, `WaitShutdown`, `WaitTimeout` are the exits of the caller's loop, under
`retune_done_m`.  The deadline may pass at any time.  `StopBegin` to `StopSignal` are the
steps of `soft_stop`; that its earlier join of the demod thread returns is assumed here (section 5,
`reconfigure_soft_stop`, shows when it does not).

**ReconfigureGate.**  A block is one reservation of the ring; it carries, as history, the
configuration it was captured under and the discard generation when it was reserved and
committed.  The capture callback reserves, compares the generation and commits in three
actions.  The demod thread's pass is `DemodPurge`/`DemodNoPurge`, `DemodPause`,
`DemodWatermark`, `DemodRead`, `DemodEnter`, `DemodStore`, `DemodConfirm`, `DemodPrepare`,
`DemodRecheck`, `DemodSettle`, `DemodProcess`, `DemodOutput`, `DemodWrite`: one load or
store of a shared flag each.  Output is labelled with the configuration at `DemodProcess`, where it is made, and
not where it is written.  The controller's pass is `ControllerBegin` to
`ControllerOpen`, in the order of `controller_apply_reconfigure`.  The demod thread's stores of
`demod_processing_active` are `release`, which does not order a later load: `stored` holds those that have not reached
memory, `Flush` lets the oldest arrive, and read-modify-writes and sequentially consistent stores wait until it is empty
(`Drained`).  `overlooked` is history: the block in hand was announced by a store that had not arrived when a wait for
the demod thread ended.  `FamilySwitcher` lets the decoder thread apply a profile
under the same gate, as it does when rigctl tunes and RTL supplies the audio.

**OutputRing.**  A sample is its number, so what the decoder was given can be compared with what was
written.  Writer: choose how many fit, copy, store `head`.  Reader: from the outside in, the
generation test of the orchestrator, the two looks at the timeout gate and the reader count, the load of
`tail`, the copy, the store of `tail`, and the two rounds of looks afterwards.  The controller
clears with the generation, then `tail`, then `head`, once with the writer out of the way and once, after a
drain that timed out, with everybody running.  `Init` starts with the indices at zero or at the last cell, so
that wraps need few samples.

**ChannelScan.**  One action is one call of the decoder's loop between two points where the controller
can be observed: `TopPending`, `NoCarrierStep`, `RecheckWaiting`, `BeginSearch`, `SyncFound`, `ServiceSync`,
`CheckFrame`, `ProcessFrame`, `NextFrame` are the loop in `engine.c`; `StartRow`, `Commit`, `Settle`,
`Pending`, `Step`, `StepManual`, `Leave` are the functions of `channel_scan.c` with every exit they have, and
`Tune…` the answers of `dsd_engine_scan_tune_to_freq`.  `scan` is the C record; settings, decode mode and keys are
one value `config`.  A `Profile` is a row with the configured settings it does not replace by its own (`OwnSettings`
are the rows that replace all of them).  `receiver` says where the rig and the RTL front end are tuned, which profile RTL
demodulates with, and which it is asked for: `rtl_stream_request_demod_profile` is a mailbox of one, in which the last
request wins and from which the demod thread takes at its next block (`Demodulator`).  Four parts of the program write to it: an
edit for the installed row, the search for sync, the return to the configured settings (`Leave`), and the restore after a tune
that did not succeed (`Restored`).  A landing tune sets the profile itself and leaves the mailbox alone (`Moved`).
`receiver.astray` is history: one of these met another, as section 5 says.  `Edit`, `ScannerToggle`, `ImportMap` and `CycleChannel` are the commands that touch the scan, drained
where the loop drains them.  `inflight` are the tunes whose wait has ended, oldest first: the pending records of the
ledger.  `gate` is what `TuneGate` keeps of the failed ones, and `frame.fresh` says that no boundary has moved since
the frame's search began.

**TuneGate and OwnedTunes.**  Where all tunes of an owner go through one controller, they are answered in the order in
which they were begun.  Of the failed records only the newest then matters: the success that retires it retires them all.  So
the ledger comes down to how many tunes the controller still owns, whether there is such a failure, and how many of the owned
tunes are older than it and cannot retire it; the observers' unlocked loads are the business of `TuneRequests`.  `TuneGate` has the
operators on this summary and `OwnedTunes` the steps it may take.  The summary is joined to the code from both sides: the table of
`TuneRequests` implements it (`GateOfOwnedTunes`), `ChannelScan` and `P25TrunkSM` keep their part of the ledger by it (`LedgerKept`), and
`RetuneController` answers in the order it needs (`AnswersInOrder`, against `TuneQueue`).  In `TuneRequests` a tune is `Awaited`
from its call's return to its answer and a failure `Denied` once its owner knows of it; a success counts from the advance of the
generation, when observers can see it, although its records are lowered in the next step.

**PpmRequests.**  One action per section under a mutex and per access to an atomic.  `User` is
`rtl_stream_request_ppm` on any thread; the reader's nine actions are what `RtlSdrOrchestrator::read` does
before it reads (`sync_requested_ppm_after_failed_apply`, `auto_ppm_maybe_adjust`,
`sync_requested_ppm_to_controller`); the controller's six are take, apply or refuse, note the identity, raise
the flag, clear the active request.  `refused` and `refusals` are history.

**P25TrunkSM.**  `sm` is the context of `p25_trunk_sm.c` (state, call number, voice phase, pending tune,
the acquisition flags), `tuned` the options' `trunk_is_tuned`, `force` the release latch with, as history, the call
it was set for.  What runs under the tick guard is one action (`CcBlock`, `Grant`, `Preempt`, `Regrant`,
`VoiceStart`, `VoiceEnd`, `ExplicitRelease`, the ticks, `NoCarrierReturn`); the release that frame sync asks for takes
only the release lock, and so it and the watchdog's release are `ReleaseEnter`, `ReleaseTune`, `ReleaseClear`, which
may meet.  `Answers` is what a tuning hook may say: done, pending, refused, deferred; a call is deferred while the controller trains its
correction and while a tune is queued that it has not taken.  `TuneLands` and `TuneIsRefused` are late answers.
`silent` holds the clocks by which a hang time has passed without voice: the no-sync hook goes by the monotonic clock, the
grace after a tune and the slots (`dsd_frame_sync.c` 3552–3569), the no-carrier pass by whole seconds of the wall clock
(`engine.c` 1483–1484), and either may be due first.  The tick at the top of the loop is always made, the one in frame
sync once a second at most (`TickMayIdle`).  `deserted` is history: a failed return of the no-carrier pass has cleared
`trunk_is_tuned`.

## 3. Plan and what is left

1. `TuneRequests` with `FrameGate` and `OwnedTunes` — done, safety and both refinements proved.
2. `RetuneController` with `TuneQueue` — done, checked, safety and refinement proved.
3. `ReconfigureGate` — done, checked, safety proved.
4. `OutputRing` — done, checked in one run, safety proved.
5. `ChannelScan` over `TuneGate` — done, checked, with liveness; safety and `OwnedTunes` proved; one finding.
6. `PpmRequests` — done, checked, safety proved.
7. `P25TrunkSM`, Phase 1, over `TuneGate` — done, checked, with liveness; safety and `OwnedTunes` proved; one finding.

Left, in order of worth: the DMR machine (`src/protocol/dmr/dmr_trunk_sm.c`) in the manner of `P25TrunkSM`; the
recovery of a failed gate with the generation it expects and the tuner caches it may find stale (`engine.c` 105–112,
1326–1355, 1740–1830), composed with `TuneRequests`; P25 TDMA slots and encryption lockout; `trunk_scan.c` over
`TuneGate`; the small sequential parts (`trunk_cc_candidates.c`, `input_ring_watermark.cpp`, `worker_pool.cpp`,
`call_state.c`); a composition in which the scan tunes
through `RetuneController` itself instead of through its promise.

## 4. Runs that pass

| run | question | bounds | size |
|---|---|---|---|
| `tune_requests` | ledger: count, identities, single fate, truthful status, refinement of `FrameGate`, the summary of `OwnedTunes` | 2 slots, 2 owners, 1 observer, 3 requests | 117 thousand states |
| `retune_safety` | alignment of ids, truthful returns, gate ahead of completions, tokens conserved | 2 callers, 2 frequencies, 2 result slots, 4 calls, symmetric | 5.2 million |
| `retune_liveness` | the gate opens, tokens are answered | 2 callers, 1 frequency, 3 calls | 175 thousand |
| `reconfigure_gate` | exclusion, purge, output, termination, shutdown | 2 input blocks, 1 output block, 2 reconfigures, any number of delayed stores | 1.1 million |
| `reconfigure_shared` | no gate without an owner, with a second switcher | the same, 1 reconfigure | 1.9 million |
| `output_ring` | exact delivery, generations, the timeout gate, completeness | 3 cells, batches of 2, 3 samples, 1 reconfigure | 2.5 million |
| `channel_scan` | decoder and receiver on one row and one profile, frames of one profile, good rows served | 4 rows (1 parked, 2 that can fail, 1 that only fails, 1 with its own settings), 3 commands or failures, 1 change of the map | 1.1 million |
| `ppm_requests` | only a refused correction is taken back, no endless retry, agreement in the end | corrections -1 to 1, 3 publications, 4 refusals | 361 thousand |
| `p25_trunk` | frames match the call, one return per call, calls end unless deserted, control channel regained | 2 calls, 1 refusal, 1 loss of the control channel, 2 clocks | 318 thousand |

Why the bounds are enough.  *Ledger*: two slots and three requests exhaust the history, so
that slots are reused in every state, a gated failure is evicted and its gate inherited, and a
late answer meets a slot that is somebody else's; an observer needs to see only one change under its four
loads.  *Controller*: four calls over two slots overwrite a result before its waiter
looks; two callers and the UDP thread coalesce, refuse and time out in every order.
*Reconfigure*: a second reconfigure meets blocks captured, reserved and demodulated under the
first; a store may be delayed for as long as the demod thread needs no read-modify-write; one output block makes the demod thread wait for space; two input blocks leave one
queued behind a reserved one.  *Ring*: three cells hold two samples, so a batch fills the ring; with indices that start at
either end, both wrap within three samples, with and without a split copy, before, during and after the clears.
*Scan*: with rows that always fail, sometimes fail, never fail and do not exist, the retry gate is met with every
neighbour; two upsets are an edit and its reversal, and the mailbox may keep a request over any number of steps; three edit a row while it is being tuned, again while it is retried, and fail the retry's allocation;
an import drops the row that waits, and a frame that teaches the map a frequency comes before the next one.  Four identities
are as many as one scan request, two tunes in the controller and a new one need; five in `P25TrunkSM`, where a release
remembers one more.  *Corrections*: the third publication meets one that is queued and one that is active;
four refusals let each identity be refused twice.  *P25*: a second call is what a latch, a late answer or a
late frame of the first can damage; one refusal makes a release come back, one loss makes the machine hunt.

Symmetry is used only in `retune_safety`, which has no temporal property; callers and
frequencies are compared for equality only.

`CHECK_DEADLOCK FALSE` is set where the program really may stop: a stream that has been
stopped or has used its calls, samples and reconfigures takes no further step (`retune_…`, `reconfigure_…`,
`output_ring`).  The ledger, the scan, the corrections and the P25 machine are checked for deadlock: none of them ever
blocks for good.

### Fairness

* `RetuneController`: weak fairness of the controller thread and of the steps of a stop, whose
  waits are condition variables that are signalled or joins that end; and of beginning a stop
  once the exit flag is raised, because the engine then tears the stream down.  Nothing is
  assumed of the callers: nobody is forced to tune, to wait or to raise the flag.
* `ReconfigureGate`: weak fairness of the demod thread, of a reconfigure that has begun, of
  store buffers and of a join whose thread has ended.  All of their waits are polled (1, 5 or
  10 ms).  Nothing is assumed of the capture or *of the decoder's reading*: a reconfigure must
  end even when nobody takes output away.
* `OutputRing`: weak fairness of the reader and of a write that has begun.  Its reads are
  polled every 10 ms, which is why the wake-ups of the condition variable are not modelled.
  `AllDelivered` says that, unless a reconfigure has cleared the ring, everything written is delivered again and again.
* `ChannelScan`: weak fairness of the decoder's loop and of the controller; strong fairness of `SyncLost` (a carrier
  pauses) and of `NoCarrierStep` (a hang time runs out, and the operator's hold on a row, which the scan respects, is not
  kept for ever).
* `PpmRequests`: weak fairness of the reading thread and of the controller.  Refusals are bounded, because a device that
  accepts and refuses in turn could keep an automatic correction going for ever.
* `P25TrunkSM`: weak fairness of decoder, watchdog and controller; strong fairness of the watchdog's release (a call does not
  go on for ever and its deadline is noticed), of noticing a long silence by the monotonic clock, of finding sync, of a control block among the
  frames, and of noticing, with the receiver elsewhere, that the control channel is not heard.  Calls are bounded, so
  that `[]<>` says the same as leads-to.

## 5. Runs that find a violation

Each checks one sentence that the repository says of the program and that the code does not keep.

* `channel_scan_dual` — "A rigctl leg may have moved before RTL failed. Completion disagreement retains the
  frame gate until the scanner establishes a new boundary" (`src/engine/trunk_tuning.c:786`).  The disagreement is
  arranged by publishing OK for the rig (789), but the controller has published FAILED for the same request before its tune
  returned (`rtl_sdr_fm.cpp:4580`), the ledger keeps the first report, and the owner's FAILED then agrees with it: the
  request is rolled back, the gate opens, the rig is on the new row and the RTL front end on the old.
* `p25_stale_force` — the latch is a "one-shot flag to force immediate return-to-CC on
  physical/policy release; cleared by the SM after handling" (`include/dsd-neo/core/state.h:1250`).  A return that is
  refused raises it again (`p25_trunk_sm.c:4674`).  If the loop's no-carrier pass then ends the call by its
  own helper, the latch stays up; so it does when the no-sync hook raises it while the watchdog is inside its release of the same
  call, because the hook then finds the release lock taken (4877), and this is the trace TLC prints.  A grant in the 200 or 400 ms before
  the next tick is followed, and that tick tears the new call down.
* `reconfigure_soft_stop` — soft stop "requests threads to exit via should_exit, stops async I/O, joins
  threads" (`rtl_sdr_fm.cpp:6844`).  The wait for output space looks at the exit flag and the retune gate
  only, so with a full output and its reader inside `soft_stop`, which is where a restart from the menu runs,
  the join waits for ever.  `ExitJoins` shows that the exit flag, or a retune, would end it.

Six smaller disagreements have no run of their own.  Three of them are why a passing property names an exception; each
exception is needed, and the property without it is refuted by TLC on the constants of its run.

* *A wait can overlook a block.*  "The controller waits for the current demod block to finish" (`rtl_sdr_fm.cpp:264`), but the
  demod thread announces a block by a `release` store and then looks at the gate by an `acquire` load (2063–2064), which
  an x86 build too may take in the other order; the controller sees no block, the demod thread no gate.  Without
  `overlooked`, `IdleMeansIdle`, `PurgedNeverDemodulated` and `OutputOfThisTuning` do not hold.  The looks after the block
  is prepared make the window short.  What the properties say is that there is no other gap: a block that was announced in time is kept apart
  wherever the two threads are, and one overlooked block is not the start of a second.
* *RTL can demodulate a committed row with another profile.*  The commit compares the settings by value with the ones the row was
  prepared with (`channel_scan.c:91`) and asks for nothing.  (1) A tune has landed and is not committed; an edit asks for the
  profile of the installed, outgoing row (`app_command_queue.c` 5166–5169), a second edit undoes the first, and the commit finds nothing
  changed.  (2) An edit or the search for sync asks for a profile, a tune lands before the demod thread has taken it, and the request is then applied on
  top of the landed one.  (3) An edit asks for a profile and a tune without success restores the one RTL had before
  (`trunk_tuning.c` 280–304), in place of the request that was not taken yet.  `receiver.astray` marks these three and no other; a
  landing that finds no request for another profile in the mailbox clears it.  Removing any one of them from the definition
  of `astray` makes `ProfileMatchesReceiver` fail.  Where the receiver is *tuned* is never wrong: that part of the
  property has no exception.
* *A call can be left TUNED.*  When the wall clock passes the hang time first, the no-carrier pass finds its return due with
  the latch never raised; if that return is answered FAILED, the options say not tuned, the machine says TUNED, and the no-sync hook,
  which asks the options, does nothing.  While voice was active no deadline of a tick ends the call either: `[]<>(sm.state # "TUNED")`
  does not hold, and `VisitEnds` says that this (`Deserted`) is the only way to stay.  A frame, or a latch, ends it.

The other three: with `FamilySwitcher = TRUE`, `GateCoversReset`
and the three properties of the first point fail: the gate is "cleared to 0 after reset complete" (`rtl_sdr_fm.cpp:262`), but the decoder thread that closed it
first opens it when it leaves, although the controller has set the same flag meanwhile; `reconfigure_shared` checks
what still holds then.  The discard generation "lets producer callbacks detect a purge that happened after they
reserved ring space but before they committed it" (`include/dsd-neo/runtime/input_ring.h:69`), except one between
comparison and commit; the second purge is what protects the output.  And a reader between its copy and its store of `tail`
restores a tail of before a clear (`rtl_sdr_fm.cpp:10102`); the generation protects the read under way, not the ring it leaves behind.

## 6. What is proved

`tlapm` checks every theorem below for all values of the constants.

**TuneRequestsProofs**, from `HistoryAssumption` and `BoundAssumption` alone.  The
invariants TLC checks are not inductive as they stand: that the count is exact needs to know that a
slot is never taken from a pending request and that a decided request is never decided again.
`IInv` says that every request has *one identity, one record and one fate*: identities in
use are distinct and drawn from the counter (`IdsDistinct`, `IdsDrawn`, `FreshIds`), a pending
record is undecided unless its success is half done (`FateOf`, `SettlingPending`), every other
record tells who decided it, and the count is that of the pending and gated records.
`Invariance` proves it step by step; `TypeCorrect`, `CountExact`, `OneRecordPerRequest` and `StatusSound`
follow; `NeverResurrected` proves the action property that only an undecided request advances
the generation; `TableImplementsGate` proves the refinement: each action maps to a
step of `FrameGate` or a stutter, the four loads of the observer being justified because the generation
advances only while the count is above zero, so that a frame whose generation is unchanged after the
count was read as zero was current at that reading.

**OwnedTunesProofs**, from the same assumptions.  `GateOf` reads the summary off the awaited and the denied records; a first group of
lemmas says what each kind of change to the two sets does to it, by counting (`KeptLast`, `GatedLast`, …).  `ReadyHasReturned`: a pending
record is ready only once its owner's call has returned, so an answer that settles it is not about a call that is still
running.  `TableKeepsOwnedTunes` is the action property `GateOfOwnedTunes`, for every table and any number of owners: a step under
`InOrder` is a step of `OwnedTunes` or a stutter, and the gate opens only by a success newer than the failures, by the
retirement of failures nobody owns, or by the reset.  `InOrder` has three parts, each a fact about the surroundings: answers come oldest first
(`RetuneController` proves it); a call that returns is about the newest tune (one owner, or owners that take turns); and a failure loses
its slot only while a newer one stays (the table has 64 slots for the two or three tunes an owner can have).  The run has
two slots and two owners, and so takes steps inside and outside of `InOrder`.  `SoleOwnerImplements` removes the last two
for an owner that has the tuner to itself and room in the table: then, while answers come in order, `Spec` implements `OwnedTunes`.

**RetuneControllerProofs**, from `SlotsAssumption` and `CallsAssumption`.  Each part of `IInv` says where
something is kept.  `QueueInv`: each of the queue, the controller and the stopper holds at most one
request, the stopper holds one only when the queue is closed and completes it only when the controller has
ended; with that, identities are aligned by counting.  `GateInv`: an identity somebody waits for has been
given out, so a timeout never installs a gate that nothing will open.  `OutcomeInv`: the record of outcomes
runs ahead of the completions by the one that is decided and not yet signalled, and a slot of the result
table holds the newest completed identity that belongs there.  `CallerInv` locates the request of each
waiting caller with a token — queued, being applied, detached, or decided at its own identity — and says that
what a caller was told is true.  `TokenInv`: tokens of undecided requests differ from each other and from the
recorded ones, and what is published is the record up to the outcome the controller has still to publish.
The size of the result table matters in one place: two identities of one slot are at least
`ResultSlots` apart (`SlotDistance`), so a slot that was overwritten proves that the caller came too late.
`Invariance` proves the parts; `TypeCorrect`, `IdsAlignedAlways`, `GateAheadAlways`, `TruthfulReturnAlways` and
`TokensConservedAlways` follow: every safety invariant of the run.  `ControllerAnswersInOrder` is the refinement of `TuneQueue`: what is held is
the tagged tune the controller is serving, then the one that is queued or that a stop has detached, and every step accepts a
tune behind them, answers the first of them, or changes neither list.

**ReconfigureGateProofs** has three parts, none of which assumes an order of the demod thread's stores.  The first needs the named
assumptions of the module and `~FamilySwitcher`, which is stated in each theorem: with a second switcher the statements are false
(section 5).  `IInv` has four parts.  `Shape` is the part of the type invariant the steps need.  `GateInv`
is the two-flag argument: the gate is closed exactly while a reconfigure is under way; the last of the demod thread's stores, whether
in memory or on its way, says whether it is inside a block; and so a controller that has seen the flag down, with the gate
closed, meets no block but one whose announcement was on its way, which is what `overlooked` records.  `PurgeInv` follows a purge: a block committed before the latest discard generation is
still in the ring, or still in hand, only while the purge is due.  `OutputInv`: from the clear to the opening
the output is empty, and what the demod thread has made and not yet written is of the current configuration.  `Invariance` proves it;
`GateExcludes`, `PurgeReachesEveryBlock` and `OutputIsCurrent` follow.  `GateStaysClosed` stands between the parts: that the gate
covers the reset only needs that nobody else opens it (`SoleOwner`).
The third part holds with the second switcher too.  `GateHasOwnerAlways`: a gate that is closed has somebody under way who opens it, because only a decoder
inside a profile has armed it (`OwnerInv`).  `TypeCorrect`: the rings never exceed their capacities, because each has one producer,
which has seen room and loses it to nobody (`RoomInv`).  The bounds `RingBlocks`, `OutputBlocks` and `MaxReconfigures` are
arbitrary, so the results hold for rings of any size and any number of reconfigures.

**PpmRequestsProofs**, from `PpmAssumption` alone.  Identities only grow, and each comes from a
publication or from a refusal taken back (`Counted`), so a refused identity is never given out again (`Ordered`:
queued and active requests are no newer than the desired one).  `RefusalKnown` says that the identity the reader compares with
belongs to a request the device has refused.  `TriedTwice` follows a refused request that is still desired: after its second refusal the
reader has met the failure or is about to.  `Invariance` proves them together; `TypeCorrect`,
`RefusedAtMostTwiceAlways` and `OnlyRefusedTakenBackAlways` follow.

**OutputRingProofs**, from `CapacityAssumption` and `BoundsAssumption`, for any capacity, batch and number of samples and
reconfigures.  The first argument is about generations.  `Fits` bounds what is in hand by what the ring can hold, whatever a
clear has done to the indices meanwhile; `Aged` and `Outdated` say that a generation older than the current one means the
ring was cleared since.  `HandoffsInOneGeneration` follows, and `SilentAfterTimeout`: it rests on the generation that the
timed-out caller advances under the gate, not on the wait for the active reader.  The second argument holds until the
first clear.  `Placed` says that nobody has interfered (`Quiet`, `Undisturbed`) and that every sample written and not yet
delivered is in the cell where the reader will look for it (`InPlace`); the arithmetic of wrapped indices is in lemmas of its
own.  `NothingLostAlways` follows from it, and `TypeCorrect` from the first.

**P25TrunkSMProofs**, from `P25Assumption`.  The first argument does not look at what tunes answer.  One thread holds the
release lock (`LockHeldOnce`), and a call stays up while somebody is about to return from it, because nobody else ends it
without the lock or the tick guard and the options say tuned only of a call the machine follows (`CallIsKnown`):
`ReturnEndsAVisitAlways`.  The second follows the receiver.  `Heads(u, c)` says that the newest tune under way goes to channel `c`, or,
with none under way, that the receiver is on `c` or the gate is shut.  `Follows` says that while a call is up, and nobody clears it
after its return, the receiver heads for the call's channel, and that a fresh frame is from where the receiver is.
`ReceiverFollows` proves it for every answer in every order; `TypeCorrect` and `FrameMatchesStateAlways` follow, because a frame is
handled only with no tune under way and the gate open.  `MachineKeepsLedger` proves `LedgerKept`: whichever thread tunes, and whatever
it is told, the tunes under way and the gate change as `OwnedTunes` allows.

**ChannelScanProofs**, from `ScanAssumption`, for any list of rows and any number of commands and changes of the map.
`WaitsForNewest`: while the scan waits and a tune is under way, the newest tune is the scan's, to its row, under the configuration it
prepared.  `TunesAreOwned`: with a row installed, a tune under way is the scan's and the only one; tunes of a scan that was left
have been answered before another row is installed.  `WaitingIsCurrent`: a row that waits is never obsolete, because whatever
outdates a row drops it first.  `ReceiverIsKnown`: the RTL receiver is tuned to the row that waits for its commit, else to the installed row; and unless a
request went astray, what it demodulates with, once it has taken what it is asked for (`Front`), is that row's profile with the configuration
prepared for it, or with the one in use if the same row is tuned again; a rigctl receiver beside it may be elsewhere.  That the tuning needs no exception
and the profile does is visible in the proof: a landing is the only step that moves the former, and four kinds of step write the
mailbox (`AskedIs`, `RestoredIs`, `MovedIs` and `DemodulatorIsSound` say what each does to it).  `FrameIsKnown` follows a
frame from its search to its use.  `Invariance` proves them together; `TypeCorrect`, `FrameOfThisProfileAlways`,
`RtlMatchesProfileAlways` (the RTL receiver is on the row whose profile a frame is processed with, rigctl or not, and demodulates with that profile unless a request went astray) and, for a single
receiver, `ProfileMatchesReceiverAlways` follow: every safety invariant of the run.  With two receivers the last is not proved;
section 5 shows what is wrong there.  `ScanKeepsLedger` proves `LedgerKept`, with one receiver or two.

## 7. What is only model-checked

Liveness (`GateOpens`, `TokensAnswered`, `ReconfigureEnds`, `ExitJoins`, `AllDelivered`, `GoodRowsServed`, `Converges`,
`VisitEnds`, `CcRegained`): the proof system does not handle fairness here.

`LedgerKept`, `AnswersInOrder`, `ReadyReturned` and `RtlMatchesProfile` are the other way round: they were checked by TLC on the constants of the
runs and are proved for all constants, so no run lists them.

What no tool joins: that the table's owner in `TuneRequests` and the callers in `ChannelScan` and `P25TrunkSM` are the same code.  Each of the
three implements `OwnedTunes`; that their compositions do is an argument on paper.  The P25 machine tunes from two threads, under the tick guard
or the release lock, so of the two theorems about the table it is `TableKeepsOwnedTunes` that speaks for it, while calls return in
the order they began.

## 8. What is not modelled

Inside the modelled components:

* *Live reconfigure and controller*: the frequency-list hop, which goes through the same reconfigure; muting by byte count; replay, whose
  boundaries wait for the demod thread instead of cutting; cold start; adaptive watermark pauses; 32-bit wrap of
  request ids and generations, which takes more retunes than a device makes in its life.
* *ChannelScan*: the hunt through profiles during a search is a repeated request for the profile in use.  A failed tune of a single RTL front end leaves the receiver where it was.  A deferral by an idle
  controller is counted as an upset.  Of gated requests only the newest is kept, because the others cannot matter to the
  gate.  The untyped scan of plain frequency lists, the voice gate and the timing of visits are left out; the scan is free to stay or go.
* *PpmRequests*: the estimator of the automatic correction is any value; a tune that is applied beside a correction is
  left out; the three stores that clear the active request are one step.  Publishers may run on any thread,
  as `include/dsd-neo/io/rtl_stream_c.h` 151–158 promises, though today's callers all run on the decoder's.  The value a
  rollback restores is loaded before the identity (`rtl_sdr_fm.cpp:1107`) and can be an older one; `Converges` shows that
  this heals.
* *P25TrunkSM*: one slot; no TDMA, encryption lockout, CQPSK retries and reacquisition holds.  The state IDLE, before a
  system is known, is left out, and so is `P25_SM_EV_CC_SYNC`, which nothing but tests sends.  Deadlines may pass at any tick.
* Engine: the recovery request of a failed gate, the DMR and EDACS returns; trunk scan, control channel candidates, watermark, worker
  pool, call state, UI snapshots, IQ capture: planned (section 3) or listed in `PROJECT.json`.

Whole components: signal processing, frame synchronisation, error correction, protocol parsing, ciphers, audio, configuration are
numeric or sequential functions of their input, which the repository's tests exercise directly.
Frontends, drivers, sockets, files, Android, build are input and output around the core, over interfaces that
are not in the repository.
