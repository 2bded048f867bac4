----------------------------- MODULE OutputRing -----------------------------
(***************************************************************************)
(* The ring between the demod thread and the decoder, the clears that the  *)
(* controller thread makes on it, and the gate that a timed-out tune puts  *)
(* on its reader (src/upstream/dsd-neo/include/dsd-neo/runtime/ring.h and  *)
(* src/upstream/dsd-neo/src/io/radio/rtl_sdr_fm.cpp).                      *)
(*                                                                         *)
(* The ring has one writer and one reader and no lock: the writer owns     *)
(* head, the reader owns tail.  A clear is made by a third thread and      *)
(* stores both.  What the reader copied is handed on only if the output    *)
(* generation is the one it started from and no gate has been installed.   *)
(*                                                                         *)
(* A sample is its number; what the decoder was given is history.  A chunk  *)
(* is copied in one step, replay and shutdown are left out, generations do *)
(* not wrap.  That the demod thread is out of the way once                 *)
(* retune_in_progress is set and the wait is over is what ReconfigureGate  *)
(* shows.                                                                  *)
(***************************************************************************)
EXTENDS Naturals, Sequences

CONSTANTS
  Capacity,    \* cells of the ring; one stays free
  MaxBatch,    \* bound: samples in one write or one read
  MaxSamples,  \* bound: samples written in one behaviour
  MaxRetunes   \* bound: reconfigures in one behaviour

ASSUME CapacityAssumption == Capacity \in Nat \ {0, 1}
ASSUME BoundsAssumption ==
  MaxBatch \in Nat \ {0} /\ MaxSamples \in Nat /\ MaxRetunes \in Nat

VARIABLES
  head,        \* next cell the writer fills
  tail,        \* next cell the reader takes
  cell,        \* the buffer
  written,     \* samples written so far
  writer,      \* the demod thread in demod_write_output_samples_interruptible
  generation,  \* g_rtl_output_generation
  timeout,     \* whether timeout_gate_request_id is set
  active,      \* live_output_read_active
  reader,      \* the decoder thread in RtlSdrOrchestrator::read
  closed,      \* retune_in_progress, as the writer sees it
  controller,  \* the controller thread in a retune
  caller,      \* a caller of tune in controller_gate_tune_timeout
  delivered    \* history: samples the decoder was given

ring == <<head, tail, cell>>
vars == <<head, tail, cell, written, writer, generation, timeout, active, reader,
          closed, controller, caller, delivered>>

Cells == 0 .. Capacity - 1
Samples == 0 .. MaxSamples
Unwritten == 0

TypeOK ==
  /\ head \in Cells /\ tail \in Cells
  /\ cell \in [Cells -> Samples]
  /\ written \in 0 .. MaxSamples
  /\ writer \in [pc : {"idle", "copy", "store"}, count : 0 .. MaxBatch, next : Cells]
  /\ generation \in Nat /\ timeout \in BOOLEAN /\ active \in BOOLEAN
  /\ reader \in [pc : {"start", "look", "join", "before", "gate", "tail", "copy", "store",
                       "after", "leave", "recheck", "handoff"},
                 started : Nat, before : Nat, copied : Nat,
                 tail : Cells, got : Seq(Samples)]
  /\ closed \in BOOLEAN
  /\ controller \in [pc : {"idle", "wait", "bump", "tail", "head", "open", "drain",
                           "advance", "signal"},
                     draining : BOOLEAN, retunes : 0 .. MaxRetunes]
  /\ caller \in {"idle", "bump", "wait", "returned"}
  /\ delivered \in Seq(Nat)

(* The ring is empty, as it was set up or with the indices about to wrap;   *)
(* between two reads the reader keeps nothing.                             *)
NoRead == [pc |-> "start", started |-> 0, before |-> 0, copied |-> 0, tail |-> 0, got |-> << >>]

Init ==
  /\ head \in {0, Capacity - 1} /\ tail = head
  /\ cell = [i \in Cells |-> Unwritten]
  /\ written = 0
  /\ writer = [pc |-> "idle", count |-> 0, next |-> 0]
  /\ generation = 0 /\ timeout = FALSE /\ active = FALSE
  /\ reader = NoRead
  /\ closed = FALSE
  /\ controller = [pc |-> "idle", draining |-> FALSE, retunes |-> 0]
  /\ caller = "idle"
  /\ delivered = << >>

(* Faulty variant: an index that has reached the end is not wrapped. *)
WrapLate(i) == IF i > Capacity THEN i - Capacity ELSE i

(* An index moves by at most the capacity, and starts over at the end. *)
Wrap(i) == IF i >= Capacity THEN i - Capacity ELSE i

(* ring_used *)
Used == IF head >= tail THEN head - tail ELSE Capacity - tail + head

(* Faulty variant: no cell is kept free, so a full ring looks empty. *)
FreeAll == Capacity - Used

(* ring_free *)
Free == (Capacity - 1) - Used

-----------------------------------------------------------------------------
(* demod_write_output_samples_interruptible and demod_copy_output_chunk.    *)

OthersOfWriter == <<tail, generation, timeout, active, reader, closed, controller, caller,
                    delivered>>

WriteLook ==
  /\ writer.pc = "idle" /\ ~ closed
  /\ \E n \in 1 .. MaxBatch :
       /\ n <= Free /\ written + n <= MaxSamples
       /\ writer' = [writer EXCEPT !.pc = "copy", !.count = n]
  /\ UNCHANGED <<head, cell, written, OthersOfWriter>>

WriteCopy ==
  /\ writer.pc = "copy"
  /\ cell' = [i \in Cells |->
       IF \E k \in 1 .. writer.count : i = Wrap(head + k - 1)
       THEN LET k == CHOOSE k \in 1 .. writer.count : i = Wrap(head + k - 1)
            IN written + k
       ELSE cell[i]]
  /\ written' = written + writer.count
  /\ writer' = [writer EXCEPT !.pc = "store", !.next = Wrap(head + writer.count)]
  /\ UNCHANGED <<head, OthersOfWriter>>

WriteStore ==
  /\ writer.pc = "store"
  /\ head' = writer.next
  /\ writer' = [pc |-> "idle", count |-> 0, next |-> 0]
  /\ UNCHANGED <<cell, written, OthersOfWriter>>

-----------------------------------------------------------------------------
(* RtlSdrOrchestrator::read, rtl_stream_read_live_samples,                  *)
(* rtl_stream_read_live_available and ring_read_available, from the outside *)
(* in.                                                                     *)

OthersOfReader == <<head, cell, written, writer, generation, timeout, closed, controller,
                    caller>>

ReadStart ==
  /\ reader.pc = "start"
  /\ reader' = [reader EXCEPT !.pc = "look", !.started = generation]
  /\ UNCHANGED <<tail, active, delivered, OthersOfReader>>

(* A reader that finds the gate waits for it and looks again. *)
ReadLook ==
  /\ reader.pc = "look" /\ ~ timeout
  /\ reader' = [reader EXCEPT !.pc = "join"]
  /\ UNCHANGED <<tail, active, delivered, OthersOfReader>>

ReadJoin ==
  /\ reader.pc = "join"
  /\ active' = TRUE
  /\ reader' = [reader EXCEPT !.pc = "before"]
  /\ UNCHANGED <<tail, delivered, OthersOfReader>>

ReadBefore ==
  /\ reader.pc = "before"
  /\ reader' = [reader EXCEPT !.pc = "gate", !.before = generation]
  /\ UNCHANGED <<tail, active, delivered, OthersOfReader>>

ReadGate ==
  /\ reader.pc = "gate"
  /\ reader' = [reader EXCEPT !.pc = IF timeout THEN "after" ELSE "tail"]
  /\ UNCHANGED <<tail, active, delivered, OthersOfReader>>

ReadTail ==
  /\ reader.pc = "tail"
  /\ reader' = [reader EXCEPT !.pc = "copy", !.tail = tail]
  /\ UNCHANGED <<tail, active, delivered, OthersOfReader>>

(* Cells from the tail it loaded to the head it loads now. *)
Available == IF head >= reader.tail THEN head - reader.tail
                                    ELSE Capacity - reader.tail + head

ReadCopy ==
  /\ reader.pc = "copy"
  /\ \E n \in 0 .. MaxBatch :
       /\ n <= Available /\ (n = 0 => Available = 0)
       /\ reader' = [reader EXCEPT
            !.pc = IF n = 0 THEN "after" ELSE "store",
            !.got = [k \in 1 .. n |-> cell[Wrap(reader.tail + k - 1)]],
            !.copied = generation]
  /\ UNCHANGED <<tail, active, delivered, OthersOfReader>>

ReadStore ==
  /\ reader.pc = "store"
  /\ tail' = Wrap(reader.tail + Len(reader.got))
  /\ reader' = [reader EXCEPT !.pc = "after", !.tail = 0]
  /\ UNCHANGED <<active, delivered, OthersOfReader>>

(* The generation and the gate are two loads; a change between them is      *)
(* caught by the looks that follow.                                        *)
ReadAfter ==
  /\ reader.pc = "after"
  /\ reader' = [reader EXCEPT !.pc = "leave",
                              !.got = IF timeout \/ generation # reader.before
                                      THEN << >> ELSE reader.got]
  /\ UNCHANGED <<tail, active, delivered, OthersOfReader>>

ReadLeave ==
  /\ reader.pc = "leave"
  /\ active' = FALSE
  /\ reader' = [reader EXCEPT !.pc = "recheck"]
  /\ UNCHANGED <<tail, delivered, OthersOfReader>>

(* Of an empty-handed pass nothing but the generation it began with stays. *)
ReadRecheck ==
  /\ reader.pc = "recheck"
  /\ IF reader.got = << >> \/ timeout \/ generation # reader.before
     THEN reader' = [NoRead EXCEPT !.pc = "look", !.started = reader.started]
     ELSE reader' = [reader EXCEPT !.pc = "handoff"]
  /\ UNCHANGED <<tail, active, delivered, OthersOfReader>>

Restart == reader' = NoRead

(* Faulty variant: the orchestrator does not look at the generation again. *)
ReadHandoffUnchecked ==
  /\ reader.pc = "handoff"
  /\ delivered' = delivered \o reader.got
  /\ Restart
  /\ UNCHANGED <<tail, active, OthersOfReader>>

ReadHandoff ==
  /\ reader.pc = "handoff"
  /\ delivered' = IF generation = reader.started
                  THEN delivered \o reader.got
                  ELSE delivered
  /\ Restart
  /\ UNCHANGED <<tail, active, OthersOfReader>>

-----------------------------------------------------------------------------
(* The controller thread: the clear of controller_enter_reconfigure_gate    *)
(* while the writer is out of the way, then drain_output_on_retune after   *)
(* the gate has opened, then the completion that opens the timeout gate.   *)

OthersOfController == <<cell, written, writer, active, reader, caller, delivered>>

Advance(from, to) ==
  /\ controller.pc = from
  /\ controller' = [controller EXCEPT !.pc = to]
  /\ UNCHANGED OthersOfController

ControllerBegin ==
  /\ controller.pc = "idle" /\ controller.retunes < MaxRetunes
  /\ controller' = [pc |-> "wait", draining |-> FALSE, retunes |-> controller.retunes + 1]
  /\ closed' = TRUE
  /\ UNCHANGED <<head, tail, generation, timeout, OthersOfController>>

ControllerWait ==
  /\ writer.pc = "idle"
  /\ Advance("wait", "bump")
  /\ UNCHANGED <<head, tail, generation, timeout, closed>>

(* rtl_stream_clear_output_ring: the generation, then ring_clear. *)
ClearBump ==
  /\ Advance("bump", "tail")
  /\ generation' = generation + 1
  /\ UNCHANGED <<head, tail, timeout, closed>>

ClearTail ==
  /\ Advance("tail", "head")
  /\ tail' = 0
  /\ UNCHANGED <<head, generation, timeout, closed>>

ClearHead ==
  /\ Advance("head", IF controller.draining THEN "signal" ELSE "open")
  /\ head' = 0
  /\ UNCHANGED <<tail, generation, timeout, closed>>

ControllerOpen ==
  /\ Advance("open", "drain")
  /\ closed' = FALSE
  /\ UNCHANGED <<head, tail, generation, timeout>>

Drained ==
  /\ Used = 0
  /\ Advance("drain", "advance")
  /\ UNCHANGED <<head, tail, generation, timeout, closed>>

(* The drain timed out, or the configuration asks for a clear at once. *)
DrainTimeout ==
  /\ controller.pc = "drain"
  /\ controller' = [controller EXCEPT !.pc = "bump", !.draining = TRUE]
  /\ UNCHANGED <<head, tail, generation, timeout, closed, OthersOfController>>

DrainBump ==
  /\ Advance("advance", "signal")
  /\ generation' = generation + 1
  /\ UNCHANGED <<head, tail, timeout, closed>>

(* A caller that installs the gate holds retune_done_m until it returns. *)
ControllerSignal ==
  /\ caller \notin {"bump", "wait"}
  /\ Advance("signal", "idle")
  /\ timeout' = FALSE
  /\ UNCHANGED <<head, tail, generation, closed>>

ControllerStep ==
  \/ ControllerBegin \/ ControllerWait \/ ClearBump \/ ClearTail \/ ClearHead
  \/ ControllerOpen \/ Drained \/ DrainTimeout \/ DrainBump \/ ControllerSignal

-----------------------------------------------------------------------------
(* controller_gate_tune_timeout, in a caller whose request is not complete. *)

OthersOfCaller == <<ring, written, writer, active, reader, closed, controller,
                    delivered>>

TimeoutGate ==
  /\ caller \in {"idle", "returned"} /\ controller.pc # "idle" /\ ~ timeout
  /\ timeout' = TRUE
  /\ caller' = "bump"
  /\ UNCHANGED <<generation, OthersOfCaller>>

(* Faulty variant: installing the gate does not advance the generation. *)
TimeoutKeepGeneration ==
  /\ caller = "bump"
  /\ caller' = "wait"
  /\ UNCHANGED <<generation, timeout, OthersOfCaller>>

TimeoutBump ==
  /\ caller = "bump"
  /\ generation' = generation + 1
  /\ caller' = "wait"
  /\ UNCHANGED <<timeout, OthersOfCaller>>

TimeoutWait ==
  /\ caller = "wait" /\ ~ active
  /\ caller' = "returned"
  /\ UNCHANGED <<generation, timeout, OthersOfCaller>>

WriterStep == WriteLook \/ WriteCopy \/ WriteStore
ReaderStep ==
  \/ ReadStart \/ ReadLook \/ ReadJoin \/ ReadBefore \/ ReadGate \/ ReadTail \/ ReadCopy
  \/ ReadStore \/ ReadAfter \/ ReadLeave \/ ReadRecheck \/ ReadHandoff
CallerStep == TimeoutGate \/ TimeoutBump \/ TimeoutWait

Next == WriterStep \/ ReaderStep \/ ControllerStep \/ CallerStep

Spec == Init /\ [][Next]_vars

(* The threads run; that there are samples to write is not assumed. *)
FairSpec == Spec /\ WF_vars(ReaderStep) /\ WF_vars(WriteCopy \/ WriteStore)

-----------------------------------------------------------------------------
(* What lies between tail and head, and what the reader has taken out. *)
Queued == [k \in 1 .. Used |-> cell[Wrap(tail + k - 1)]]
Taken == IF reader.pc \in {"after", "leave", "recheck", "handoff"}
         THEN reader.got ELSE << >>

(* ring.h, one writer and one reader and no lock: as long as nobody has     *)
(* cleared the ring, what was delivered, what is being delivered and what   *)
(* is queued are together the samples written, in order, none lost and     *)
(* none twice.                                                             *)
NothingLost ==
  controller.retunes = 0 =>
    LET all == delivered \o Taken \o Queued
    IN /\ all = [k \in 1 .. Len(all) |-> k]
       /\ written = Len(all) + (IF writer.pc = "store" THEN writer.count ELSE 0)

(* ... and every sample written is delivered in the end (their number is    *)
(* bounded: there is a last one).                                          *)
AllDelivered == []<>(controller.retunes > 0 \/ Len(delivered) = written)

(* RtlSdrOrchestrator::read: no sample is handed on whose copy and handoff  *)
(* lie on two sides of an advance of the output generation.                *)
HandoffInOneGeneration ==
  [][delivered' # delivered => reader.copied = generation]_vars

(* controller_gate_tune_timeout: once a timed-out tune has returned, the    *)
(* decoder gets nothing until the request completes, although the reader   *)
(* may have been anywhere in its pass when the gate was installed.         *)
NothingAfterTimeout ==
  [][timeout /\ caller = "returned" => delivered' = delivered]_vars

=============================================================================
