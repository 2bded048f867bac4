-------------------------- MODULE OutputRingProofs --------------------------
(***************************************************************************)
(* What the output ring hands on, for every capacity and every number of   *)
(* samples, timeouts and retunes.  Three invariants: one counts, one       *)
(* follows the generation a read began with, and one, for as long as       *)
(* nobody clears the ring, says which sample lies where.                   *)
(***************************************************************************)
EXTENDS OutputRing, Integers, TLAPS

(* A write or a read fits in the ring, whoever has cleared it meanwhile.    *)
Fits ==
  /\ writer.count <= Capacity - 1
  /\ writer.pc = "copy" => written + writer.count <= MaxSamples
  /\ Len(reader.got) <= Capacity - 1

(* What was copied was copied no earlier than the read began.              *)
Aged ==
  /\ reader.started <= generation
  /\ reader.pc = "start" => reader = NoRead
  /\ reader.pc = "handoff" => reader.got # << >>
  /\ reader.got # << >> => reader.started <= reader.copied /\ reader.copied <= generation

(* Behind an installed gate every read that may go on is out of date.      *)
Outdated ==
  /\ caller \in {"bump", "wait"} => timeout
  /\ timeout /\ caller \in {"wait", "returned"} =>
       reader.pc \in {"start", "look"} \/ reader.started < generation

IInv == TypeOK /\ Fits /\ Aged /\ Outdated

-----------------------------------------------------------------------------
(* Indices *)

(* An index moved by at most the capacity is an index. *)
LEMMA WrapIsCell ==
  ASSUME NEW i \in Nat, i < Capacity + Capacity
  PROVE  Wrap(i) \in Cells
BY CapacityAssumption, SMT DEF Wrap, Cells

(* One cell stays free. *)
LEMMA RingBounds ==
  ASSUME TypeOK
  PROVE  /\ Used \in 0 .. Capacity - 1
         /\ Free = (Capacity - 1) - Used
         /\ Available \in 0 .. Capacity - 1
<1>1. head \in 0 .. Capacity - 1 /\ tail \in 0 .. Capacity - 1
      /\ reader.tail \in 0 .. Capacity - 1
  BY DEF TypeOK, Cells
<1>2. Capacity \in Nat  BY CapacityAssumption
<1>3. QED  BY <1>1, <1>2, SMT DEF Used, Free, Available

(* What a read copies is a sequence of samples, and fits. *)
LEMMA CopyTaken ==
  ASSUME TypeOK, NEW n \in 0 .. MaxBatch, n <= Available
  PROVE  LET got == [k \in 1 .. n |-> cell[Wrap(reader.tail + k - 1)]]
         IN got \in Seq(Samples) /\ Len(got) = n /\ n <= Capacity - 1
<1>1. n \in Nat /\ n <= Capacity - 1
  BY RingBounds, BoundsAssumption, CapacityAssumption
<1>2. ASSUME NEW k \in 1 .. n  PROVE cell[Wrap(reader.tail + k - 1)] \in Samples
  <2>1. reader.tail + k - 1 \in Nat /\ reader.tail + k - 1 < Capacity + Capacity
    BY <1>1, CapacityAssumption DEF TypeOK, Cells
  <2>2. QED  BY <2>1, WrapIsCell DEF TypeOK
<1>3. QED  BY <1>1, <1>2

-----------------------------------------------------------------------------
(* The three kinds of step, for the invariant of every behaviour *)

(* At the start nothing has been written, read or cleared. *)
LEMMA InitIInv == Init => IInv
<1> SUFFICES ASSUME Init PROVE IInv  OBVIOUS
<1>1. head \in Cells /\ 0 \in Cells /\ Capacity \in Nat
  BY CapacityAssumption DEF Init, Cells
<1>2. << >> \in Seq(Samples) /\ << >> \in Seq(Nat) /\ Len(<< >>) = 0  OBVIOUS
<1>3. TypeOK
  BY <1>1, <1>2, BoundsAssumption DEF Init, TypeOK, NoRead, Samples, Unwritten
<1>4. QED  BY <1>1, <1>2, <1>3, BoundsAssumption, CapacityAssumption
  DEF Init, IInv, Fits, Aged, Outdated, NoRead

(* The writer keeps what it writes within the ring. *)
LEMMA WriterIInv ==
  ASSUME IInv, WriterStep
  PROVE  IInv'
<1> USE DEF IInv, OthersOfWriter
<1>1. /\ MaxBatch \in Nat /\ MaxSamples \in Nat /\ Capacity \in Nat /\ 0 \in Cells
      /\ writer.count \in Nat /\ written \in Nat /\ head \in Nat
  BY BoundsAssumption, CapacityAssumption DEF TypeOK, Cells
<1>2. CASE WriteLook
  <2>1. PICK n \in 1 .. MaxBatch :
          /\ n <= Free /\ written + n <= MaxSamples
          /\ writer' = [writer EXCEPT !.pc = "copy", !.count = n]
    BY <1>2 DEF WriteLook
  <2>2. n <= Capacity - 1  BY <2>1, <1>1, RingBounds
  <2>3. UNCHANGED <<head, cell, written, tail, generation, timeout, active, reader, closed,
                    controller, caller, delivered>>
    BY <1>2 DEF WriteLook
  <2>4. writer'.pc = "copy" /\ writer'.count = n  BY <2>1 DEF TypeOK
  <2>5. TypeOK'
    <3>1. n \in 0 .. MaxBatch  BY <1>1
    <3>2. writer' \in [pc : {"idle", "copy", "store"}, count : 0 .. MaxBatch, next : Cells]
      BY <2>1, <3>1 DEF TypeOK
    <3>3. QED  BY <2>3, <3>2 DEF TypeOK
  <2>6. QED  BY <2>1, <2>2, <2>3, <2>4, <2>5 DEF Fits, Aged, Outdated
<1>3. CASE WriteCopy
  <2>1. Wrap(head + writer.count) \in Cells
    <3>1. head + writer.count \in Nat /\ head + writer.count < Capacity + Capacity
      BY <1>1 DEF TypeOK, Cells, Fits
    <3>2. QED  BY <3>1, WrapIsCell
  <2>2. cell' \in [Cells -> Samples]
    <3>1. ASSUME NEW i \in Cells, \E k \in 1 .. writer.count : i = Wrap(head + k - 1)
          PROVE  written + (CHOOSE k \in 1 .. writer.count : i = Wrap(head + k - 1)) \in Samples
      <4>1. (CHOOSE k \in 1 .. writer.count : i = Wrap(head + k - 1)) \in 1 .. writer.count
        BY <3>1
      <4>2. written + writer.count <= MaxSamples  BY <1>3 DEF WriteCopy, Fits
      <4>3. QED  BY <4>1, <4>2, <1>1 DEF Samples
    <3>2. \A i \in Cells : cell[i] \in Samples  BY DEF TypeOK
    <3>3. QED  BY <3>1, <3>2, <1>3 DEF WriteCopy
  <2>3. UNCHANGED <<head, tail, generation, timeout, active, reader, closed,
                    controller, caller, delivered>>
        /\ writer' = [writer EXCEPT !.pc = "store", !.next = Wrap(head + writer.count)]
        /\ written' = written + writer.count /\ writer.pc = "copy"
    BY <1>3 DEF WriteCopy
  <2>4. written' \in 0 .. MaxSamples  BY <2>3, <1>1 DEF Fits
  <2>5. TypeOK'
    <3>1. writer' \in [pc : {"idle", "copy", "store"}, count : 0 .. MaxBatch, next : Cells]
      BY <2>1, <2>3 DEF TypeOK
    <3>2. QED  BY <2>2, <2>3, <2>4, <3>1 DEF TypeOK
  <2>6. QED  BY <2>3, <2>5 DEF TypeOK, Fits, Aged, Outdated
<1>4. CASE WriteStore
  <2>1. TypeOK'  BY <1>1, <1>4 DEF WriteStore, TypeOK
  <2>2. QED  BY <1>1, <1>4, <2>1 DEF WriteStore, Fits, Aged, Outdated
<1>5. QED  BY <1>2, <1>3, <1>4 DEF WriterStep

(* The reader keeps the generation it began with until it starts over. *)
LEMMA ReaderIInv ==
  ASSUME IInv, ReaderStep
  PROVE  IInv'
<1> USE DEF IInv, OthersOfReader
<1>1. /\ Capacity \in Nat /\ 0 \in Cells /\ generation \in Nat
      /\ NoRead \in [pc : {"start"}, started : {0}, before : {0}, copied : {0},
                     tail : {0}, got : {<< >>}]
      /\ << >> \in Seq(Samples) /\ Len(<< >>) = 0
  BY CapacityAssumption DEF TypeOK, Cells, NoRead
<1>2. CASE ReadStart \/ ReadLook \/ ReadJoin \/ ReadBefore \/ ReadGate \/ ReadTail
  <2>1. CASE ReadStart
    <3>1. TypeOK'  BY <2>1 DEF ReadStart, TypeOK
    <3>2. reader.got = << >> /\ reader'.got = << >>
      BY <2>1 DEF ReadStart, TypeOK, Aged, NoRead
    <3>3. QED  BY <1>1, <2>1, <3>1, <3>2 DEF ReadStart, TypeOK, Fits, Aged, Outdated
  <2>2. CASE ReadLook
    <3>1. TypeOK'  BY <2>2 DEF ReadLook, TypeOK
    <3>2. QED  BY <2>2, <3>1 DEF ReadLook, TypeOK, Fits, Aged, Outdated
  <2>3. CASE ReadJoin
    <3>1. TypeOK'  BY <2>3 DEF ReadJoin, TypeOK
    <3>2. QED  BY <2>3, <3>1 DEF ReadJoin, TypeOK, Fits, Aged, Outdated
  <2>4. CASE ReadBefore
    <3>1. TypeOK'  BY <2>4 DEF ReadBefore, TypeOK
    <3>2. QED  BY <2>4, <3>1 DEF ReadBefore, TypeOK, Fits, Aged, Outdated
  <2>5. CASE ReadGate
    <3>1. TypeOK'  BY <2>5 DEF ReadGate, TypeOK
    <3>2. QED  BY <2>5, <3>1 DEF ReadGate, TypeOK, Fits, Aged, Outdated
  <2>6. CASE ReadTail
    <3>1. TypeOK'  BY <2>6 DEF ReadTail, TypeOK
    <3>2. QED  BY <2>6, <3>1 DEF ReadTail, TypeOK, Fits, Aged, Outdated
  <2>7. QED  BY <1>2, <2>1, <2>2, <2>3, <2>4, <2>5, <2>6
<1>3. CASE ReadCopy
  <2>1. PICK n \in 0 .. MaxBatch :
          /\ n <= Available
          /\ reader' = [reader EXCEPT
               !.pc = IF n = 0 THEN "after" ELSE "store",
               !.got = [k \in 1 .. n |-> cell[Wrap(reader.tail + k - 1)]],
               !.copied = generation]
    BY <1>3 DEF ReadCopy
  <2>2. reader'.got \in Seq(Samples) /\ Len(reader'.got) <= Capacity - 1
    BY <2>1, CopyTaken DEF TypeOK
  <2>3. /\ reader.pc = "copy" /\ reader'.pc \in {"after", "store"}
        /\ reader'.copied = generation /\ reader'.started = reader.started
        /\ reader'.before = reader.before /\ reader'.tail = reader.tail
    BY <1>3, <2>1 DEF ReadCopy, TypeOK
  <2>4. reader' \in [pc : {"after", "store"}, started : Nat, before : Nat, copied : Nat,
                     tail : Cells, got : Seq(Samples)]
    <3>1. DEFINE got == [k \in 1 .. n |-> cell[Wrap(reader.tail + k - 1)]]
                 next == IF n = 0 THEN "after" ELSE "store"
    <3>2. got \in Seq(Samples)  BY <2>1, CopyTaken
    <3>3. next \in {"after", "store"}  OBVIOUS
    <3>4. reader' = [reader EXCEPT !.pc = next, !.got = got, !.copied = generation]  BY <2>1
    <3> HIDE DEF got, next
    <3>5. QED  BY <1>1, <3>2, <3>3, <3>4 DEF TypeOK
  <2>5. TypeOK'  BY <1>3, <2>4 DEF ReadCopy, TypeOK
  <2>6. QED  BY <1>3, <1>1, <2>2, <2>3, <2>5 DEF ReadCopy, TypeOK, Fits, Aged, Outdated
<1>4. CASE ReadStore
  <2>1. Wrap(reader.tail + Len(reader.got)) \in Cells
    <3>1. Len(reader.got) \in Nat /\ reader.tail \in 0 .. Capacity - 1
      BY DEF TypeOK, Cells
    <3>2. QED  BY <1>1, <3>1, WrapIsCell DEF Fits
  <2>2. TypeOK'
    <3>1. reader' \in [pc : {"after"}, started : Nat, before : Nat, copied : Nat,
                       tail : Cells, got : Seq(Samples)]
      BY <1>4, <1>1 DEF ReadStore, TypeOK
    <3>2. QED  BY <1>4, <2>1, <3>1 DEF ReadStore, TypeOK
  <2>3. QED  BY <1>4, <2>2 DEF ReadStore, TypeOK, Fits, Aged, Outdated
<1>5. CASE ReadAfter \/ ReadLeave
  <2>1. CASE ReadAfter
    <3>1. DEFINE got == IF timeout \/ generation # reader.before THEN << >> ELSE reader.got
    <3>2. got \in Seq(Samples) /\ got \in {<< >>, reader.got}  BY <1>1 DEF TypeOK
    <3>3. reader' = [reader EXCEPT !.pc = "leave", !.got = got]  BY <2>1 DEF ReadAfter
    <3> HIDE DEF got
    <3>4. TypeOK'
      <4>1. reader' \in [pc : {"leave"}, started : Nat, before : Nat, copied : Nat,
                         tail : Cells, got : Seq(Samples)]
        BY <3>2, <3>3 DEF TypeOK
      <4>2. QED  BY <2>1, <4>1 DEF ReadAfter, TypeOK
    <3>5. /\ reader.pc = "after" /\ reader'.pc = "leave" /\ reader'.got \in {<< >>, reader.got}
          /\ reader'.started = reader.started /\ reader'.copied = reader.copied
      BY <2>1, <3>2, <3>3 DEF ReadAfter, TypeOK
    <3>6. QED  BY <1>1, <2>1, <3>4, <3>5 DEF ReadAfter, TypeOK, Fits, Aged, Outdated
  <2>2. CASE ReadLeave
    <3>1. TypeOK'  BY <2>2 DEF ReadLeave, TypeOK
    <3>2. QED  BY <2>2, <3>1 DEF ReadLeave, TypeOK, Fits, Aged, Outdated
  <2>3. QED  BY <1>5, <2>1, <2>2
<1>6. CASE ReadRecheck
  <2>1. CASE reader.got = << >> \/ timeout \/ generation # reader.before
    <3>1. reader' = [NoRead EXCEPT !.pc = "look", !.started = reader.started]
      BY <1>6, <2>1 DEF ReadRecheck
    <3>2. reader' = [pc |-> "look", started |-> reader.started, before |-> 0, copied |-> 0,
                     tail |-> 0, got |-> << >>]
      BY <3>1 DEF NoRead
    <3>3. TypeOK'
      <4>1. reader' \in [pc : {"look"}, started : Nat, before : Nat, copied : Nat,
                         tail : Cells, got : Seq(Samples)]
        <5>1. reader.started \in Nat  BY DEF TypeOK
        <5>2. QED  BY <1>1, <3>2, <5>1
      <4>2. UNCHANGED <<head, tail, cell, written, writer, generation, timeout, active, closed,
                        controller, caller, delivered>>
        BY <1>6 DEF ReadRecheck
      <4>3. QED  BY <4>1, <4>2 DEF TypeOK
    <3>4. QED  BY <1>6, <1>1, <3>2, <3>3, CapacityAssumption
      DEF ReadRecheck, TypeOK, Fits, Aged, Outdated
  <2>2. CASE ~ (reader.got = << >> \/ timeout \/ generation # reader.before)
    <3>1. TypeOK'  BY <1>6, <2>2 DEF ReadRecheck, TypeOK
    <3>2. QED  BY <1>6, <2>2, <3>1 DEF ReadRecheck, TypeOK, Fits, Aged, Outdated
  <2>3. QED  BY <2>1, <2>2
<1>7. CASE ReadHandoff
  <2>1. delivered' \in Seq(Nat)
    <3>1. reader.got \in Seq(Nat)  BY BoundsAssumption DEF TypeOK, Samples
    <3>2. QED  BY <1>7, <3>1 DEF ReadHandoff, TypeOK
  <2>2. TypeOK'
    <3>1. reader' \in [pc : {"start"}, started : Nat, before : Nat, copied : Nat,
                       tail : Cells, got : Seq(Samples)]
      <4>1. reader' = NoRead  BY <1>7 DEF ReadHandoff, Restart
      <4>2. NoRead.tail \in Cells /\ NoRead.got \in Seq(Samples)  BY <1>1
      <4>3. QED  BY <1>1, <4>1, <4>2
    <3>2. QED  BY <1>7, <2>1, <3>1 DEF ReadHandoff, TypeOK
  <2>3. QED  BY <1>7, <1>1, <2>2, CapacityAssumption
    DEF ReadHandoff, Restart, NoRead, TypeOK, Fits, Aged, Outdated
<1>8. QED  BY <1>2, <1>3, <1>4, <1>5, <1>6, <1>7 DEF ReaderStep

(* The controller only moves the generation on, and opens a gate that no    *)
(* caller is still installing.                                             *)
LEMMA ControllerIInv ==
  ASSUME IInv, ControllerStep
  PROVE  IInv'
<1> USE DEF IInv, OthersOfController, Advance
<1>1. 0 \in Cells /\ generation \in Nat /\ MaxRetunes \in Nat /\ controller.retunes \in Nat
  BY CapacityAssumption, BoundsAssumption DEF TypeOK, Cells
<1>2. TypeOK'
  <2>1. CASE ControllerBegin
    <3>1. controller.retunes + 1 \in 0 .. MaxRetunes
      BY <1>1, <2>1 DEF ControllerBegin, TypeOK
    <3>2. QED  BY <2>1, <3>1 DEF ControllerBegin, TypeOK
  <2>2. CASE ControllerWait  BY <1>1, <2>2 DEF ControllerWait, TypeOK
  <2>3. CASE ClearBump
    <3>1. generation' \in Nat  BY <1>1, <2>3 DEF ClearBump
    <3>2. QED  BY <2>3, <3>1 DEF ClearBump, TypeOK
  <2>4. CASE ClearTail  BY <1>1, <2>4 DEF ClearTail, TypeOK
  <2>5. CASE ClearHead  BY SMTT(60), <1>1, <2>5 DEF ClearHead, TypeOK
  <2>6. CASE ControllerOpen  BY <1>1, <2>6 DEF ControllerOpen, TypeOK
  <2>7. CASE Drained  BY <1>1, <2>7 DEF Drained, TypeOK
  <2>8. CASE DrainTimeout  BY <1>1, <2>8 DEF DrainTimeout, TypeOK
  <2>9. CASE DrainBump
    <3>1. generation' \in Nat  BY <1>1, <2>9 DEF DrainBump
    <3>2. QED  BY <2>9, <3>1 DEF DrainBump, TypeOK
  <2>10. CASE ControllerSignal  BY <1>1, <2>10 DEF ControllerSignal, TypeOK
  <2>11. QED
    BY <2>1, <2>2, <2>3, <2>4, <2>5, <2>6, <2>7, <2>8, <2>9, <2>10 DEF ControllerStep
<1>3. generation' >= generation /\ UNCHANGED <<reader, writer, written, caller>>
  BY <1>1 DEF ControllerStep, ControllerBegin, ControllerWait, ClearBump, ClearTail, ClearHead,
    ControllerOpen, Drained, DrainTimeout, DrainBump, ControllerSignal
<1>4. timeout' = timeout \/ (~ timeout' /\ caller \notin {"bump", "wait"})
  BY DEF ControllerStep, ControllerBegin, ControllerWait, ClearBump, ClearTail, ClearHead,
    ControllerOpen, Drained, DrainTimeout, DrainBump, ControllerSignal
<1>5. Fits'  BY <1>3 DEF Fits
<1>6. Aged'  BY <1>1, <1>2, <1>3 DEF Aged, TypeOK, NoRead
<1>7. Outdated'  BY <1>1, <1>2, <1>3, <1>4 DEF Outdated, TypeOK
<1>8. QED  BY <1>2, <1>5, <1>6, <1>7

(* A caller leaves every read that began before its gate out of date. *)
LEMMA CallerIInv ==
  ASSUME IInv, CallerStep
  PROVE  IInv'
<1> USE DEF IInv, OthersOfCaller, ring
<1>1. generation \in Nat  BY DEF TypeOK
<1>2. TypeOK'
  <2>1. CASE TimeoutGate  BY <2>1 DEF TimeoutGate, TypeOK
  <2>2. CASE TimeoutBump  BY <1>1, <2>2 DEF TimeoutBump, TypeOK
  <2>3. CASE TimeoutWait  BY <2>3 DEF TimeoutWait, TypeOK
  <2>4. QED  BY <2>1, <2>2, <2>3 DEF CallerStep
<1>3. Fits'  BY DEF CallerStep, TimeoutGate, TimeoutBump, TimeoutWait, Fits
<1>4. Aged'  BY SMTT(60), <1>1 DEF CallerStep, TimeoutGate, TimeoutBump, TimeoutWait, TypeOK, Aged, NoRead
<1>5. Outdated'
  BY <1>1 DEF CallerStep, TimeoutGate, TimeoutBump, TimeoutWait, TypeOK, Aged, Outdated
<1>6. QED  BY <1>2, <1>3, <1>4, <1>5

(* The invariant holds in every state.                                     *)
THEOREM Invariance == Spec => []IInv
<1>1. IInv /\ UNCHANGED vars => IInv'
  BY DEF vars, IInv, TypeOK, Fits, Aged, Outdated
<1>2. IInv /\ [Next]_vars => IInv'
  BY <1>1, WriterIInv, ReaderIInv, ControllerIInv, CallerIInv DEF Next
<1>3. QED  BY <1>2, InitIInv, PTL DEF Spec

(* Indices, counts and program counters keep their ranges, clears          *)
(* interrupting reads and writes included.                                 *)
THEOREM TypeCorrect == Spec => []TypeOK
<1>1. IInv => TypeOK  BY DEF IInv
<1>2. QED  BY <1>1, Invariance, PTL

(* Only a handoff gives the decoder samples. *)
LEMMA OnlyHandoffDelivers ==
  ASSUME [Next]_vars, delivered' # delivered
  PROVE  ReadHandoff /\ generation = reader.started
<1>1. ASSUME WriterStep PROVE FALSE
  BY <1>1 DEF WriterStep, WriteLook, WriteCopy, WriteStore, OthersOfWriter
<1>2. ASSUME ControllerStep PROVE FALSE
  BY <1>2 DEF ControllerStep, ControllerBegin, ControllerWait, ClearBump, ClearTail, ClearHead,
    ControllerOpen, Drained, DrainTimeout, DrainBump, ControllerSignal, Advance, OthersOfController
<1>3. ASSUME CallerStep PROVE FALSE
  BY <1>3 DEF CallerStep, TimeoutGate, TimeoutBump, TimeoutWait, OthersOfCaller
<1>4. ASSUME ReaderStep PROVE ReadHandoff
  BY <1>4 DEF ReaderStep, ReadStart, ReadLook, ReadJoin, ReadBefore, ReadGate, ReadTail, ReadCopy,
    ReadStore, ReadAfter, ReadLeave, ReadRecheck, OthersOfReader
<1>5. ~ UNCHANGED vars  BY DEF vars
<1>6. ReadHandoff  BY <1>1, <1>2, <1>3, <1>4, <1>5 DEF Next
<1>7. QED  BY <1>6 DEF ReadHandoff

(* No sample is handed on that was copied before the generation it is      *)
(* handed on in.                                                           *)
THEOREM HandoffsInOneGeneration == Spec => HandoffInOneGeneration
<1>1. IInv /\ [Next]_vars => [delivered' # delivered => reader.copied = generation]_vars
  <2> SUFFICES ASSUME IInv, [Next]_vars, delivered' # delivered
               PROVE  reader.copied = generation
    OBVIOUS
  <2>1. reader.pc = "handoff" /\ generation = reader.started
    BY OnlyHandoffDelivers DEF ReadHandoff
  <2>2. QED  BY <2>1 DEF IInv, Aged, TypeOK
<1>2. QED  BY <1>1, Invariance, PTL DEF Spec, HandoffInOneGeneration

(* Once a timed-out tune has returned, the decoder gets nothing until the   *)
(* controller completes the request.                                       *)
THEOREM SilentAfterTimeout == Spec => NothingAfterTimeout
<1>1. IInv /\ [Next]_vars => [timeout /\ caller = "returned" => delivered' = delivered]_vars
  <2> SUFFICES ASSUME IInv, [Next]_vars, timeout, caller = "returned"
               PROVE  delivered' = delivered
    OBVIOUS
  <2>1. SUFFICES ASSUME delivered' # delivered PROVE FALSE  OBVIOUS
  <2>2. reader.pc = "handoff" /\ generation = reader.started
    BY <2>1, OnlyHandoffDelivers DEF ReadHandoff
  <2>3. reader.started < generation  BY <2>2 DEF IInv, Outdated
  <2>4. QED  BY <2>2, <2>3 DEF IInv, TypeOK
<1>2. QED  BY <1>1, Invariance, PTL DEF Spec, NothingAfterTimeout

-----------------------------------------------------------------------------
(* Where each sample lies while nobody has cleared the ring                *)

Uncleared == controller.retunes = 0

(* Samples the writer has shown, and samples the reader has taken out.      *)
Shown == written - (IF writer.pc = "store" THEN writer.count ELSE 0)
Out == Len(delivered) + Len(Taken)

(* No retune, no timeout, no generation.                                   *)
Quiet ==
  /\ controller.pc = "idle" /\ caller = "idle" /\ ~ timeout /\ ~ closed
  /\ generation = 0 /\ reader.before = 0 /\ reader.started = 0
  /\ reader.pc \notin {"store", "after", "leave", "recheck", "handoff"} => reader.got = << >>

(* The writer is where it was when it looked; the reader has made no room  *)
(* it did not find.                                                        *)
Undisturbed ==
  /\ writer.pc \in {"copy", "store"} => writer.count <= (Capacity - 1) - Used
  /\ writer.pc = "store" => writer.next = Wrap(head + writer.count)
  /\ reader.pc \in {"copy", "store"} => reader.tail = tail
  /\ reader.pc = "store" => Len(reader.got) <= Used

(* Every sample is where its number says.                                  *)
InPlace ==
  /\ Used = Shown - Out
  /\ \A k \in 1 .. Len(delivered) : delivered[k] = k
  /\ \A k \in 1 .. Len(reader.got) : reader.got[k] = Len(delivered) + k
  /\ \A k \in 1 .. Used : cell[Wrap(tail + k - 1)] = Out + k
  /\ writer.pc = "store" =>
       \A k \in 1 .. writer.count : cell[Wrap(head + k - 1)] = Shown + k

Placed == Uncleared => Quiet /\ Undisturbed /\ InPlace

-----------------------------------------------------------------------------
(* The ring is a segment of the cells, walked in one direction *)

(* Two moves are one. *)
LEMMA WrapTwice ==
  ASSUME NEW a \in Cells, NEW m \in Nat, NEW n \in Nat, m + n <= Capacity
  PROVE  Wrap(Wrap(a + m) + n) = Wrap(a + m + n)
BY CapacityAssumption, SMT DEF Wrap, Cells

(* Moves shorter than the ring end in different cells. *)
LEMMA WrapInjective ==
  ASSUME NEW a \in Cells, NEW m \in 0 .. Capacity - 1, NEW n \in 0 .. Capacity - 1,
         Wrap(a + m) = Wrap(a + n)
  PROVE  m = n
BY CapacityAssumption, SMT DEF Wrap, Cells

(* The head lies as far behind the tail as samples are queued. *)
LEMMA HeadBehindTail ==
  ASSUME TypeOK
  PROVE  head = Wrap(tail + Used)
<1>1. head \in 0 .. Capacity - 1 /\ tail \in 0 .. Capacity - 1 /\ Capacity \in Nat
  BY CapacityAssumption DEF TypeOK, Cells
<1>2. QED  BY <1>1, SMT DEF Wrap, Used

(* Cells from the head on are cells from the tail on. *)
LEMMA FreeBehindQueued ==
  ASSUME TypeOK, NEW m \in Nat, Used + m <= Capacity
  PROVE  Wrap(head + m) = Wrap(tail + (Used + m))
<1>1. Used \in Nat /\ tail \in Nat /\ tail + Used + m = tail + (Used + m)
  BY SMTT(60), RingBounds, CapacityAssumption DEF TypeOK, Cells
<1>2. Wrap(Wrap(tail + Used) + m) = Wrap(tail + Used + m)
  BY <1>1, WrapTwice DEF TypeOK
<1>3. QED  BY <1>1, <1>2, HeadBehindTail

(* A write into free cells lengthens the segment. *)
LEMMA WriteLengthens ==
  ASSUME TypeOK, NEW n \in Nat, n <= (Capacity - 1) - Used, head' = Wrap(head + n), tail' = tail
  PROVE  Used' = Used + n
<1>1. head \in 0 .. Capacity - 1 /\ tail \in 0 .. Capacity - 1 /\ Capacity \in Nat
  BY CapacityAssumption DEF TypeOK, Cells
<1>2. QED  BY <1>1, SMT DEF Wrap, Used

(* A read of queued cells shortens it. *)
LEMMA ReadShortens ==
  ASSUME TypeOK, NEW n \in Nat, n <= Used, tail' = Wrap(tail + n), head' = head
  PROVE  Used' = Used - n
<1>1. head \in 0 .. Capacity - 1 /\ tail \in 0 .. Capacity - 1 /\ Capacity \in Nat
  BY CapacityAssumption DEF TypeOK, Cells
<1>2. QED  BY <1>1, SMT DEF Wrap, Used

(* Lengths are numbers. *)
LEMMA Lengths ==
  ASSUME TypeOK
  PROVE  /\ Len(delivered) \in Nat /\ Len(reader.got) \in Nat /\ Len(Taken) \in Nat
         /\ written \in Nat /\ writer.count \in Nat /\ Used \in Nat /\ Capacity \in Nat
         /\ Out \in Nat /\ Shown \in Int /\ head \in Cells /\ tail \in Cells
         /\ Len(<< >>) = 0
BY SMTT(60), RingBounds, BoundsAssumption, CapacityAssumption DEF TypeOK, Taken, Out, Shown

-----------------------------------------------------------------------------
(* Each kind of step keeps every sample in its place *)

(* An empty ring is in order. *)
LEMMA InitPlaced == Init => Placed
<1> SUFFICES ASSUME Init PROVE Placed  OBVIOUS
<1>1. TypeOK  BY InitIInv DEF IInv
<1>2. Used = 0 /\ Taken = << >> /\ Len(<< >>) = 0 /\ Shown = 0 /\ Out = 0
  BY DEF Init, Used, NoRead, Taken, Shown, Out
<1>3. QED
  BY <1>1, <1>2, CapacityAssumption
  DEF Init, NoRead, Placed, Quiet, Undisturbed, InPlace

(* The writer fills free cells and then shows them. *)
LEMMA WriterPlaced ==
  ASSUME IInv, Placed, WriterStep
  PROVE  Placed'
<1> USE DEF OthersOfWriter
<1> SUFFICES ASSUME Uncleared' PROVE (Quiet /\ Undisturbed /\ InPlace)'  BY DEF Placed
<1>1. UNCHANGED <<tail, generation, timeout, active, reader, closed, controller, caller,
                  delivered>>
  BY DEF WriterStep, WriteLook, WriteCopy, WriteStore
<1>2. Quiet /\ Undisturbed /\ InPlace  BY <1>1 DEF Placed, Uncleared
<1>3. Quiet'  BY <1>1, <1>2 DEF Quiet
<1>4. TypeOK  BY DEF IInv
<1>5. UNCHANGED Taken /\ UNCHANGED Out  BY <1>1 DEF Taken, Out
<1>6. CASE WriteLook
  <2>1. PICK n \in 1 .. MaxBatch :
          n <= Free /\ writer' = [writer EXCEPT !.pc = "copy", !.count = n]
    BY <1>6 DEF WriteLook
  <2>2. UNCHANGED <<head, cell, written>> /\ writer.pc = "idle"  BY <1>6 DEF WriteLook
  <2>3. writer'.pc = "copy" /\ writer'.count = n  BY <2>1, <1>4 DEF TypeOK
  <2>4. Used' = Used /\ Shown' = Shown  BY <1>1, <2>2, <2>3 DEF Used, Shown
  <2>5. n <= (Capacity - 1) - Used  BY <1>4, <2>1, RingBounds
  <2>6. Undisturbed'  BY <1>1, <1>2, <2>2, <2>3, <2>4, <2>5 DEF Undisturbed
  <2>7. InPlace'
    BY <1>1, <1>2, <1>5, <2>2, <2>3, <2>4 DEF InPlace
  <2>8. QED  BY <1>3, <2>6, <2>7
<1>7. CASE WriteCopy
  <2>1. /\ writer.pc = "copy" /\ written' = written + writer.count
        /\ writer'.pc = "store" /\ writer'.count = writer.count
        /\ writer'.next = Wrap(head + writer.count) /\ head' = head
    BY <1>7, <1>4 DEF WriteCopy, TypeOK
  <2>2. Used' = Used /\ Shown' = Shown
    BY <1>1, <1>4, <2>1, Lengths DEF Used, Shown
  <2>3. writer.count <= (Capacity - 1) - Used  BY <1>2, <2>1 DEF Undisturbed
  <2>4. Undisturbed'  BY <1>1, <1>2, <2>1, <2>2, <2>3 DEF Undisturbed
  <2>5. ASSUME NEW k \in 1 .. writer.count
        PROVE  cell'[Wrap(head + k - 1)] = Shown + k
    <3>1. k - 1 \in 0 .. Capacity - 1 /\ head + k - 1 = head + (k - 1)
          /\ head + k - 1 \in Nat /\ head + k - 1 < Capacity + Capacity
      BY SMTT(60), <1>4, <2>3, Lengths DEF Cells
    <3>2. Wrap(head + k - 1) \in Cells  BY <3>1, WrapIsCell
    <3>3. ASSUME NEW j \in 1 .. writer.count, Wrap(head + k - 1) = Wrap(head + j - 1)
          PROVE  j = k
      <4>1. j - 1 \in 0 .. Capacity - 1 /\ head + j - 1 = head + (j - 1)
        BY <1>4, <2>3, Lengths DEF Cells
      <4>2. j - 1 = k - 1  BY <1>4, <3>1, <3>3, <4>1, WrapInjective, Lengths
      <4>3. QED  BY <1>4, <4>2, Lengths
    <3>4. (CHOOSE j \in 1 .. writer.count : Wrap(head + k - 1) = Wrap(head + j - 1)) = k
      BY <3>3
    <3>5. cell'[Wrap(head + k - 1)] = written + k
      BY <1>7, <3>2, <3>4 DEF WriteCopy
    <3>6. QED  BY <2>1, <3>5, <1>4, Lengths DEF Shown
  <2>6. ASSUME NEW k \in 1 .. Used
        PROVE  cell'[Wrap(tail + k - 1)] = Out + k
    <3>1. k - 1 \in 0 .. Capacity - 1 /\ tail + k - 1 = tail + (k - 1)
          /\ tail + k - 1 \in Nat /\ tail + k - 1 < Capacity + Capacity
      BY SMTT(60), <1>4, RingBounds, Lengths DEF Cells
    <3>2. Wrap(tail + k - 1) \in Cells  BY <3>1, WrapIsCell
    <3>3. ASSUME NEW j \in 1 .. writer.count, Wrap(tail + k - 1) = Wrap(head + j - 1)
          PROVE  FALSE
      <4>1. /\ j - 1 \in Nat /\ Used + (j - 1) <= Capacity /\ Used + (j - 1) \in 0 .. Capacity - 1
            /\ head + j - 1 = head + (j - 1)
        BY SMTT(60), <1>4, <2>3, Lengths DEF Cells
      <4>2. Wrap(head + j - 1) = Wrap(tail + (Used + (j - 1)))
        BY <1>4, <4>1, FreeBehindQueued
      <4>3. k - 1 = Used + (j - 1)
        BY <1>4, <3>1, <3>3, <4>1, <4>2, WrapInjective, Lengths
      <4>4. QED  BY <1>4, <4>1, <4>3, Lengths
    <3>4. cell'[Wrap(tail + k - 1)] = cell[Wrap(tail + k - 1)]
      BY <1>7, <3>2, <3>3 DEF WriteCopy
    <3>5. QED  BY <1>2, <3>4 DEF InPlace
  <2>7. InPlace'  BY <1>1, <1>2, <1>5, <2>1, <2>2, <2>5, <2>6 DEF InPlace
  <2>8. QED  BY <1>3, <2>4, <2>7
<1>8. CASE WriteStore
  <2>1. /\ writer.pc = "store" /\ head' = Wrap(head + writer.count)
        /\ writer'.pc = "idle" /\ UNCHANGED <<cell, written>>
    BY <1>8, <1>2 DEF WriteStore, Undisturbed
  <2>2. writer.count <= (Capacity - 1) - Used  BY <1>2, <2>1 DEF Undisturbed
  <2>3. Used' = Used + writer.count  BY <1>1, <1>4, <2>1, <2>2, WriteLengthens, Lengths
  <2>4. Shown' = Shown + writer.count  BY <1>4, <2>1, Lengths DEF Shown
  <2>5. Undisturbed'  BY <1>1, <1>2, <1>4, <2>1, <2>3, Lengths DEF Undisturbed
  <2>6. ASSUME NEW k \in 1 .. Used'
        PROVE  cell[Wrap(tail + k - 1)] = Out + k
    <3>1. CASE k <= Used
      <4>1. k \in 1 .. Used  BY <3>1, <2>3, <1>4, Lengths
      <4>2. QED  BY <4>1, <1>2 DEF InPlace
    <3>2. CASE ~ (k <= Used)
      <4>1. PICK j \in 1 .. writer.count : k = Used + j
        <5>1. k - Used \in 1 .. writer.count /\ k = Used + (k - Used)
          BY <3>2, <2>3, <1>4, Lengths
        <5>2. QED  BY <5>1
      <4>2. /\ j - 1 \in Nat /\ Used + (j - 1) <= Capacity
            /\ head + j - 1 = head + (j - 1) /\ tail + k - 1 = tail + (Used + (j - 1))
        BY SMTT(60), <1>4, <2>2, <4>1, Lengths DEF Cells
      <4>3. Wrap(head + j - 1) = Wrap(tail + k - 1)
        BY <1>4, <4>2, FreeBehindQueued
      <4>4. cell[Wrap(head + j - 1)] = Shown + j  BY <1>2, <2>1 DEF InPlace
      <4>5. Shown + j = Out + k  BY SMTT(60), <1>2, <1>4, <4>1, Lengths DEF InPlace
      <4>6. QED  BY <4>3, <4>4, <4>5
    <3>3. QED  BY <3>1, <3>2
  <2>7. InPlace'
    BY <1>1, <1>2, <1>4, <1>5, <2>1, <2>3, <2>4, <2>6, Lengths DEF InPlace
  <2>8. QED  BY <1>3, <2>5, <2>7
<1>9. QED  BY <1>6, <1>7, <1>8 DEF WriterStep

(* The reader takes queued samples in order, and then hands them on. *)
LEMMA ReaderPlaced ==
  ASSUME IInv, Placed, ReaderStep
  PROVE  Placed'
<1> USE DEF OthersOfReader
<1> SUFFICES ASSUME Uncleared' PROVE (Quiet /\ Undisturbed /\ InPlace)'  BY DEF Placed
<1>1. UNCHANGED <<head, cell, written, writer, generation, timeout, closed, controller, caller>>
  BY DEF ReaderStep, ReadStart, ReadLook, ReadJoin, ReadBefore, ReadGate, ReadTail, ReadCopy,
    ReadStore, ReadAfter, ReadLeave, ReadRecheck, ReadHandoff
<1>2. Quiet /\ Undisturbed /\ InPlace  BY <1>1 DEF Placed, Uncleared
<1>3. TypeOK /\ Shown' = Shown  BY <1>1 DEF IInv, Shown
<1>4. ASSUME UNCHANGED <<tail, delivered>>, reader'.got = reader.got,
             reader.pc \notin {"store", "after", "leave", "recheck", "handoff"},
             reader'.pc \notin {"store", "after", "leave", "recheck", "handoff"},
             reader'.before = 0, reader'.started = 0,
             reader'.pc = "copy" => reader'.tail = tail
      PROVE  (Quiet /\ Undisturbed /\ InPlace)'
  <2>1. Taken = << >> /\ Taken' = << >> /\ Used' = Used
    BY <1>1, <1>4 DEF Taken, Used
  <2>2. Out' = Out  BY <1>4, <2>1 DEF Out
  <2>3. Quiet'  BY <1>1, <1>2, <1>4 DEF Quiet
  <2>4. Undisturbed'  BY <1>1, <1>2, <1>4, <2>1 DEF Undisturbed
  <2>5. InPlace'  BY <1>1, <1>2, <1>3, <1>4, <2>1, <2>2 DEF InPlace
  <2>6. QED  BY <2>3, <2>4, <2>5
<1>5. CASE ReadStart
  BY <1>4, <1>5, <1>2, <1>3 DEF ReadStart, Quiet, TypeOK
<1>6. CASE ReadLook \/ ReadJoin
  BY <1>4, <1>6, <1>2, <1>3 DEF ReadLook, ReadJoin, Quiet, TypeOK
<1>7. CASE ReadBefore
  BY <1>4, <1>7, <1>2, <1>3 DEF ReadBefore, Quiet, TypeOK
<1>8. CASE ReadGate
  BY <1>4, <1>8, <1>2, <1>3 DEF ReadGate, Quiet, TypeOK
<1>9. CASE ReadTail
  BY <1>4, <1>9, <1>2, <1>3 DEF ReadTail, Quiet, TypeOK
<1>10. CASE ReadCopy
  <2>1. PICK n \in 0 .. MaxBatch :
          /\ n <= Available
          /\ reader' = [reader EXCEPT
               !.pc = IF n = 0 THEN "after" ELSE "store",
               !.got = [k \in 1 .. n |-> cell[Wrap(reader.tail + k - 1)]],
               !.copied = generation]
    BY <1>10 DEF ReadCopy
  <2>2. reader.pc = "copy" /\ UNCHANGED <<tail, delivered>>  BY <1>10 DEF ReadCopy
  <2>3. /\ reader'.pc = (IF n = 0 THEN "after" ELSE "store")
        /\ reader'.got = [k \in 1 .. n |-> cell[Wrap(reader.tail + k - 1)]]
        /\ reader'.before = reader.before /\ reader'.started = reader.started
        /\ reader'.tail = reader.tail
    BY <2>1, <1>3 DEF TypeOK
  <2>4. reader.tail = tail  BY <1>2, <2>2 DEF Undisturbed
  <2>5. n \in Nat /\ n <= Used /\ Len(reader'.got) = n
    <3>1. Available = Used  BY <2>4 DEF Available, Used
    <3>2. Len(reader'.got) = n  BY <1>3, <2>1, <2>3, CopyTaken
    <3>3. QED  BY <2>1, <3>1, <3>2, BoundsAssumption
  <2>6. Taken = << >> /\ Len(Taken') = 0 /\ Used' = Used
    BY <1>1, <2>2, <2>3, <2>5 DEF Taken, Used
  <2>7. Out' = Out /\ Out = Len(delivered)
    BY <1>3, <2>2, <2>6, Lengths DEF Out
  <2>8. ASSUME NEW k \in 1 .. Len(reader'.got)
        PROVE  reader'.got[k] = Len(delivered) + k
    <3>1. k \in 1 .. n /\ k \in 1 .. Used  BY <1>3, <2>5, Lengths
    <3>2. reader'.got[k] = cell[Wrap(tail + k - 1)]  BY <2>3, <2>4, <3>1
    <3>3. QED  BY <1>2, <2>7, <3>1, <3>2 DEF InPlace
  <2>9. Quiet'  BY <1>1, <1>2, <2>3 DEF Quiet
  <2>10. Undisturbed'  BY <1>1, <1>2, <2>2, <2>3, <2>4, <2>5, <2>6 DEF Undisturbed
  <2>11. InPlace'  BY <1>1, <1>2, <1>3, <2>2, <2>6, <2>7, <2>8 DEF InPlace
  <2>12. QED  BY <2>9, <2>10, <2>11
<1>11. CASE ReadStore
  <2>1. DEFINE n == Len(reader.got)
  <2>2. /\ reader.pc = "store" /\ reader'.pc = "after" /\ reader'.got = reader.got
        /\ reader'.before = reader.before /\ reader'.started = reader.started
        /\ delivered' = delivered
    BY <1>11, <1>3 DEF ReadStore, TypeOK
  <2>3. n \in Nat /\ n <= Used /\ tail' = Wrap(tail + n)
    BY <1>11, <1>2, <1>3, <2>2, Lengths DEF ReadStore, Undisturbed
  <2>4. Used' = Used - n  BY <1>1, <1>3, <2>3, ReadShortens
  <2>5. Taken = << >> /\ Taken' = reader.got  BY <2>2 DEF Taken
  <2>6. Out' = Out + n  BY <1>3, <2>2, <2>5, Lengths DEF Out
  <2>7. Quiet'  BY <1>1, <1>2, <2>2 DEF Quiet
  <2>8. Undisturbed'
    BY <1>1, <1>2, <1>3, <2>2, <2>3, <2>4, Lengths DEF Undisturbed
  <2>9. ASSUME NEW k \in 1 .. Used'
        PROVE  cell[Wrap(tail' + k - 1)] = Out' + k
    <3>1. n + k \in 1 .. Used  BY <1>3, <2>3, <2>4, Lengths
    <3>2. cell[Wrap(tail + (n + k) - 1)] = Out + (n + k)  BY <1>2, <3>1 DEF InPlace
    <3>3. /\ k - 1 \in Nat /\ n + (k - 1) <= Capacity
          /\ tail' + k - 1 = Wrap(tail + n) + (k - 1)
          /\ tail + (n + k) - 1 = tail + n + (k - 1)
      BY SMTT(60), <1>3, <2>3, <3>1, RingBounds, Lengths, WrapIsCell DEF Cells
    <3>4. Wrap(tail' + k - 1) = Wrap(tail + (n + k) - 1)
      BY <1>3, <2>3, <3>3, WrapTwice, Lengths
    <3>5. Out' + k = Out + (n + k)  BY <1>3, <2>3, <2>6, Lengths
    <3>6. QED  BY <3>2, <3>4, <3>5
  <2>10. InPlace'
    <3>1. Used' = Shown' - Out'  BY <1>2, <1>3, <2>3, <2>4, <2>6, Lengths DEF InPlace
    <3>2. QED  BY <1>1, <1>2, <1>3, <2>2, <2>9, <3>1 DEF InPlace
  <2>11. QED  BY <2>7, <2>8, <2>10
<1>12. CASE ReadAfter \/ ReadLeave
  <2>1. /\ reader.pc \in {"after", "leave"} /\ reader'.pc \in {"leave", "recheck"}
        /\ UNCHANGED <<tail, delivered>>
        /\ reader'.before = reader.before /\ reader'.started = reader.started
    BY <1>12, <1>3 DEF ReadAfter, ReadLeave, TypeOK
  <2>2. reader'.got = reader.got
    <3>1. ~ timeout /\ generation = reader.before  BY <1>2 DEF Quiet
    <3>2. QED  BY <1>12, <1>3, <3>1 DEF ReadAfter, ReadLeave, TypeOK
  <2>3. Taken' = Taken /\ Used' = Used  BY <1>1, <2>1, <2>2 DEF Taken, Used
  <2>4. Out' = Out  BY <2>1, <2>3 DEF Out
  <2>5. QED  BY <1>1, <1>2, <1>3, <2>1, <2>2, <2>3, <2>4 DEF Quiet, Undisturbed, InPlace
<1>13. CASE ReadRecheck
  <2>1. UNCHANGED <<tail, delivered>> /\ reader.pc = "recheck"  BY <1>13 DEF ReadRecheck
  <2>2. CASE reader.got = << >>
    <3>1. reader' = [pc |-> "look", started |-> reader.started, before |-> 0, copied |-> 0,
                     tail |-> 0, got |-> << >>]
      BY <1>13, <2>2 DEF ReadRecheck, NoRead
    <3>2. Taken' = Taken /\ Used' = Used  BY <1>1, <2>1, <2>2, <3>1 DEF Taken, Used
    <3>3. Out' = Out  BY <2>1, <3>2 DEF Out
    <3>4. Quiet'  BY <1>1, <1>2, <3>1 DEF Quiet
    <3>5. Undisturbed'  BY <1>1, <1>2, <2>1, <3>1, <3>2 DEF Undisturbed
    <3>6. InPlace'  BY <1>1, <1>2, <1>3, <2>1, <2>2, <3>1, <3>2, <3>3 DEF InPlace
    <3>7. QED  BY <3>4, <3>5, <3>6
  <2>3. CASE reader.got # << >>
    <3>1. ~ timeout /\ generation = reader.before  BY <1>2 DEF Quiet
    <3>2. /\ reader'.pc = "handoff" /\ reader'.got = reader.got
          /\ reader'.before = reader.before /\ reader'.started = reader.started
      BY <1>13, <1>3, <2>3, <3>1 DEF ReadRecheck, TypeOK
    <3>3. Taken' = Taken /\ Used' = Used  BY <1>1, <2>1, <3>2 DEF Taken, Used
    <3>4. Out' = Out  BY <2>1, <3>3 DEF Out
    <3>5. QED
      BY <1>1, <1>2, <1>3, <2>1, <3>2, <3>3, <3>4 DEF Quiet, Undisturbed, InPlace
  <2>4. QED  BY <2>2, <2>3
<1>14. CASE ReadHandoff
  <2>1. /\ reader.pc = "handoff" /\ tail' = tail
        /\ reader' = [pc |-> "start", started |-> 0, before |-> 0, copied |-> 0, tail |-> 0,
                      got |-> << >>]
    BY <1>14 DEF ReadHandoff, Restart, NoRead
  <2>2. delivered' = delivered \o reader.got
    BY <1>14, <1>2 DEF ReadHandoff, Quiet
  <2>3. delivered \in Seq(Nat) /\ reader.got \in Seq(Nat)
    BY <1>3, BoundsAssumption DEF TypeOK, Samples
  <2>4. Len(delivered') = Len(delivered) + Len(reader.got)  BY <2>2, <2>3
  <2>5. Taken = reader.got /\ Taken' = << >> /\ Used' = Used
    BY <1>1, <2>1 DEF Taken, Used
  <2>6. Out' = Out  BY <1>3, <2>4, <2>5, Lengths DEF Out
  <2>7. ASSUME NEW k \in 1 .. Len(delivered')
        PROVE  delivered'[k] = k
    <3>1. CASE k <= Len(delivered)
      <4>1. k \in 1 .. Len(delivered)  BY <1>3, <3>1, <2>4, Lengths
      <4>2. delivered'[k] = delivered[k]  BY <2>2, <2>3, <4>1
      <4>3. QED  BY <1>2, <4>1, <4>2 DEF InPlace
    <3>2. CASE ~ (k <= Len(delivered))
      <4>1. /\ k - Len(delivered) \in 1 .. Len(reader.got)
            /\ Len(delivered) + (k - Len(delivered)) = k
        BY <1>3, <3>2, <2>4, Lengths
      <4>2. delivered'[k] = reader.got[k - Len(delivered)]  BY <2>2, <2>3, <2>4, <3>2
      <4>3. reader.got[k - Len(delivered)] = Len(delivered) + (k - Len(delivered))
        BY <1>2, <4>1 DEF InPlace
      <4>4. QED  BY <4>1, <4>2, <4>3
    <3>3. QED  BY <3>1, <3>2
  <2>8. Quiet'  BY <1>1, <1>2, <2>1 DEF Quiet
  <2>9. Undisturbed'  BY <1>1, <1>2, <2>1, <2>5 DEF Undisturbed
  <2>10. InPlace'
    BY <1>1, <1>2, <1>3, <2>1, <2>5, <2>6, <2>7, Lengths DEF InPlace
  <2>11. QED  BY <2>8, <2>9, <2>10
<1>15. QED
  BY <1>5, <1>6, <1>7, <1>8, <1>9, <1>10, <1>11, <1>12, <1>13, <1>14 DEF ReaderStep

(* Before the first retune the controller can only begin it, and nobody     *)
(* waits for it.                                                           *)
LEMMA OthersPlaced ==
  ASSUME IInv, Placed, ControllerStep \/ CallerStep
  PROVE  Placed'
<1> SUFFICES ASSUME Uncleared' PROVE FALSE  BY DEF Placed
<1>1. CASE ControllerStep
  <2>1. CASE ControllerBegin
    BY <1>1, <2>1 DEF ControllerBegin, Uncleared, IInv, TypeOK
  <2>2. CASE ~ ControllerBegin
    <3>1. controller'.retunes = controller.retunes /\ controller.pc # "idle"
      BY <1>1, <2>2 DEF ControllerStep, ControllerWait, ClearBump, ClearTail, ClearHead,
        ControllerOpen, Drained, DrainTimeout, DrainBump, ControllerSignal, Advance, IInv, TypeOK
    <3>2. QED  BY <3>1 DEF Uncleared, Placed, Quiet
  <2>3. QED  BY <2>1, <2>2
<1>2. CASE CallerStep
  <2>1. controller' = controller
    BY <1>2 DEF CallerStep, TimeoutGate, TimeoutBump, TimeoutWait, OthersOfCaller
  <2>2. QED
    BY <1>2, <2>1 DEF CallerStep, TimeoutGate, TimeoutBump, TimeoutWait, Uncleared, Placed, Quiet
<1>3. QED  BY <1>1, <1>2

(* While nobody has cleared the ring, every sample is where it belongs.     *)
THEOREM PlacedAlways == Spec => []Placed
<1>1. IInv /\ Placed /\ UNCHANGED vars => Placed'
  BY DEF vars, Placed, Uncleared, Quiet, Undisturbed, InPlace, Used, Shown, Out, Taken
<1>2. IInv /\ Placed /\ [Next]_vars => Placed'
  BY <1>1, WriterPlaced, ReaderPlaced, OthersPlaced DEF Next
<1>3. QED  BY <1>2, InitPlaced, Invariance, PTL DEF Spec

(* Three sequences in a row. *)
LEMMA ThreeSequences ==
  ASSUME NEW r \in Seq(Nat), NEW s \in Seq(Nat), NEW t \in Seq(Nat)
  PROVE  r \o s \o t \in Seq(Nat) /\ Len(r \o s \o t) = Len(r) + Len(s) + Len(t)
<1>1. r \o s \in Seq(Nat) /\ Len(r \o s) = Len(r) + Len(s)  OBVIOUS
<1>2. QED  BY <1>1

(* With one writer, one reader and no clear, no sample is lost, repeated or *)
(* moved: what was delivered, what is being delivered and what is queued   *)
(* are the samples written, in order.                                      *)
THEOREM NothingLostAlways == Spec => []NothingLost
<1>1. IInv /\ Placed => NothingLost
  <2> SUFFICES ASSUME IInv, InPlace
               PROVE  LET all == delivered \o Taken \o Queued
                      IN /\ all = [k \in 1 .. Len(all) |-> k]
                         /\ written = Len(all) + (IF writer.pc = "store" THEN writer.count ELSE 0)
    BY DEF Placed, Uncleared, NothingLost
  <2> DEFINE all == delivered \o Taken \o Queued
  <2>1. TypeOK  BY DEF IInv
  <2>2. Queued \in Seq(Nat) /\ Len(Queued) = Used
    <3>1. ASSUME NEW k \in 1 .. Used PROVE cell[Wrap(tail + k - 1)] \in Nat
      BY <2>1, <3>1, Lengths DEF InPlace
    <3>2. QED  BY <2>1, <3>1, Lengths DEF Queued
  <2>3. delivered \in Seq(Nat) /\ Taken \in Seq(Nat)
    BY <2>1, BoundsAssumption DEF TypeOK, Samples, Taken
  <2>4. all \in Seq(Nat) /\ Len(all) = Len(delivered) + Len(Taken) + Len(Queued)
    BY <2>2, <2>3, ThreeSequences
  <2>5. ASSUME NEW k \in 1 .. Len(all)
        PROVE  all[k] = k
    <3>1. CASE k <= Len(delivered)
      <4>1. k \in 1 .. Len(delivered)  BY <2>1, <2>4, <3>1, Lengths
      <4>2. all[k] = delivered[k]  BY <2>2, <2>3, <4>1
      <4>3. QED  BY <4>1, <4>2 DEF InPlace
    <3>2. CASE Len(delivered) < k /\ k <= Out
      <4>1. /\ k - Len(delivered) \in 1 .. Len(Taken)
            /\ Len(delivered) + (k - Len(delivered)) = k
        BY <2>1, <3>2, Lengths DEF Out
      <4>2. all[k] = Taken[k - Len(delivered)]  BY <2>2, <2>3, <3>2 DEF Out
      <4>3. Taken = reader.got  BY <4>1 DEF Taken
      <4>4. QED  BY <4>1, <4>2, <4>3 DEF InPlace
    <3>3. CASE Out < k
      <4>1. k - Out \in 1 .. Used /\ Out + (k - Out) = k
        BY <2>1, <2>2, <2>4, <3>3, Lengths DEF Out
      <4>2. all[k] = Queued[k - Out]  BY <2>2, <2>3, <2>4, <3>3 DEF Out
      <4>3. Queued[k - Out] = cell[Wrap(tail + (k - Out) - 1)]  BY <4>1 DEF Queued
      <4>4. QED  BY <4>1, <4>2, <4>3 DEF InPlace
    <3>4. QED  BY <2>1, <3>1, <3>2, <3>3, Lengths
  <2>6. all = [k \in 1 .. Len(all) |-> k]
    <3> HIDE DEF all
    <3>1. all \in [1 .. Len(all) -> Nat]  BY <2>4
    <3>2. QED  BY <2>5, <3>1
  <2>7. written = Len(all) + (IF writer.pc = "store" THEN writer.count ELSE 0)
    BY SMTT(60), <2>1, <2>2, <2>4, Lengths DEF InPlace, Out, Shown
  <2>8. QED  BY <2>6, <2>7
<1>2. QED  BY <1>1, Invariance, PlacedAlways, PTL

=============================================================================
