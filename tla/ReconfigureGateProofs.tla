----------------------- MODULE ReconfigureGateProofs -----------------------
(***************************************************************************)
(* Proofs about ReconfigureGate, for any capacities and any number of      *)
(* reconfigures, with the announcing store of the demod thread delayed as  *)
(* the release order allows.  The first part, the exclusion, the purge and *)
(* the output, and that the gate covers the reset, are about a stream      *)
(* whose decoder thread applies no profile of its own (~ FamilySwitcher):  *)
(* with one that does, TLC shows those properties to fail.  The types, the *)
(* capacities and the owner of the gate hold with either.                  *)
(*                                                                         *)
(* GateInv is the argument of the two flags: each thread announces itself  *)
(* and then looks at the other's flag, so at most one of them finds the    *)
(* way free, or the demod thread's announcement had not arrived when the   *)
(* wait ended and its block is the overlooked one.  FlagInv says where     *)
(* that can be: at most one store is on its way, it is the announcement    *)
(* only while the block's span is still in the ring, because giving the    *)
(* span back waits for it.  PurgeInv follows a block through the ring:     *)
(* while one is in it that a purge was meant for, the purge is still       *)
(* pending or about to be requested, and the demod thread looks at it      *)
(* after it has entered.                                                   *)
(***************************************************************************)
EXTENDS ReconfigureGate, TLAPS

DemodPcs == {"top", "gate", "read", "enter", "store", "confirm", "prepare",
             "recheck", "settle", "process", "output", "write", "exited"}
ControllerPcs == {"idle", "wait", "clear", "hold", "discard", "purge", "program",
                  "reset", "profile", "rediscard", "repurge", "release", "open"}

(* The part of the type invariant the steps need. *)
Shape ==
  /\ gate \in BOOLEAN /\ active \in BOOLEAN /\ purge \in BOOLEAN
  /\ generation \in Nat /\ config \in Nat
  /\ ring \in Seq(Blocks) /\ output \in Seq(Samples)
  /\ capture \in [pc : {"idle", "arrived", "reserved", "checked"}, block : Blocks]
  /\ demod \in [pc : DemodPcs, span : Blocks, held : BOOLEAN]
  /\ controller \in ControllerPcs
  /\ exit_flag \in BOOLEAN /\ exiting \in BOOLEAN /\ overlooked \in BOOLEAN

(* Between two passes, and before the demod thread announces a block. *)
Quiet == demod.pc \in {"top", "gate", "read", "enter", "store", "exited"}

Arriving(v) == stored = <<v>>

FlagInv ==
  /\ demod.pc \in {"enter", "store"} => demod.held
  /\ \/ Drained /\ (active <=> ~ Quiet)
     \/ /\ Arriving(TRUE) /\ ~ active /\ demod.held
        /\ demod.pc \in {"confirm", "prepare", "recheck", "settle", "process"}
     \/ Arriving(FALSE) /\ active /\ demod.pc \in {"top", "exited"}

GateInv ==
  /\ FlagInv
  /\ decoder \notin {"wait", "apply"}
  /\ armed = [t \in Togglers |-> FALSE]
  /\ gate <=> controller # "idle"
  /\ Reconfiguring => exiting \/ overlooked \/ ~ InBlock
  /\ Reconfiguring => exiting \/ demod.pc # "write"

(* A purge is pending, or the controller is between the two stores of it. *)
PurgeDue == purge \/ controller \in {"purge", "repurge"}

PurgeInv ==
  /\ \A i \in DOMAIN ring : ring[i].committed # generation => PurgeDue
  /\ demod.pc \in {"enter", "store", "confirm", "prepare", "recheck"}
       => demod.span.committed = generation \/ PurgeDue \/ exiting
  /\ PurgedNeverDemodulated

OutputInv ==
  /\ controller \notin {"idle", "wait", "clear"} => exiting \/ output = << >>
  /\ demod.pc \in {"output", "write"} => exiting \/ overlooked \/ demod.span.config = config
  /\ OutputOfThisTuning

IInv == Shape /\ GateInv /\ PurgeInv /\ OutputInv

-----------------------------------------------------------------------------
(* The start: every flag is down and both rings are empty. *)
LEMMA InitInv == Init => IInv
<1> SUFFICES ASSUME Init PROVE IInv
  OBVIOUS
<1>1. NoBlock \in Blocks
  BY DEF NoBlock, Blocks
<1>2. Shape
  <2>1. ring \in Seq(Blocks) /\ output \in Seq(Samples)
    BY DEF Init
  <2>2. /\ capture \in [pc : {"idle", "arrived", "reserved", "checked"}, block : Blocks]
        /\ demod \in [pc : DemodPcs, span : Blocks, held : BOOLEAN]
    BY <1>1 DEF Init, DemodPcs
  <2> QED
    BY <2>1, <2>2 DEF Init, Shape, ControllerPcs
<1>3. GateInv
  BY DEF Init, GateInv, FlagInv, Drained, Quiet, InBlock, Reconfiguring
<1>4. PurgeInv /\ OutputInv
  BY DEF Init, PurgeInv, OutputInv, PurgedNeverDemodulated, OutputOfThisTuning
<1> QED
  BY <1>2, <1>3, <1>4 DEF IInv

(* A store that stays on its way, or a buffer that stays empty. *)
LEMMA StoredKept ==
  ASSUME stored' = stored
  PROVE  (Drained' <=> Drained) /\ (Arriving(TRUE)' <=> Arriving(TRUE))
         /\ (Arriving(FALSE)' <=> Arriving(FALSE))
BY DEF Drained, Arriving

(* None is on its way, or one announcement, or one withdrawal. *)
LEMMA OneOfThree ==
  /\ Drained => ~ Arriving(TRUE) /\ ~ Arriving(FALSE)
  /\ Arriving(TRUE) => ~ Arriving(FALSE)
<1>1. <<TRUE>> # << >> /\ <<FALSE>> # << >>
  OBVIOUS
<1>2. <<TRUE>> # <<FALSE>>
  <2>1. <<TRUE>>[1] = TRUE /\ <<FALSE>>[1] = FALSE
    OBVIOUS
  <2> QED
    BY <2>1
<1> QED
  BY <1>1, <1>2 DEF Drained, Arriving

(* What the other threads leave alone. *)
LEMMA FlagKept ==
  ASSUME FlagInv, UNCHANGED <<active, stored, demod>>
  PROVE  FlagInv'
BY StoredKept DEF FlagInv, Quiet

(* The capture callback only appends blocks of the current generation. *)
LEMMA CaptureInv == IInv /\ CaptureStep => IInv'
<1> SUFFICES ASSUME IInv, CaptureStep PROVE IInv'
  OBVIOUS
<1> USE DEF OthersOfCapture, flags
<1>1. UNCHANGED <<gate, active, stored, purge, generation, config, output, demod, controller,
                  decoder, armed, exit_flag, exiting, overlooked>>
  BY DEF CaptureStep, CaptureCallback, CaptureReserve, CaptureCheck, CaptureCommit
<1>2. /\ capture' \in [pc : {"idle", "arrived", "reserved", "checked"}, block : Blocks]
      /\ ring' \in Seq(Blocks)
      /\ \A i \in DOMAIN ring' : \/ i \in DOMAIN ring /\ ring'[i] = ring[i]
                                 \/ ring'[i].committed = generation
  <2> USE DEF IInv, Shape
  <2>0. NothingCaptured \in [pc : {"idle", "arrived", "reserved", "checked"}, block : Blocks]
    BY DEF NothingCaptured, NoBlock, Blocks
  <2>1. CASE CaptureCallback
    BY <2>1 DEF CaptureCallback, NoBlock, Blocks
  <2>2. CASE CaptureReserve
    BY <2>0, <2>2 DEF CaptureReserve, Blocks
  <2>3. CASE CaptureCheck
    BY <2>0, <2>3 DEF CaptureCheck
  <2>4. CASE CaptureCommit
    <3> DEFINE b == [capture.block EXCEPT !.committed = generation]
    <3>1. b \in Blocks /\ b.committed = generation
      BY DEF Blocks
    <3>2. ring' = Append(ring, b)
      BY <2>4 DEF CaptureCommit
    <3> HIDE DEF b
    <3>3. \A i \in DOMAIN ring' : (i \in DOMAIN ring /\ ring'[i] = ring[i]) \/ ring'[i] = b
      BY <3>1, <3>2
    <3>4. capture' \in [pc : {"idle", "arrived", "reserved", "checked"}, block : Blocks]
      <4>1. [capture EXCEPT !.pc = "arrived", !.block.reserved = 0]
              \in [pc : {"idle", "arrived", "reserved", "checked"}, block : Blocks]
        BY DEF Blocks
      <4> QED
        BY <2>0, <2>4, <4>1 DEF CaptureCommit
    <3> QED
      BY <3>1, <3>2, <3>3, <3>4
  <2> QED
    BY <2>1, <2>2, <2>3, <2>4 DEF CaptureStep
<1>3. Shape'
  BY <1>1, <1>2 DEF IInv, Shape
<1>4. GateInv'
  BY <1>1, FlagKept DEF IInv, GateInv, InBlock, Reconfiguring
<1>5. PurgeInv'
  BY <1>1, <1>2 DEF IInv, PurgeInv, PurgeDue, PurgedNeverDemodulated
<1>6. OutputInv'
  BY <1>1 DEF IInv, OutputInv, OutputOfThisTuning
<1> QED
  BY <1>3, <1>4, <1>5, <1>6 DEF IInv

(* Moving the tail leaves blocks that were in the ring already. *)
LEMMA CommitKeeps ==
  ASSUME ring \in Seq(Blocks), CommitSpan
  PROVE  /\ ring' \in Seq(Blocks)
         /\ \A i \in DOMAIN ring' : \E j \in DOMAIN ring : ring'[i] = ring[j]
<1>1. CASE demod.held /\ ring # << >>
  <2>1. ring' = Tail(ring)
    BY <1>1 DEF CommitSpan
  <2>2. Tail(ring) \in Seq(Blocks) /\ Len(Tail(ring)) = Len(ring) - 1
    BY <1>1
  <2>3. ASSUME NEW i \in DOMAIN Tail(ring) PROVE i + 1 \in DOMAIN ring /\ Tail(ring)[i] = ring[i + 1]
    BY <1>1, <2>2
  <2> QED
    BY <2>1, <2>2, <2>3
<1>2. CASE ~ (demod.held /\ ring # << >>)
  BY <1>2 DEF CommitSpan
<1> QED
  BY <1>1, <1>2

(* What a step of the demod thread must show: the rest of the invariant is *)
(* the controller's.                                                       *)
LEMMA DemodKeeps ==
  ASSUME IInv,
         UNCHANGED OthersOfDemod,
         UNCHANGED output,
         demod' \in [pc : DemodPcs, span : Blocks, held : BOOLEAN],
         purge' \in BOOLEAN, active' \in BOOLEAN, overlooked' \in BOOLEAN,
         ring' \in Seq(Blocks),
         FlagInv',
         InBlock' => (InBlock /\ overlooked' = overlooked) \/ ~ gate,
         demod'.pc = "write" => ~ gate,
         \A i \in DOMAIN ring' : ring'[i].committed # generation => PurgeDue',
         demod'.pc \in {"enter", "store", "confirm", "prepare", "recheck"}
           => demod'.span.committed = generation \/ PurgeDue' \/ exiting,
         PurgedNeverDemodulated',
         demod'.pc \in {"output", "write"}
           => exiting \/ overlooked' \/ demod'.span.config = config
  PROVE  IInv'
<1>1. Shape'
  BY DEF IInv, Shape, OthersOfDemod
<1>2. GateInv'
  BY DEF IInv, GateInv, OthersOfDemod, Reconfiguring
<1>3. PurgeInv'
  BY DEF PurgeInv, OthersOfDemod
<1>4. OutputInv'
  BY DEF IInv, OutputInv, OutputOfThisTuning, OthersOfDemod
<1> QED
  BY <1>1, <1>2, <1>3, <1>4 DEF IInv

(* A store made when none is on its way is then the only one that is. *)
LEMMA StoreKeepsFlag ==
  ASSUME IInv, NEW v, StoreActive(v), Drained
  PROVE  Arriving(v)' /\ active' = active
BY DEF StoreActive, Drained, Arriving

(* The way back to the top of the loop, with or without the span. *)
LEMMA TopKeeps ==
  ASSUME IInv, UNCHANGED OthersOfDemod, UNCHANGED <<output, purge>>, ToTop,
         ring' \in Seq(Blocks),
         \A i \in DOMAIN ring' : \E j \in DOMAIN ring : ring'[i] = ring[j],
         \/ UNCHANGED <<active, stored>> /\ Quiet
         \/ Arriving(FALSE)' /\ active' = active /\ ~ Quiet /\ Drained
  PROVE  IInv'
<1>1. /\ demod' \in [pc : DemodPcs, span : Blocks, held : BOOLEAN]
      /\ demod'.pc = "top" /\ overlooked' = FALSE
  BY DEF ToTop, NoBlock, Blocks, DemodPcs
<1>2. FlagInv' /\ active' \in BOOLEAN
  <2>0. FlagInv /\ active \in BOOLEAN
    BY DEF IInv, Shape, GateInv
  <2>1. demod'.pc \notin {"enter", "store"} /\ Quiet'
    BY <1>1 DEF Quiet
  <2>2. CASE UNCHANGED <<active, stored>> /\ Quiet
    <3>1. \/ Drained /\ ~ active
          \/ Arriving(FALSE) /\ active
      BY <2>0, <2>2 DEF FlagInv, Quiet
    <3>2. \/ Drained' /\ ~ active'
          \/ Arriving(FALSE)' /\ active'
      BY <2>2, <3>1, StoredKept
    <3> QED
      BY <1>1, <2>0, <2>1, <2>2, <3>2 DEF FlagInv
  <2>3. CASE Arriving(FALSE)' /\ active' = active /\ ~ Quiet /\ Drained
    <3>1. active
      BY <2>0, <2>3 DEF FlagInv, Drained, Arriving
    <3> QED
      BY <1>1, <2>0, <2>1, <2>3, <3>1 DEF FlagInv
  <2> QED
    BY <2>2, <2>3
<1>3. \A i \in DOMAIN ring' : ring'[i].committed # generation => PurgeDue'
  BY DEF IInv, PurgeInv, PurgeDue, OthersOfDemod
<1>4. PurgedNeverDemodulated' /\ ~ InBlock' /\ purge' \in BOOLEAN
  BY <1>1 DEF PurgedNeverDemodulated, InBlock, IInv, Shape
<1> QED
  BY <1>1, <1>2, <1>3, <1>4, DemodKeeps

(* Giving up a block takes its span back and withdraws the announcement.   *)
LEMMA DiscardKeeps ==
  ASSUME IInv, UNCHANGED OthersOfDemod, UNCHANGED <<output, purge>>, Discard, ~ Quiet
  PROVE  IInv'
<1>1. Drained /\ StoreActive(FALSE) /\ ToTop /\ CommitSpan
  BY DEF Discard, CommitSpan, Drained
<1>2. Arriving(FALSE)' /\ active' = active
  BY <1>1, StoreKeepsFlag
<1>3. /\ ring' \in Seq(Blocks)
      /\ \A i \in DOMAIN ring' : \E j \in DOMAIN ring : ring'[i] = ring[j]
  BY <1>1, CommitKeeps DEF IInv, Shape
<1> QED
  BY <1>1, <1>2, <1>3, TopKeeps

(* A step of the demod thread keeps the invariant: one step per action. *)
LEMMA DemodInv == IInv /\ DemodStep => IInv'
<1> SUFFICES ASSUME IInv, DemodStep PROVE IInv'
  OBVIOUS
<1> DEFINE Typed == demod' \in [pc : DemodPcs, span : Blocks, held : BOOLEAN]
           Same == UNCHANGED OthersOfDemod /\ UNCHANGED <<output, purge>>
           Still == UNCHANGED <<active, stored, overlooked>>
           Ring == /\ ring' \in Seq(Blocks)
                   /\ \A i \in DOMAIN ring' : \E j \in DOMAIN ring : ring'[i] = ring[j]
           Fresh(b) == b.committed = generation
           RingDue == \A i \in DOMAIN ring' : ~ Fresh(ring'[i]) => PurgeDue'
           SpanDue == demod'.pc \in {"enter", "store", "confirm", "prepare", "recheck"}
                        => Fresh(demod'.span) \/ PurgeDue' \/ exiting
           Made == demod'.pc \in {"output", "write"}
                     => exiting \/ overlooked' \/ demod'.span.config = config
           Enters == /\ InBlock' => (InBlock /\ overlooked' = overlooked) \/ ~ gate
                     /\ demod'.pc = "write" => ~ gate
<1>0. /\ demod \in [pc : DemodPcs, span : Blocks, held : BOOLEAN]
      /\ active \in BOOLEAN /\ purge \in BOOLEAN /\ overlooked \in BOOLEAN
      /\ ring \in Seq(Blocks) /\ FlagInv /\ config \in Nat
  BY DEF IInv, Shape, GateInv
<1>1. CASE DemodPurge
  <2>1. /\ ring' = << >> /\ purge' = FALSE /\ demod' = demod
        /\ UNCHANGED <<active, stored, output, overlooked, OthersOfDemod>>
    BY <1>1 DEF DemodPurge
  <2>2. DOMAIN ring' = {} /\ ring' \in Seq(Blocks)
    BY <2>1
  <2>3. demod.pc = "top"
    BY <1>1 DEF DemodPurge
  <2>4. FlagInv' /\ ~ InBlock' /\ PurgedNeverDemodulated'
    BY <1>0, <2>1, <2>3, FlagKept DEF InBlock, PurgedNeverDemodulated
  <2> QED
    BY <1>0, <2>1, <2>2, <2>3, <2>4, DemodKeeps
<1>2. ring' = ring => Ring
  BY <1>0
<1>3. CommitSpan => Ring
  BY <1>0, CommitKeeps
<1>4. ASSUME Same, Typed, Ring, active' \in BOOLEAN, overlooked' \in BOOLEAN,
             FlagInv', Enters, SpanDue, PurgedNeverDemodulated', Made
      PROVE  IInv'
  <2>1. RingDue
    BY <1>4 DEF IInv, PurgeInv, PurgeDue, OthersOfDemod
  <2> QED
    BY <1>0, <1>4, <2>1, DemodKeeps
<1>5. ASSUME Same, Typed, Ring, active' \in BOOLEAN, UNCHANGED overlooked, FlagInv',
             ~ InBlock', SpanDue
      PROVE  IInv'
  BY <1>0, <1>5, <1>4 DEF InBlock, PurgedNeverDemodulated
<1>6. ASSUME NEW pc \in DemodPcs, Goto(pc)
      PROVE  /\ Typed /\ demod'.pc = pc /\ UNCHANGED overlooked
             /\ demod'.span = demod.span /\ demod'.held = demod.held
  BY <1>0, <1>6 DEF Goto
<1>7. CASE DemodNoPurge \/ (DemodPause /\ ~ gate) \/ DemodExit
  <2>1. Same /\ Still /\ ring' = ring
    BY <1>7 DEF DemodNoPurge, DemodPause, DemodExit, Goto
  <2>2. /\ Typed
        /\ \/ demod.pc = "top" /\ demod'.pc = "gate" /\ Drained
           \/ demod.pc = "gate" /\ demod'.pc = "read"
           \/ demod.pc = "top" /\ demod'.pc = "exited"
    BY <1>7, <1>6 DEF DemodNoPurge, DemodPause, DemodExit, DemodPcs, Drained
  <2>3. FlagInv'
    <3>1. demod'.pc \notin {"enter", "store"} /\ Quiet' /\ Quiet
      BY <2>2 DEF Quiet
    <3>2. \/ Drained /\ ~ active
          \/ Arriving(FALSE) /\ active /\ demod.pc = "top" /\ demod'.pc = "exited"
      BY <1>0, <2>2, <3>1, OneOfThree DEF FlagInv, Quiet, Drained
    <3> QED
      BY <2>1, <3>1, <3>2, StoredKept DEF FlagInv
  <2> QED
    BY <1>0, <1>2, <1>5, <2>1, <2>2, <2>3 DEF InBlock
<1>8. CASE (DemodPause /\ gate)
  <2>1. Same /\ Still /\ ring' = ring /\ demod.pc = "gate" /\ Typed /\ demod'.pc = "top"
    BY <1>8, <1>6 DEF DemodPause, DemodPcs
  <2>2. FlagInv'
    BY StoredKept, <1>0, <2>1 DEF FlagInv, Quiet
  <2> QED
    BY <1>0, <1>2, <1>5, <2>1, <2>2 DEF InBlock
<1>9. CASE DemodWatermark \/ DemodReadExit
  <2>1. Same /\ UNCHANGED <<active, stored>> /\ ring' = ring /\ ToTop /\ demod.pc = "read"
    BY <1>9 DEF DemodWatermark, DemodReadExit
  <2> QED
    BY <1>2, <2>1, TopKeeps DEF Quiet
<1>10. CASE DemodRead
  <2>1. Same /\ Still /\ ring' = ring /\ demod.pc = "read"
    BY <1>10 DEF DemodRead
  <2>2. 1 \in DOMAIN ring /\ Head(ring) = ring[1] /\ ring[1] \in Blocks
    BY <1>0, <1>10 DEF DemodRead
  <2>3. demod' = [pc |-> "enter", span |-> ring[1], held |-> TRUE]
    BY <1>10, <2>2 DEF DemodRead
  <2>4. Typed /\ demod'.pc = "enter" /\ demod'.held
    BY <2>2, <2>3 DEF DemodPcs
  <2>5. SpanDue
    BY <2>1, <2>2, <2>3 DEF IInv, PurgeInv, PurgeDue, OthersOfDemod
  <2>6. FlagInv'
    BY StoredKept, <1>0, <2>1, <2>4 DEF FlagInv, Quiet
  <2> QED
    BY <1>0, <1>2, <1>5, <2>1, <2>4, <2>5, <2>6 DEF InBlock
<1>11. CASE DemodEnter
  <2>1. Same /\ UNCHANGED <<active, stored>> /\ demod.pc = "enter"
    BY <1>11 DEF DemodEnter
  <2>2. CASE gate
    BY <1>3, <1>11, <2>1, <2>2, TopKeeps DEF DemodEnter, Quiet
  <2>3. CASE ~ gate
    <3>1. Goto("store") /\ ring' = ring
      BY <1>11, <2>3 DEF DemodEnter
    <3>2. Typed /\ demod'.pc = "store" /\ demod'.span = demod.span /\ demod'.held = demod.held
          /\ UNCHANGED overlooked
      BY <3>1, <1>6 DEF DemodPcs
    <3>3. SpanDue
      BY <2>1, <3>2 DEF IInv, PurgeInv, PurgeDue, OthersOfDemod
    <3>4. FlagInv'
      BY StoredKept, <1>0, <2>1, <3>2 DEF FlagInv, Quiet
    <3> QED
      BY <1>0, <1>2, <1>5, <2>1, <3>1, <3>2, <3>3, <3>4 DEF InBlock
  <2> QED
    BY <2>2, <2>3
<1>12. CASE DemodStore
  <2>1. Same /\ ring' = ring /\ demod.pc = "store" /\ Goto("confirm") /\ StoreActive(TRUE)
    BY <1>12 DEF DemodStore
  <2>2. Typed /\ demod'.pc = "confirm" /\ demod'.span = demod.span /\ demod'.held = demod.held
        /\ UNCHANGED overlooked
    BY <2>1, <1>6 DEF DemodPcs
  <2>3. SpanDue
    BY <2>1, <2>2 DEF IInv, PurgeInv, PurgeDue, OthersOfDemod
  <2>4. Drained /\ ~ active /\ demod.held
    BY <1>0, <2>1 DEF FlagInv, Quiet
  <2>5. Arriving(TRUE)' /\ active' = active
    BY <2>1, <2>4, StoreKeepsFlag
  <2>6. FlagInv'
    BY <2>2, <2>4, <2>5 DEF FlagInv, Quiet
  <2> QED
    BY <1>0, <1>2, <1>5, <2>1, <2>2, <2>3, <2>5, <2>6 DEF InBlock
<1>13. ASSUME Same, Still, Typed, Ring, demod'.span = demod.span, SpanDue,
              \/ demod.pc = "confirm" /\ demod'.pc = "prepare" /\ ~ gate
              \/ demod.pc = "prepare" /\ demod'.pc = "recheck",
              demod'.held = demod.held \/ Drained
       PROVE  IInv'
  <2>1. FlagInv'
    <3>1. /\ demod'.pc \notin {"enter", "store"} /\ ~ Quiet' /\ ~ Quiet
          /\ demod'.pc \in {"confirm", "prepare", "recheck", "settle", "process"}
      BY <1>13 DEF Quiet
    <3>2. \/ Drained /\ active
          \/ Arriving(TRUE) /\ ~ active /\ demod'.held
      BY <1>0, <1>13, <3>1, OneOfThree DEF FlagInv, Quiet
    <3> QED
      BY <1>13, <3>1, <3>2, StoredKept DEF FlagInv
  <2>2. Enters /\ Made /\ PurgedNeverDemodulated'
    BY <1>13 DEF InBlock, PurgedNeverDemodulated
  <2> QED
    BY <1>0, <1>13, <1>4, <2>1, <2>2
<1>14. CASE DemodConfirm
  <2>1. CASE gate
    BY <1>14, <2>1, DiscardKeeps DEF DemodConfirm, Quiet
  <2>2. CASE ~ gate
    <3>1. Same /\ UNCHANGED <<active, stored, ring>> /\ demod.pc = "confirm" /\ Goto("prepare")
      BY <1>14, <2>2 DEF DemodConfirm
    <3>2. Typed /\ demod'.pc = "prepare" /\ demod'.span = demod.span /\ demod'.held = demod.held
          /\ UNCHANGED overlooked
      BY <3>1, <1>6 DEF DemodPcs
    <3>3. SpanDue
      BY <3>1, <3>2 DEF IInv, PurgeInv, PurgeDue, OthersOfDemod
    <3> QED
      BY <1>2, <1>13, <2>2, <3>1, <3>2, <3>3
  <2> QED
    BY <2>1, <2>2
<1>15. CASE DemodPrepare
  <2>1. Same /\ Still /\ demod.pc = "prepare" /\ Typed
        /\ demod'.pc = "recheck" /\ demod'.span = demod.span
    BY <1>0, <1>15 DEF DemodPrepare, Goto, DemodPcs
  <2>2. Ring /\ (demod'.held = demod.held \/ Drained)
    BY <1>0, <1>2, <1>3, <1>15 DEF DemodPrepare, Goto, CommitSpan, Drained
  <2>3. SpanDue
    BY <2>1 DEF IInv, PurgeInv, PurgeDue, OthersOfDemod
  <2> QED
    BY <1>13, <2>1, <2>2, <2>3
<1>16. ASSUME Same, Still, Typed, Ring, Made,
              \/ demod.pc = "settle" /\ demod'.pc = "process" /\ demod'.held = demod.held
              \/ demod.pc = "process" /\ demod'.pc = "output" /\ Drained
              \/ demod.pc = "output" /\ demod'.pc = "write" /\ ~ gate,
              demod'.span.committed = demod.span.committed
       PROVE  IInv'
  <2>1. PurgedNeverDemodulated'
    BY <1>16 DEF IInv, PurgeInv, PurgedNeverDemodulated, OthersOfDemod
  <2>2. FlagInv'
    <3>1. demod'.pc \notin {"enter", "store"} /\ ~ Quiet' /\ ~ Quiet
      BY <1>16 DEF Quiet
    <3>2. \/ Drained /\ active
          \/ Arriving(TRUE) /\ ~ active /\ demod'.held /\ demod'.pc = "process"
      BY <1>0, <1>16, <3>1, OneOfThree DEF FlagInv, Quiet
    <3> QED
      BY <1>16, <3>1, <3>2, StoredKept DEF FlagInv
  <2>3. Enters /\ SpanDue
    BY <1>16 DEF InBlock
  <2> QED
    BY <1>0, <1>16, <1>4, <2>1, <2>2, <2>3
<1>17. CASE DemodRecheck
  <2>1. CASE gate \/ purge
    BY <1>17, <2>1, DiscardKeeps DEF DemodRecheck, Quiet
  <2>2. CASE ~ (gate \/ purge)
    <3>1. Same /\ UNCHANGED <<active, stored, ring>> /\ demod.pc = "recheck" /\ Goto("settle")
      BY <1>17, <2>2 DEF DemodRecheck
    <3>2. Typed /\ demod'.pc = "settle" /\ demod'.span = demod.span /\ demod'.held = demod.held
          /\ UNCHANGED overlooked
      BY <3>1, <1>6 DEF DemodPcs
    <3>3. controller \notin {"purge", "repurge"}
      BY <2>2 DEF IInv, GateInv
    <3>4. Fresh(demod.span) \/ exiting
      BY <2>2, <3>1, <3>3 DEF IInv, PurgeInv, PurgeDue
    <3>5. PurgedNeverDemodulated'
      BY <3>1, <3>2, <3>4 DEF PurgedNeverDemodulated, OthersOfDemod
    <3>6. FlagInv' /\ Enters /\ SpanDue /\ Made
      BY StoredKept, <1>0, <2>2, <3>1, <3>2 DEF FlagInv, Quiet, InBlock
    <3> QED
      BY <1>0, <1>2, <1>4, <3>1, <3>2, <3>5, <3>6
  <2> QED
    BY <2>1, <2>2
<1>18. CASE DemodSettle
  <2>1. CASE Discard
    BY <1>18, <2>1, DiscardKeeps DEF DemodSettle, Quiet
  <2>2. CASE ~ gate /\ Goto("process") /\ UNCHANGED <<active, stored, ring>>
    <3>1. /\ Typed /\ demod'.pc = "process" /\ demod'.span = demod.span
          /\ demod'.held = demod.held /\ Same /\ Still /\ ring' = ring /\ demod.pc = "settle"
      BY <1>18, <2>2, <1>6 DEF DemodSettle, DemodPcs
    <3> QED
      BY <1>2, <1>16, <3>1
  <2> QED
    BY <1>18, <2>1, <2>2 DEF DemodSettle
<1>19. CASE DemodProcess
  <2>1. Same /\ Still /\ demod.pc = "process" /\ Ring
    BY <1>2, <1>3, <1>19 DEF DemodProcess
  <2>2. /\ Typed /\ demod'.pc = "output"
        /\ demod'.span.committed = demod.span.committed /\ demod'.span.config = config
    BY <1>0, <1>19 DEF DemodProcess, DemodPcs, Blocks
  <2>3. Drained
    BY <1>0, <1>19, <2>1 DEF DemodProcess, CommitSpan, Drained, FlagInv, Quiet
  <2> QED
    BY <1>16, <2>1, <2>2, <2>3
<1>20. CASE DemodOutput
  <2>1. CASE gate \/ exit_flag
    <3>1. LeaveOutput /\ Same /\ ring' = ring /\ demod.pc = "output"
      BY <1>20, <2>1 DEF DemodOutput
    <3>2. Drained /\ ~ Quiet
      BY <1>0, <3>1 DEF FlagInv, Quiet
    <3>3. Arriving(FALSE)' /\ active' = active /\ ToTop
      BY <3>1, <3>2, StoreKeepsFlag DEF LeaveOutput
    <3> QED
      BY <1>2, <3>1, <3>2, <3>3, TopKeeps
  <2>2. CASE ~ (gate \/ exit_flag)
    <3>1. /\ Goto("write") /\ Same /\ UNCHANGED <<active, stored, ring>> /\ demod.pc = "output"
      BY <1>20, <2>2 DEF DemodOutput
    <3>2. /\ Typed /\ demod'.pc = "write" /\ demod'.span = demod.span /\ UNCHANGED overlooked
      BY <3>1, <1>6 DEF DemodPcs
    <3>3. Made
      BY <3>1, <3>2 DEF IInv, OutputInv
    <3> QED
      BY <1>2, <1>16, <2>2, <3>1, <3>2, <3>3
  <2> QED
    BY <2>1, <2>2
<1>21. CASE DemodWrite
  <2> DEFINE made == [config |-> demod.span.config, overlooked |-> overlooked]
  <2>1. /\ UNCHANGED OthersOfDemod /\ purge' = purge /\ ring' = ring /\ demod.pc = "write"
        /\ LeaveOutput /\ output' = Append(output, made)
    BY <1>21 DEF DemodWrite
  <2>2. Drained /\ active
    BY <1>0, <2>1 DEF FlagInv, Quiet
  <2>3. /\ Arriving(FALSE)' /\ active' = active /\ overlooked' = FALSE
        /\ demod'.pc = "top" /\ Typed
    BY <2>1, <2>2, StoreKeepsFlag DEF LeaveOutput, ToTop, NoBlock, Blocks, DemodPcs
  <2>4. made \in Samples /\ made.config = demod.span.config /\ made.overlooked = overlooked
    BY <1>0 DEF Blocks, Samples
  <2> HIDE DEF made
  <2>5. output \in Seq(Samples)
    BY DEF IInv, Shape
  <2>6. /\ output' \in Seq(Samples)
        /\ \A i \in DOMAIN output' : (i \in DOMAIN output /\ output'[i] = output[i])
                                     \/ output'[i] = made
    BY <2>1, <2>4, <2>5
  <2>7. Shape'
    BY <1>0, <2>1, <2>3, <2>6 DEF IInv, Shape, OthersOfDemod
  <2>8. GateInv'
    <3>1. FlagInv'
      BY <2>2, <2>3 DEF FlagInv, Quiet
    <3>2. ~ InBlock'
      BY <2>3 DEF InBlock
    <3> QED
      BY <2>1, <3>1, <3>2 DEF IInv, GateInv, OthersOfDemod, Reconfiguring
  <2>9. PurgeInv'
    BY <2>1, <2>3 DEF IInv, PurgeInv, PurgeDue, PurgedNeverDemodulated, OthersOfDemod
  <2>10. controller \notin {"idle", "wait", "clear"} => exiting
    BY <2>1 DEF IInv, GateInv, Reconfiguring
  <2>11. OutputOfThisTuning'
    BY <2>1, <2>4, <2>6 DEF IInv, OutputInv, OutputOfThisTuning, OthersOfDemod
  <2> QED
    BY <2>1, <2>3, <2>7, <2>8, <2>9, <2>10, <2>11 DEF IInv, OutputInv, OthersOfDemod
<1> QED
  BY <1>1, <1>7, <1>8, <1>9, <1>10, <1>11, <1>12, <1>14, <1>15, <1>17, <1>18, <1>19, <1>20, <1>21
     DEF DemodStep

(* The decoder reads the output and stops the stream; it applies nothing. *)
LEMMA DecoderInv ==
  ASSUME ~ FamilySwitcher
  PROVE  IInv /\ DecoderStep => IInv'
<1> SUFFICES ASSUME IInv, DecoderStep PROVE IInv'
  OBVIOUS
<1> USE DEF OthersOfDecoder, inputs
<1>1. CASE DecoderRead
  <2>1. /\ output # << >> /\ output' = Tail(output)
        /\ UNCHANGED <<gate, armed, decoder, exiting, overlooked, OthersOfDecoder>>
    BY <1>1 DEF DecoderRead
  <2>2. /\ output' \in Seq(Samples)
        /\ \A i \in DOMAIN output' : i + 1 \in DOMAIN output /\ output'[i] = output[i + 1]
    <3>1. output \in Seq(Samples)
      BY DEF IInv, Shape
    <3> QED
      BY <2>1, <3>1
  <2>3. Shape'
    BY <2>1, <2>2 DEF IInv, Shape
  <2>4. GateInv' /\ PurgeInv'
    BY <2>1, FlagKept DEF IInv, GateInv, InBlock, Reconfiguring, PurgeInv, PurgeDue,
                PurgedNeverDemodulated
  <2>5. OutputInv'
    BY <2>1, <2>2 DEF IInv, OutputInv, OutputOfThisTuning
  <2> QED
    BY <2>3, <2>4, <2>5 DEF IInv
<1>2. CASE SoftStop \/ JoinDemod
  <2>1. /\ UNCHANGED <<gate, armed, output, overlooked, OthersOfDecoder>>
        /\ decoder' \in {"joining", "stopped"}
        /\ exiting' \in BOOLEAN /\ (exiting => exiting')
    BY <1>2 DEF SoftStop, JoinDemod, IInv, Shape
  <2>2. Shape' /\ GateInv'
    BY <2>1, FlagKept DEF IInv, Shape, GateInv, InBlock, Reconfiguring
  <2>3. PurgeInv' /\ OutputInv'
    BY <2>1 DEF IInv, PurgeInv, PurgeDue, PurgedNeverDemodulated, OutputInv, OutputOfThisTuning
  <2> QED
    BY <2>2, <2>3 DEF IInv
<1>3. DecoderRead \/ SoftStop \/ JoinDemod
  BY DEF DecoderStep, SwitchEnter, SwitchIdle, SwitchApply, IInv, GateInv
<1> QED
  BY <1>1, <1>2, <1>3

(* A step of the controller thread keeps the invariant: one step per action. *)
LEMMA ControllerInv == IInv /\ (ControllerBegin \/ ControllerWork) => IInv'
<1> SUFFICES ASSUME IInv, ControllerBegin \/ ControllerWork PROVE IInv'
  OBVIOUS
<1> USE DEF OthersOfController, Advance
<1>1. /\ UNCHANGED <<active, stored, ring, capture, demod, decoder, exit_flag, exiting>>
      /\ UNCHANGED InBlock
      /\ FlagInv'
      /\ overlooked' \in BOOLEAN /\ (overlooked => overlooked')
  <2>1. UNCHANGED <<active, stored, ring, capture, demod, decoder, exit_flag, exiting>>
    BY DEF ControllerBegin, ControllerWork, ControllerWait, ControllerClear, ControllerHold,
           RequestDiscard, RequestPurge, ControllerProgram, ControllerReset, ControllerProfile,
           ControllerRelease, ControllerOpen
  <2>2. UNCHANGED InBlock /\ FlagInv'
    BY <2>1, FlagKept DEF InBlock, IInv, GateInv
  <2>3. overlooked' \in BOOLEAN /\ (overlooked => overlooked')
    BY DEF ControllerBegin, ControllerWork, ControllerWait, ControllerClear, ControllerHold,
           RequestDiscard, RequestPurge, ControllerProgram, ControllerReset, ControllerProfile,
           ControllerRelease, ControllerOpen, DemodIdle, IInv, Shape
  <2> QED
    BY <2>1, <2>2, <2>3
<1>2. CASE ControllerBegin
  BY <1>1, <1>2 DEF ControllerBegin, IInv, Shape, ControllerPcs, GateInv, Reconfiguring, PurgeInv,
     PurgeDue, PurgedNeverDemodulated, OutputInv, OutputOfThisTuning
<1>3. CASE ControllerWait
  <2>3. exiting \/ demod.pc # "write"
    BY <1>3 DEF ControllerWait, DemodIdle, IInv, GateInv, FlagInv, Quiet
  <2>1. exiting \/ overlooked' \/ ~ InBlock
    <3>1. SUFFICES ASSUME ~ active, InBlock PROVE overlooked'
      BY <1>3 DEF ControllerWait, DemodIdle
    <3>2. Arriving(TRUE)
      BY <3>1 DEF IInv, GateInv, FlagInv, Quiet, InBlock
    <3>3. OnItsWay
      <4>1. stored = <<TRUE>>
        BY <3>2 DEF Arriving
      <4>2. 1 \in DOMAIN <<TRUE>> /\ <<TRUE>>[1] = TRUE
        OBVIOUS
      <4> QED
        BY <4>1, <4>2 DEF OnItsWay
    <3> QED
      BY <1>3, <3>3 DEF ControllerWait, DemodIdle
  <2>2. /\ controller = "wait" /\ controller' = "clear"
        /\ UNCHANGED <<gate, hold, generation, purge, output, armed, config, begun>>
    BY <1>3 DEF ControllerWait
  <2> QED
    BY <1>1, <2>1, <2>2, <2>3 DEF IInv, Shape, ControllerPcs, GateInv, Reconfiguring,
       PurgeInv, PurgeDue, PurgedNeverDemodulated, OutputInv, OutputOfThisTuning
<1>4. CASE ControllerClear
  BY <1>1, <1>4 DEF ControllerClear, IInv, Shape, ControllerPcs, GateInv, Reconfiguring, PurgeInv,
     PurgeDue, PurgedNeverDemodulated, OutputInv, OutputOfThisTuning
<1>5. CASE ControllerHold \/ ControllerRelease
  BY <1>1, <1>5 DEF ControllerHold, ControllerRelease, IInv, Shape, ControllerPcs, GateInv,
     Reconfiguring, PurgeInv, PurgeDue, PurgedNeverDemodulated, OutputInv, OutputOfThisTuning
<1>6. CASE RequestDiscard
  <2>1. /\ controller \in {"discard", "rediscard"} /\ controller' \in {"purge", "repurge"}
        /\ generation' = generation + 1
        /\ UNCHANGED <<gate, purge, output, armed, config>>
    BY <1>6 DEF RequestDiscard
  <2>2. exiting \/ overlooked \/ ~ InBlock
    BY <2>1 DEF IInv, GateInv, Reconfiguring
  <2> QED
    BY <1>1, <2>1, <2>2 DEF IInv, Shape, ControllerPcs, GateInv, Reconfiguring, PurgeInv, PurgeDue,
       PurgedNeverDemodulated, OutputInv, OutputOfThisTuning, InBlock
<1>7. CASE RequestPurge
  BY <1>1, <1>7 DEF RequestPurge, IInv, Shape, ControllerPcs, GateInv, Reconfiguring, PurgeInv,
     PurgeDue, PurgedNeverDemodulated, OutputInv, OutputOfThisTuning
<1>8. CASE ControllerProgram
  <2>1. /\ controller = "program" /\ controller' \in {"reset", "release"}
        /\ config' \in {config, config + 1}
        /\ UNCHANGED <<gate, generation, purge, output, armed>>
    BY <1>8 DEF ControllerProgram
  <2>2. exiting \/ output = << >>
    BY <2>1 DEF IInv, OutputInv
  <2>3. exiting \/ overlooked \/ demod.pc \notin {"output", "write"}
    BY <2>1 DEF IInv, GateInv, Reconfiguring, InBlock
  <2>4. OutputInv'
    BY <1>1, <2>1, <2>2, <2>3 DEF OutputInv, OutputOfThisTuning
  <2> QED
    BY <1>1, <2>1, <2>4 DEF IInv, Shape, ControllerPcs, GateInv, Reconfiguring, PurgeInv, PurgeDue,
       PurgedNeverDemodulated
<1>9. CASE ControllerReset
  <2>1. /\ controller = "reset" /\ controller' \in {"profile", "rediscard"}
        /\ UNCHANGED <<generation, purge, output, config>>
    BY <1>9 DEF ControllerReset
  <2>2. gate = TRUE /\ armed = [t \in Togglers |-> FALSE]
    BY <2>1 DEF IInv, GateInv, Shape
  <2>3. gate' = TRUE /\ armed' = [t \in Togglers |-> FALSE]
    BY <1>9, <2>2 DEF ControllerReset, EnterFamilyGate, Togglers
  <2> QED
    BY <1>1, <2>1, <2>2, <2>3 DEF IInv, Shape, ControllerPcs, GateInv, Reconfiguring, PurgeInv,
       PurgeDue, PurgedNeverDemodulated, OutputInv, OutputOfThisTuning
<1>10. CASE ControllerProfile
  <2>1. /\ controller = "profile" /\ controller' = "rediscard"
        /\ output' \in {output, << >>}
        /\ UNCHANGED <<generation, purge, config>>
    BY <1>10 DEF ControllerProfile, ClearIfChanged
  <2>2. gate = TRUE /\ armed = [t \in Togglers |-> FALSE]
    BY <2>1 DEF IInv, GateInv, Shape
  <2>3. gate' = TRUE /\ armed' = [t \in Togglers |-> FALSE]
    BY <1>10, <2>2 DEF ControllerProfile, LeaveFamilyGate, Togglers
  <2> DEFINE Goal == OutputInv' /\ output' \in Seq(Samples)
  <2>4. ASSUME output' = output PROVE Goal
    BY <1>1, <2>1, <2>4 DEF IInv, Shape, OutputInv, OutputOfThisTuning
  <2>5. ASSUME output' = << >> PROVE Goal
    <3>1. output' \in Seq(Samples) /\ DOMAIN output' = {}
      BY <2>5
    <3> QED
      BY <1>1, <2>1, <2>5, <3>1 DEF IInv, OutputInv, OutputOfThisTuning
  <2>6. Goal
    BY <2>1, <2>4, <2>5
  <2>7. Shape' /\ GateInv'
    BY <1>1, <2>1, <2>2, <2>3, <2>6 DEF IInv, Shape, ControllerPcs, GateInv, Reconfiguring
  <2>8. PurgeInv'
    BY <1>1, <2>1 DEF IInv, PurgeInv, PurgeDue, PurgedNeverDemodulated
  <2> QED
    BY <2>6, <2>7, <2>8 DEF IInv
<1>11. CASE ControllerOpen
  <2>1. /\ controller = "open" /\ controller' = "idle" /\ gate' = FALSE
        /\ UNCHANGED <<generation, purge, output, armed, config>>
    BY <1>11 DEF ControllerOpen
  <2>2. Shape' /\ GateInv'
    BY <1>1, <2>1 DEF IInv, Shape, ControllerPcs, GateInv, Reconfiguring
  <2>3. PurgeInv' /\ OutputInv'
    BY <1>1, <2>1 DEF IInv, PurgeInv, PurgeDue, PurgedNeverDemodulated, OutputInv,
                      OutputOfThisTuning
  <2> QED
    BY <2>2, <2>3 DEF IInv
<1> QED
  BY <1>2, <1>3, <1>4, <1>5, <1>6, <1>7, <1>8, <1>9, <1>10, <1>11 DEF ControllerWork

(* A step of the whole, or none, keeps the invariant. *)
LEMMA StepInv ==
  ASSUME ~ FamilySwitcher
  PROVE  IInv /\ [Next]_vars => IInv'
<1> SUFFICES ASSUME IInv, [Next]_vars PROVE IInv'
  OBVIOUS
<1>1. CASE Flush
  <2>1. /\ active' = Head(stored) /\ stored' = Tail(stored) /\ stored # << >>
        /\ UNCHANGED <<gate, inputs, output, demod, controller, decoder, armed, exit_flag,
                       exiting, overlooked, config, begun>>
    BY <1>1 DEF Flush
  <2>2. FlagInv' /\ active' \in BOOLEAN
    <3>1. UNCHANGED demod /\ ~ Drained
      BY <2>1 DEF Drained
    <3>2. ASSUME NEW v \in BOOLEAN, Arriving(v) PROVE Drained' /\ active' = v
      <4>1. stored = <<v>>
        BY <3>2 DEF Arriving
      <4>2. Head(<<v>>) = v /\ Tail(<<v>>) = << >>
        OBVIOUS
      <4> QED
        BY <2>1, <4>1, <4>2 DEF Drained
    <3>3. CASE Arriving(TRUE)
      <4>1. Drained' /\ active' = TRUE
        BY <3>2, <3>3
      <4>2. Arriving(TRUE) /\ ~ Arriving(FALSE)
        BY <3>3, OneOfThree
      <4> QED
        BY <3>1, <4>1, <4>2 DEF IInv, GateInv, FlagInv, Quiet
    <3>4. CASE Arriving(FALSE)
      <4>1. Drained' /\ active' = FALSE
        BY <3>2, <3>4
      <4>2. Arriving(FALSE) /\ ~ Arriving(TRUE)
        BY <3>4, OneOfThree
      <4> QED
        BY <3>1, <4>1, <4>2 DEF IInv, GateInv, FlagInv, Quiet
    <3> QED
      BY <3>1, <3>3, <3>4 DEF IInv, GateInv, FlagInv
  <2>3. Shape' /\ GateInv'
    BY <2>1, <2>2 DEF inputs, IInv, Shape, GateInv, InBlock, Reconfiguring
  <2>4. PurgeInv' /\ OutputInv'
    BY <2>1 DEF inputs, IInv, PurgeInv, PurgeDue, PurgedNeverDemodulated, OutputInv,
                OutputOfThisTuning
  <2> QED
    BY <2>3, <2>4 DEF IInv
<1>2. CASE RaiseExit
  BY <1>2, FlagKept DEF RaiseExit, flags, inputs, IInv, Shape, GateInv, InBlock,
              Reconfiguring, PurgeInv, PurgeDue, PurgedNeverDemodulated, OutputInv,
              OutputOfThisTuning
<1>3. CASE UNCHANGED vars
  BY <1>3, FlagKept DEF vars, IInv, Shape, GateInv, InBlock, Reconfiguring, PurgeInv,
              PurgeDue, PurgedNeverDemodulated, OutputInv, OutputOfThisTuning
<1> QED
  BY <1>1, <1>2, <1>3, CaptureInv, DemodInv, DecoderInv, ControllerInv DEF Next

(* The inductive invariant of a stream where only the controller thread     *)
(* closes the gate, with the stores of the demod thread delayed or not.    *)
THEOREM Invariance ==
  ASSUME ~ FamilySwitcher
  PROVE  Spec => []IInv
<1>1. Init => IInv
  BY InitInv
<1>2. IInv /\ [Next]_vars => IInv'
  BY StepInv
<1> QED
  BY <1>1, <1>2, PTL DEF Spec

(* controller_enter_reconfigure_gate against demod_enter_processing_block:  *)
(* from the end of the controller's wait to the opening of the gate no      *)
(* block is under way, however the two interleave, except one whose        *)
(* announcing store had not arrived when the wait ended.                   *)
THEOREM GateExcludes ==
  ASSUME ~ FamilySwitcher
  PROVE  Spec => []IdleMeansIdle
<1>1. IInv => IdleMeansIdle
  BY DEF IInv, GateInv, IdleMeansIdle
<1> QED
  BY <1>1, Invariance, PTL

(* A block that was in the input ring when controller_request_input_purge    *)
(* ran never reaches full_demod, wherever the demod thread was in its pass,  *)
(* unless the reconfigure's wait overlooked it.                            *)
THEOREM PurgeReachesEveryBlock ==
  ASSUME ~ FamilySwitcher
  PROVE  Spec => []PurgedNeverDemodulated
<1>1. IInv => PurgedNeverDemodulated
  BY DEF IInv, PurgeInv
<1> QED
  BY <1>1, Invariance, PTL

(* The output ring holds nothing demodulated before the last reprogramming, *)
(* but for blocks that a reconfigure's wait overlooked.                    *)
THEOREM OutputIsCurrent ==
  ASSUME ~ FamilySwitcher
  PROVE  Spec => []OutputOfThisTuning
<1>1. IInv => OutputOfThisTuning
  BY DEF IInv, OutputInv
<1> QED
  BY <1>1, Invariance, PTL

-----------------------------------------------------------------------------
(* The gate needs no order between the stores of the demod thread, only     *)
(* that no other thread opens it.                                          *)
SoleOwner ==
  /\ decoder \notin {"wait", "apply"}
  /\ armed = [t \in Togglers |-> FALSE]
  /\ gate \in BOOLEAN
  /\ gate <=> controller # "idle"

(* The controller's nested profile leaves the gate it found closed as it is. *)
LEMMA ControllerSoleOwner == SoleOwner /\ (ControllerBegin \/ ControllerWork) => SoleOwner'
<1> SUFFICES ASSUME SoleOwner, ControllerBegin \/ ControllerWork PROVE SoleOwner'
  OBVIOUS
<1> USE DEF SoleOwner, Advance, OthersOfController
<1>1. CASE ControllerReset
  <2>1. gate = TRUE
    BY <1>1 DEF ControllerReset
  <2>2. gate' = TRUE /\ armed' = [t \in Togglers |-> FALSE]
    BY <1>1, <2>1 DEF ControllerReset, EnterFamilyGate, Togglers
  <2> QED
    BY <1>1, <2>1, <2>2 DEF ControllerReset
<1>2. CASE ControllerProfile
  <2>1. gate = TRUE
    BY <1>2 DEF ControllerProfile
  <2>2. gate' = TRUE /\ armed' = [t \in Togglers |-> FALSE]
    BY <1>2, <2>1 DEF ControllerProfile, LeaveFamilyGate, Togglers
  <2> QED
    BY <1>2, <2>1, <2>2 DEF ControllerProfile
<1>3. CASE ~ (ControllerReset \/ ControllerProfile)
  BY <1>3 DEF ControllerBegin, ControllerWork, ControllerWait, ControllerClear, ControllerHold,
              RequestDiscard, RequestPurge, ControllerProgram, ControllerRelease, ControllerOpen
<1> QED
  BY <1>1, <1>2, <1>3

(* The capture, the demod thread, a delayed store and the exit flag leave  *)
(* the gate to the other two threads.                                      *)
LEMMA GateUntouched ==
  CaptureStep \/ DemodStep \/ Flush \/ RaiseExit => UNCHANGED <<gate, controller, decoder, armed>>
<1>1. CaptureStep => UNCHANGED <<gate, controller, decoder, armed>>
  BY DEF CaptureStep, CaptureCallback, CaptureReserve, CaptureCheck, CaptureCommit,
         OthersOfCapture, flags
<1>2. DemodStep => UNCHANGED <<gate, controller, decoder, armed>>
  BY DEF DemodStep, DemodPurge, DemodNoPurge, DemodPause, DemodWatermark, DemodRead,
         DemodReadExit, DemodExit, DemodEnter, DemodStore, DemodConfirm, DemodPrepare,
         DemodRecheck, DemodSettle, DemodProcess, DemodOutput, DemodWrite, OthersOfDemod
<1>3. Flush \/ RaiseExit => UNCHANGED <<gate, controller, decoder, armed>>
  BY DEF Flush, RaiseExit, flags
<1> QED
  BY <1>1, <1>2, <1>3

(* A decoder that applies no profile leaves the gate alone. *)
LEMMA DecoderSoleOwner ==
  ASSUME ~ FamilySwitcher
  PROVE  SoleOwner /\ DecoderStep => SoleOwner'
BY DEF SoleOwner, DecoderStep, DecoderRead, SwitchEnter, SwitchIdle, SwitchApply, SoftStop,
       JoinDemod, OthersOfDecoder

(* retune_in_progress covers the whole reset, also across the profile that  *)
(* rtl_stream_toggle_cqpsk applies through the same flag in the middle, and *)
(* in a build whose stores are delayed.                                    *)
THEOREM GateStaysClosed ==
  ASSUME ~ FamilySwitcher
  PROVE  Spec => []GateCoversReset
<1>1. Init => SoleOwner
  BY DEF Init, SoleOwner
<1>2. SoleOwner /\ [Next]_vars => SoleOwner'
  <2>1. SoleOwner /\ UNCHANGED vars => SoleOwner'
    BY DEF SoleOwner, vars
  <2> QED
    BY <2>1, ControllerSoleOwner, DecoderSoleOwner, GateUntouched DEF Next, SoleOwner
<1>3. SoleOwner => GateCoversReset
  BY DEF SoleOwner, GateCoversReset, Reconfiguring
<1> QED
  BY <1>1, <1>2, <1>3, PTL DEF Spec

-----------------------------------------------------------------------------
(* What follows holds of every build: with delayed stores, and with a      *)
(* decoder thread that applies profiles itself.                            *)

(* Only a decoder that is in a profile has armed the gate: whoever finds   *)
(* the gate closed on entry is not its owner and leaves it to the other.   *)
OwnerInv ==
  /\ gate \in BOOLEAN /\ armed \in [Togglers -> BOOLEAN]
  /\ armed["decoder"] => decoder \in {"wait", "apply"}
  /\ GateHasOwner

(* The decoder's steps: entering arms the gate only if it was open, and    *)
(* leaving opens it only if it was armed.                                  *)
LEMMA DecoderKeepsOwner == OwnerInv /\ DecoderStep => OwnerInv'
<1> SUFFICES ASSUME OwnerInv, DecoderStep PROVE OwnerInv'
  OBVIOUS
<1> USE DEF OwnerInv, GateHasOwner, OthersOfDecoder, Togglers
<1>1. CASE DecoderRead
  BY <1>1 DEF DecoderRead
<1>2. CASE SwitchEnter
  BY <1>2 DEF SwitchEnter, EnterFamilyGate
<1>3. CASE SwitchIdle
  BY <1>3 DEF SwitchIdle
<1>4. CASE SwitchApply
  BY <1>4 DEF SwitchApply, LeaveFamilyGate
<1>5. CASE SoftStop
  BY <1>5 DEF SoftStop
<1>6. CASE JoinDemod
  BY <1>6 DEF JoinDemod
<1> QED
  BY <1>1, <1>2, <1>3, <1>4, <1>5, <1>6 DEF DecoderStep

(* The controller's steps: it is idle only once it has opened the gate. *)
LEMMA ControllerKeepsOwner == OwnerInv /\ (ControllerBegin \/ ControllerWork) => OwnerInv'
<1> SUFFICES ASSUME OwnerInv, ControllerBegin \/ ControllerWork PROVE OwnerInv'
  OBVIOUS
<1> USE DEF OwnerInv, GateHasOwner, OthersOfController, Advance
<1>1. CASE ControllerBegin
  BY <1>1 DEF ControllerBegin
<1>2. CASE ControllerWait \/ ControllerClear \/ ControllerHold
  BY <1>2 DEF ControllerWait, ControllerClear, ControllerHold
<1>3. CASE RequestDiscard \/ RequestPurge
  BY <1>3 DEF RequestDiscard, RequestPurge
<1>4. CASE ControllerProgram
  BY <1>4 DEF ControllerProgram
<1>5. CASE ControllerReset
  BY <1>5 DEF ControllerReset, EnterFamilyGate, Togglers
<1>6. CASE ControllerProfile
  BY <1>6 DEF ControllerProfile, LeaveFamilyGate, Togglers
<1>7. CASE ControllerRelease \/ ControllerOpen
  BY <1>7 DEF ControllerRelease, ControllerOpen
<1> QED
  BY <1>1, <1>2, <1>3, <1>4, <1>5, <1>6, <1>7 DEF ControllerWork

(* No other thread touches the gate or who armed it. *)
LEMMA OthersKeepOwner == OwnerInv /\ (CaptureStep \/ DemodStep \/ Flush \/ RaiseExit) => OwnerInv'
  BY GateUntouched DEF OwnerInv, GateHasOwner

(* A gate that is closed is one somebody is going to open, whatever the   *)
(* order of stores and whoever switches profiles.                          *)
THEOREM GateHasOwnerAlways == Spec => []GateHasOwner
<1>1. Init => OwnerInv
  <2> SUFFICES ASSUME Init PROVE OwnerInv
    OBVIOUS
  <2>1. armed = [t \in Togglers |-> FALSE] /\ "decoder" \in Togglers /\ gate = FALSE
    BY DEF Init, Togglers
  <2>2. armed \in [Togglers -> BOOLEAN] /\ ~ armed["decoder"]
    BY <2>1
  <2> QED
    BY <2>1, <2>2 DEF OwnerInv, GateHasOwner
<1>2. OwnerInv /\ [Next]_vars => OwnerInv'
  <2> SUFFICES ASSUME OwnerInv, [Next]_vars PROVE OwnerInv'
    OBVIOUS
  <2>1. CASE Next
    BY <2>1, DecoderKeepsOwner, ControllerKeepsOwner, OthersKeepOwner DEF Next
  <2>2. CASE UNCHANGED vars
    BY <2>2 DEF vars, OwnerInv, GateHasOwner
  <2> QED
    BY <2>1, <2>2
<1>3. OwnerInv => GateHasOwner
  BY DEF OwnerInv
<1> QED
  BY <1>1, <1>2, <1>3, PTL DEF Spec

-----------------------------------------------------------------------------
(* Capacities: one producer each, that has seen room before it adds.       *)
RoomInv ==
  /\ capture.pc \in {"reserved", "checked"} => Len(ring) < RingBlocks
  /\ demod.pc = "write" => Len(output) < OutputBlocks

(* An empty ring has its type and every capacity. *)
LEMMA EmptyFits ==
  ASSUME NEW S, NEW n \in Nat
  PROVE  << >> \in Seq(S) /\ Len(<< >>) = 0 /\ Len(<< >>) <= n
OBVIOUS

(* Dropping the oldest block keeps the type and makes room. *)
LEMMA TailShorter ==
  ASSUME NEW S, NEW s \in Seq(S), s # << >>
  PROVE  Tail(s) \in Seq(S) /\ Len(Tail(s)) = Len(s) - 1 /\ Len(Tail(s)) \in Nat
OBVIOUS

(* Adding one keeps the type and takes one place. *)
LEMMA AppendLonger ==
  ASSUME NEW S, NEW s \in Seq(S), NEW e \in S
  PROVE  Append(s, e) \in Seq(S) /\ Len(Append(s, e)) = Len(s) + 1
OBVIOUS

TypeInv == TypeOK /\ RoomInv

(* The capture callback reserves only where there is room, and nobody else *)
(* adds to the ring before it commits.                                     *)
LEMMA CaptureKeepsTypes == TypeInv /\ CaptureStep => TypeInv'
<1> SUFFICES ASSUME TypeInv, CaptureStep PROVE TypeInv'
  OBVIOUS
<1> DEFINE CaptureTypes == capture' \in [pc : {"idle", "arrived", "reserved", "checked"},
                                           block : Blocks]
           Room == capture'.pc \in {"reserved", "checked"} => Len(ring') < RingBlocks
<1>0. /\ Len(ring) \in Nat /\ generation \in Nat /\ config \in Nat
      /\ capture \in [pc : {"idle", "arrived", "reserved", "checked"}, block : Blocks]
      /\ capture.pc \in {"reserved", "checked"} => Len(ring) < RingBlocks
      /\ ring \in Seq(Blocks) /\ Len(ring) <= RingBlocks /\ RingBlocks \in Nat
      /\ NothingCaptured \in [pc : {"idle", "arrived", "reserved", "checked"}, block : Blocks]
      /\ NothingCaptured.pc = "idle"
  BY RingAssumption DEF TypeInv, TypeOK, RoomInv, NothingCaptured, NoBlock, Blocks
<1>1. ASSUME UNCHANGED OthersOfCapture, CaptureTypes, Room,
             ring' \in Seq(Blocks), Len(ring') <= RingBlocks
      PROVE  TypeInv'
  BY <1>1 DEF TypeInv, TypeOK, RoomInv, OthersOfCapture, flags
<1>2. CASE CaptureCallback
  <2>1. [NoBlock EXCEPT !.config = config] \in Blocks
    BY <1>0 DEF NoBlock, Blocks
  <2> QED
    BY <2>1, <1>0, <1>1, <1>2 DEF CaptureCallback
<1>3. CASE CaptureReserve
  <2>1. CaptureTypes
    BY <1>0, <1>3 DEF CaptureReserve, Blocks
  <2>2. Room
    BY <1>0, <1>3 DEF CaptureReserve
  <2> QED
    BY <2>1, <2>2, <1>0, <1>1, <1>3 DEF CaptureReserve
<1>4. CASE CaptureCheck
  <2>1. CaptureTypes
    BY <1>0, <1>4 DEF CaptureCheck
  <2>2. Room
    BY <1>0, <1>4 DEF CaptureCheck
  <2> QED
    BY <2>1, <2>2, <1>0, <1>1, <1>4 DEF CaptureCheck
<1>5. CASE CaptureCommit
  <2>1. [capture.block EXCEPT !.committed = generation] \in Blocks
    BY <1>0 DEF Blocks
  <2>2. ring' \in Seq(Blocks) /\ Len(ring') = Len(ring) + 1
    BY <2>1, <1>0, <1>5, AppendLonger DEF CaptureCommit
  <2>3. Len(ring') <= RingBlocks
    BY <2>2, <1>0, <1>5 DEF CaptureCommit
  <2>4. CaptureTypes /\ Room
    <3>1. [capture EXCEPT !.pc = "arrived", !.block.reserved = 0]
            \in [pc : {"idle", "arrived", "reserved", "checked"}, block : Blocks]
      BY <1>0 DEF Blocks
    <3>2. [capture EXCEPT !.pc = "arrived", !.block.reserved = 0].pc = "arrived"
      BY <1>0
    <3> QED
      BY <1>0, <1>5, <3>1, <3>2 DEF CaptureCommit
  <2> QED
    BY <2>2, <2>3, <2>4, <1>1, <1>5 DEF CaptureCommit
<1> QED
  BY <1>2, <1>3, <1>4, <1>5 DEF CaptureStep

(* What the demod thread's helpers leave: shorter rings, Boolean stores. *)
LEMMA CommitShortens ==
  ASSUME TypeInv, CommitSpan
  PROVE  ring' \in Seq(Blocks) /\ Len(ring') <= Len(ring)
<1>0. Len(ring) \in Nat
  BY DEF TypeInv, TypeOK
<1>1. CASE demod.held /\ ring # << >>
  BY <1>0, <1>1, TailShorter DEF CommitSpan, TypeInv, TypeOK
<1>2. CASE ~ (demod.held /\ ring # << >>)
  BY <1>0, <1>2 DEF CommitSpan, TypeInv, TypeOK
<1> QED
  BY <1>1, <1>2

(* A store of the flag, delayed or not, is a Boolean. *)
LEMMA StoreKeepsTypes ==
  ASSUME TypeInv, NEW v \in BOOLEAN, StoreActive(v)
  PROVE  active' \in BOOLEAN /\ stored' \in Seq(BOOLEAN)
<1>1. stored \in Seq(BOOLEAN) /\ active \in BOOLEAN
  BY DEF TypeInv, TypeOK
<1>2. Append(stored, v) \in Seq(BOOLEAN)
  BY <1>1, AppendLonger
<1> QED
  BY <1>1, <1>2 DEF StoreActive

(* The demod thread adds to the output only after it has seen room. *)
LEMMA DemodKeepsTypes == TypeInv /\ DemodStep => TypeInv'
<1> SUFFICES ASSUME TypeInv, DemodStep PROVE TypeInv'
  OBVIOUS
<1> DEFINE Keeps == /\ active' \in BOOLEAN /\ stored' \in Seq(BOOLEAN) /\ purge' \in BOOLEAN
                    /\ ring' \in Seq(Blocks) /\ Len(ring') <= Len(ring)
                    /\ output' \in Seq(Samples) /\ Len(output') <= OutputBlocks
                    /\ demod'.pc = "write" => Len(output') < OutputBlocks
           PcKept == demod' \in [pc : {"top", "gate", "read", "enter", "store", "confirm",
                                       "prepare", "recheck", "settle", "process", "output",
                                       "write", "exited"}, span : Blocks, held : BOOLEAN]
           Rest == UNCHANGED OthersOfDemod /\ overlooked' \in BOOLEAN
           Still == UNCHANGED <<active, stored, ring, output>>
<1>0. /\ Len(ring) \in Nat /\ Len(output) \in Nat /\ RingBlocks \in Nat /\ OutputBlocks \in Nat
      /\ active \in BOOLEAN /\ stored \in Seq(BOOLEAN) /\ purge \in BOOLEAN
      /\ ring \in Seq(Blocks) /\ output \in Seq(Samples) /\ Len(output) <= OutputBlocks
      /\ demod \in [pc : {"top", "gate", "read", "enter", "store", "confirm",
                          "prepare", "recheck", "settle", "process", "output",
                          "write", "exited"}, span : Blocks, held : BOOLEAN]
      /\ demod.pc = "write" => Len(output) < OutputBlocks
      /\ overlooked \in BOOLEAN /\ NoBlock \in Blocks
  BY RingAssumption DEF TypeInv, TypeOK, RoomInv, NoBlock, Blocks
<1>1. ASSUME Keeps, PcKept, Rest PROVE TypeInv'
  BY <1>0, <1>1 DEF TypeInv, TypeOK, RoomInv, OthersOfDemod
<1> USE DEF Goto, ToTop
<1>15. ASSUME Still, purge' \in BOOLEAN, demod'.pc # "write" PROVE Keeps
  BY <1>0, <1>15
<1>16. ASSUME ToTop PROVE PcKept /\ overlooked' \in BOOLEAN
  <2>1. demod' = [pc |-> "top", span |-> NoBlock, held |-> FALSE] /\ overlooked' = FALSE
    BY <1>16 DEF ToTop
  <2> QED
    BY <1>0, <2>1
<1>2. CASE DemodPurge
  <2>1. ring' \in Seq(Blocks) /\ Len(ring') <= Len(ring)
    BY <1>0, <1>2, EmptyFits DEF DemodPurge
  <2>2. Keeps /\ PcKept /\ Rest
    BY <2>1, <1>0, <1>2 DEF DemodPurge
  <2> QED
    BY <2>2, <1>1
<1>3. CASE DemodNoPurge \/ DemodPause \/ DemodWatermark \/ DemodReadExit \/ DemodExit
  <2>1. Still /\ purge' \in BOOLEAN /\ demod'.pc # "write"
    BY <1>0, <1>3 DEF DemodNoPurge, DemodPause, DemodWatermark, DemodReadExit, DemodExit
  <2>2. PcKept /\ Rest
    <3>1. CASE DemodNoPurge \/ DemodPause \/ DemodExit
      BY <1>0, <3>1 DEF DemodNoPurge, DemodPause, DemodExit
    <3>2. CASE DemodWatermark \/ DemodReadExit
      BY <1>16, <3>2 DEF DemodWatermark, DemodReadExit
    <3> QED
      BY <1>3, <3>1, <3>2
  <2> QED
    BY <2>1, <2>2, <1>1, <1>15
<1>4. CASE DemodRead
  <2>1. Head(ring) \in Blocks
    BY <1>0, <1>4 DEF DemodRead
  <2>2. Keeps /\ PcKept /\ Rest
    BY <2>1, <1>0, <1>4 DEF DemodRead
  <2> QED
    BY <2>2, <1>1
<1>5. CASE DemodEnter
  <2>1. ring' \in Seq(Blocks) /\ Len(ring') <= Len(ring)
    BY <1>0, <1>5, CommitShortens DEF DemodEnter
  <2>3. Keeps
    BY <2>1, <1>0, <1>5 DEF DemodEnter
  <2>2. PcKept /\ Rest
    <3>1. CASE gate
      BY <1>5, <1>16, <3>1 DEF DemodEnter
    <3>2. CASE ~ gate
      BY <1>0, <1>5, <3>2 DEF DemodEnter
    <3> QED
      BY <3>1, <3>2
  <2> QED
    BY <2>2, <2>3, <1>1
<1>6. CASE DemodStore
  <2>1. active' \in BOOLEAN /\ stored' \in Seq(BOOLEAN)
    BY <1>6, StoreKeepsTypes DEF DemodStore
  <2>2. Keeps
    BY <2>1, <1>0, <1>6 DEF DemodStore
  <2>3. PcKept /\ Rest
    BY <1>0, <1>6 DEF DemodStore
  <2> QED
    BY <2>2, <2>3, <1>1
<1>7. ASSUME Discard, UNCHANGED <<purge, output>>, UNCHANGED OthersOfDemod PROVE TypeInv'
  <2>1. active' \in BOOLEAN /\ stored' \in Seq(BOOLEAN)
    BY <1>7, StoreKeepsTypes DEF Discard
  <2>2. ring' \in Seq(Blocks) /\ Len(ring') <= Len(ring)
    BY <1>7, CommitShortens DEF Discard
  <2>3. Keeps /\ PcKept /\ Rest
    BY <2>1, <2>2, <1>0, <1>7 DEF Discard
  <2> QED
    BY <2>3, <1>1, <1>7
<1>8. CASE DemodConfirm
  <2>1. CASE gate
    BY <2>1, <1>7, <1>8 DEF DemodConfirm
  <2>2. CASE ~ gate
    <3>1. Still /\ purge' \in BOOLEAN /\ demod'.pc # "write"
      BY <2>2, <1>0, <1>8 DEF DemodConfirm
    <3>2. PcKept /\ Rest
      BY <2>2, <1>0, <1>8 DEF DemodConfirm
    <3> QED
      BY <3>1, <3>2, <1>1, <1>15
  <2> QED
    BY <2>1, <2>2
<1>9. CASE DemodPrepare
  <2>1. ring' \in Seq(Blocks) /\ Len(ring') <= Len(ring)
    BY <1>0, <1>9, CommitShortens DEF DemodPrepare
  <2>2. Keeps
    BY <2>1, <1>0, <1>9 DEF DemodPrepare
  <2>3. PcKept /\ Rest
    BY <1>0, <1>9 DEF DemodPrepare
  <2> QED
    BY <2>2, <2>3, <1>1
<1>10. CASE DemodRecheck
  <2>1. CASE gate \/ purge
    BY <2>1, <1>7, <1>10 DEF DemodRecheck
  <2>2. CASE ~ (gate \/ purge)
    <3>1. Still /\ purge' \in BOOLEAN /\ demod'.pc # "write"
      BY <2>2, <1>0, <1>10 DEF DemodRecheck
    <3>2. PcKept /\ Rest
      BY <2>2, <1>0, <1>10 DEF DemodRecheck
    <3> QED
      BY <3>1, <3>2, <1>1, <1>15
  <2> QED
    BY <2>1, <2>2
<1>11. CASE DemodSettle
  <2>1. CASE Discard
    BY <2>1, <1>7, <1>11 DEF DemodSettle
  <2>2. CASE ~ Discard
    <3>1. Still /\ purge' \in BOOLEAN /\ demod'.pc # "write"
      BY <2>2, <1>0, <1>11 DEF DemodSettle
    <3>2. PcKept /\ Rest
      BY <2>2, <1>0, <1>11 DEF DemodSettle
    <3> QED
      BY <3>1, <3>2, <1>1, <1>15
  <2> QED
    BY <2>1, <2>2
<1>12. CASE DemodProcess
  <2>1. ring' \in Seq(Blocks) /\ Len(ring') <= Len(ring)
    BY <1>0, <1>12, CommitShortens DEF DemodProcess
  <2>2. Keeps
    BY <2>1, <1>0, <1>12 DEF DemodProcess
  <2>3. config \in Nat
    BY DEF TypeInv, TypeOK
  <2>4. PcKept /\ Rest
    BY <2>3, <1>0, <1>12 DEF DemodProcess, Blocks
  <2> QED
    BY <2>2, <2>4, <1>1
<1>13. CASE DemodOutput
  <2>2. Keeps
    <3>1. CASE gate \/ exit_flag
      <4>1. LeaveOutput /\ UNCHANGED <<purge, ring, output>>
        BY <3>1, <1>13 DEF DemodOutput
      <4>2. active' \in BOOLEAN /\ stored' \in Seq(BOOLEAN)
        BY <4>1, StoreKeepsTypes DEF LeaveOutput
      <4>3. demod'.pc # "write"
        BY <4>1, <1>0 DEF LeaveOutput
      <4> QED
        BY <4>1, <4>2, <4>3, <1>0
    <3>2. CASE ~ (gate \/ exit_flag)
      BY <3>2, <1>0, <1>13 DEF DemodOutput
    <3> QED
      BY <3>1, <3>2
  <2>3. PcKept /\ Rest
    <3>1. CASE gate \/ exit_flag
      BY <1>13, <1>16, <3>1 DEF DemodOutput, LeaveOutput
    <3>2. CASE ~ (gate \/ exit_flag)
      BY <1>0, <1>13, <3>2 DEF DemodOutput
    <3> QED
      BY <3>1, <3>2
  <2> QED
    BY <2>2, <2>3, <1>1
<1>14. CASE DemodWrite
  <2>1. active' \in BOOLEAN /\ stored' \in Seq(BOOLEAN)
    BY <1>14, StoreKeepsTypes DEF DemodWrite, LeaveOutput
  <2>2. output' \in Seq(Samples) /\ Len(output') = Len(output) + 1
    <3>1. [config |-> demod.span.config, overlooked |-> overlooked] \in Samples
      BY DEF TypeInv, TypeOK, Blocks, Samples
    <3> QED
      BY <3>1, <1>0, <1>14, AppendLonger DEF DemodWrite
  <2>3. Len(output') <= OutputBlocks
    BY <2>2, <1>0, <1>14 DEF DemodWrite
  <2>4. Keeps
    BY <2>1, <2>2, <2>3, <1>0, <1>14 DEF DemodWrite, LeaveOutput
  <2>5. PcKept /\ Rest
    BY <1>0, <1>14 DEF DemodWrite, LeaveOutput
  <2> QED
    BY <2>4, <2>5, <1>1
<1> QED
  BY <1>2, <1>3, <1>4, <1>5, <1>6, <1>8, <1>9, <1>10, <1>11, <1>12, <1>13, <1>14 DEF DemodStep

(* The decoder and the controller only take from the output or empty it. *)
LEMMA OthersKeepTypes ==
  TypeInv /\ (DecoderStep \/ ControllerBegin \/ ControllerWork \/ Flush \/ RaiseExit) => TypeInv'
<1> SUFFICES ASSUME TypeInv,
                    DecoderStep \/ ControllerBegin \/ ControllerWork \/ Flush \/ RaiseExit
             PROVE  TypeInv'
  OBVIOUS
<1>0. /\ Len(output) \in Nat /\ output \in Seq(Samples) /\ Len(output) <= OutputBlocks
      /\ OutputBlocks \in Nat
      /\ demod.pc = "write" => Len(output) < OutputBlocks
  BY RingAssumption DEF TypeInv, TypeOK, RoomInv
<1>1. output' \in Seq(Samples) /\ Len(output') <= Len(output)
  <2>1. CASE output' = Tail(output) /\ output # << >>
    BY <2>1, <1>0, TailShorter
  <2>2. CASE output' \in {output, << >>}
    <3>1. << >> \in Seq(Samples) /\ Len(<< >>) = 0
      BY EmptyFits
    <3>2. CASE output' = output
      BY <3>2, <1>0
    <3>3. CASE output' = << >>
      BY <3>1, <3>3, <1>0
    <3> QED
      BY <2>2, <3>2, <3>3
  <2>3. CASE DecoderStep
    BY <2>1, <2>2, <2>3 DEF DecoderStep, DecoderRead, SwitchEnter, SwitchIdle, SwitchApply,
                            SoftStop, JoinDemod, ClearIfChanged
  <2>4. CASE ControllerBegin \/ ControllerWork
    BY <2>2, <2>4 DEF ControllerBegin, ControllerWork, ControllerWait, ControllerClear,
       ControllerHold, RequestDiscard, RequestPurge, ControllerProgram, ControllerReset,
       ControllerProfile, ControllerRelease, ControllerOpen, ClearIfChanged
  <2>5. CASE Flush \/ RaiseExit
    BY <2>2, <2>5 DEF Flush, RaiseExit
  <2> QED
    BY <2>3, <2>4, <2>5
<1>2. (demod.pc = "write" => Len(output') < OutputBlocks) /\ Len(output') <= OutputBlocks
  <2>1. Len(output') \in Nat
    BY <1>1
  <2> QED
    BY <2>1, <1>0, <1>1
<1> DEFINE Rest == UNCHANGED <<ring, capture, demod>>
           Flags == /\ gate' \in BOOLEAN /\ active' \in BOOLEAN /\ stored' \in Seq(BOOLEAN)
                    /\ hold' \in BOOLEAN /\ generation' \in Nat /\ purge' \in BOOLEAN
                    /\ armed' \in [Togglers -> BOOLEAN]
                    /\ exit_flag' \in BOOLEAN /\ exiting' \in BOOLEAN
                    /\ overlooked' \in BOOLEAN
           Places == /\ controller' \in {"idle", "wait", "clear", "hold", "discard", "purge",
                          "program", "reset", "profile", "rediscard", "repurge", "release",
                          "open"}
                     /\ decoder' \in {"idle", "wait", "apply", "joining", "stopped"}
                     /\ config' \in Nat /\ begun' \in 0 .. MaxReconfigures
<1>3. ASSUME Rest, Flags, Places PROVE TypeInv'
  BY <1>1, <1>2, <1>3 DEF TypeInv, TypeOK, RoomInv
<1>4. CASE DecoderStep
  <2> USE <1>4 DEF DecoderStep, DecoderRead, SwitchEnter, SwitchIdle, SwitchApply, SoftStop,
                   JoinDemod, OthersOfDecoder, inputs
  <2>1. Rest
    OBVIOUS
  <2>2. gate' \in BOOLEAN
    BY DEF TypeInv, TypeOK, EnterFamilyGate, LeaveFamilyGate
  <2>3. armed' \in [Togglers -> BOOLEAN]
    BY DEF TypeInv, TypeOK, EnterFamilyGate, LeaveFamilyGate
  <2>4. exiting' \in BOOLEAN /\ overlooked' \in BOOLEAN
    BY DEF TypeInv, TypeOK, DemodIdle
  <2>5. Flags
    <3>1. UNCHANGED <<active, stored, hold, generation, purge, exit_flag>>
      OBVIOUS
    <3> QED
      BY ONLY TypeInv, <3>1, <2>2, <2>3, <2>4 DEF TypeInv, TypeOK
  <2>6. Places
    BY DEF TypeInv, TypeOK
  <2> QED
    BY <2>1, <2>5, <2>6, <1>3
<1>5. CASE ControllerBegin \/ ControllerWork
  <2> USE <1>5 DEF ControllerBegin, ControllerWork, ControllerWait, ControllerClear,
          ControllerHold, RequestDiscard, RequestPurge, ControllerProgram, ControllerReset,
          ControllerProfile, ControllerRelease, ControllerOpen, Advance, OthersOfController
  <2>1. Rest
    OBVIOUS
  <2>2. gate' \in BOOLEAN
    BY DEF TypeInv, TypeOK, EnterFamilyGate, LeaveFamilyGate
  <2>3. armed' \in [Togglers -> BOOLEAN]
    BY DEF TypeInv, TypeOK, EnterFamilyGate, LeaveFamilyGate
  <2>4. hold' \in BOOLEAN /\ purge' \in BOOLEAN /\ overlooked' \in BOOLEAN
    BY DEF TypeInv, TypeOK, DemodIdle
  <2>7. generation' \in Nat
    BY DEF TypeInv, TypeOK
  <2>5. Flags
    <3>1. UNCHANGED <<active, stored, exit_flag, exiting>>
      OBVIOUS
    <3> QED
      BY ONLY TypeInv, <3>1, <2>2, <2>3, <2>4, <2>7 DEF TypeInv, TypeOK
  <2>6. Places
    BY BoundAssumption DEF TypeInv, TypeOK
  <2> QED
    BY <2>1, <2>5, <2>6, <1>3
<1>6. CASE Flush
  <2>1. Head(stored) \in BOOLEAN /\ Tail(stored) \in Seq(BOOLEAN)
    BY <1>6 DEF Flush, TypeInv, TypeOK
  <2>2. Rest /\ Flags /\ Places
    BY <2>1, <1>6 DEF Flush, inputs, TypeInv, TypeOK
  <2> QED
    BY <2>2, <1>3
<1>7. CASE RaiseExit
  <2>1. Rest /\ Flags /\ Places
    BY <1>7 DEF RaiseExit, flags, inputs, TypeInv, TypeOK
  <2> QED
    BY <2>1, <1>3
<1> QED
  BY <1>4, <1>5, <1>6, <1>7

(* Every variable keeps its type, and neither ring ever holds more than    *)
(* its capacity, also with delayed stores and a second switcher.           *)
THEOREM TypeCorrect == Spec => []TypeOK
<1>1. Init => TypeInv
  <2> SUFFICES ASSUME Init PROVE TypeInv
    OBVIOUS
  <2>1. /\ stored \in Seq(BOOLEAN)
        /\ ring \in Seq(Blocks) /\ Len(ring) <= RingBlocks
        /\ output \in Seq(Samples) /\ Len(output) <= OutputBlocks
    BY RingAssumption, EmptyFits DEF Init
  <2>2. NoBlock \in Blocks
    BY DEF NoBlock, Blocks
  <2>3. RoomInv
    BY DEF Init, RoomInv
  <2>4. /\ capture \in [pc : {"idle", "arrived", "reserved", "checked"}, block : Blocks]
        /\ demod.pc = "top" /\ demod.span \in Blocks /\ demod.held \in BOOLEAN
        /\ demod = [pc |-> demod.pc, span |-> demod.span, held |-> demod.held]
    BY <2>2 DEF Init
  <2>5. armed \in [Togglers -> BOOLEAN] /\ 0 \in 0 .. MaxReconfigures
    BY BoundAssumption DEF Init
  <2>6. TypeOK
    BY <2>1, <2>4, <2>5 DEF Init, TypeOK
  <2> QED
    BY <2>3, <2>6 DEF TypeInv
<1>2. TypeInv /\ [Next]_vars => TypeInv'
  <2> SUFFICES ASSUME TypeInv, [Next]_vars PROVE TypeInv'
    OBVIOUS
  <2>1. CASE Next
    BY <2>1, CaptureKeepsTypes, DemodKeepsTypes, OthersKeepTypes DEF Next
  <2>2. CASE UNCHANGED vars
    BY <2>2 DEF vars, TypeInv, TypeOK, RoomInv
  <2> QED
    BY <2>1, <2>2
<1>3. TypeInv => TypeOK
  BY DEF TypeInv
<1> QED
  BY <1>1, <1>2, <1>3, PTL DEF Spec

=============================================================================
