-------------------------- MODULE ChannelScanProofs --------------------------
(***************************************************************************)
(* The scan's settings and its receiver on one row, and frames decoded     *)
(* with the settings they were collected under, for any list of rows and   *)
(* any number of commands.                                                 *)
(***************************************************************************)
EXTENDS ChannelScan, SequenceTheorems, TLAPS

Tunes == [id : Ids, row : Rows, config : {0, 1}]
Scans == [present : BOOLEAN, request : Ids \cup {0}, row : Rows, map : 0 .. MaxMaps,
          retry : BOOLEAN, needs_commit : BOOLEAN, configured : {0, 1}]
Requests == {{}} \cup {{profile} : profile \in Profiles}
Receivers == [rig : Rows \cup {0}, rtl : Rows \cup {0}, profile : Profiles,
              asked : Requests, astray : BOOLEAN]
Frames == [row : Rows \cup {0}, config : {0, 1}, fresh : BOOLEAN]

Typed ==
  /\ scanner \in BOOLEAN /\ config \in {0, 1} /\ map \in 0 .. MaxMaps
  /\ roll \in 1 .. NRows + 1
  /\ scan \in Scans
  /\ installed \in Rows \cup {0}
  /\ receiver \in Receivers
  /\ inflight \in Seq(Tunes) /\ Len(inflight) <= 2
  /\ gate \in Gates /\ gate.older <= Len(inflight)
  /\ result \in [Ids -> {"OK", "FAILED"}]
  /\ frame \in Frames
  /\ upsets \in 0 .. MaxUpsets

(* Two tunes in the controller have two identities. *)
IdsApart == Len(inflight) = 2 => inflight[1].id # inflight[2].id

(* What the scan waits for is the newest tune, to its row under the         *)
(* configuration it prepared, or has been answered.                        *)
WaitsForNewest ==
  (Waiting(scan) /\ inflight # << >>) =>
    /\ ~ scan.retry
    /\ inflight[Len(inflight)] = [id |-> scan.request, row |-> scan.row, config |-> scan.configured]

(* Tunes of a scan that was left are gone before another row is installed. *)
TunesAreOwned ==
  (installed # 0 /\ inflight # << >>) => Waiting(scan) /\ Len(inflight) = 1

(* A waiting row is never obsolete, and a retry is for want of a commit. *)
WaitingIsCurrent ==
  /\ Waiting(scan) => RowIsCurrent
  /\ scan.retry => scan.needs_commit

HasMoved == scan.request # 0 /\ Status(scan.request) = "OK"

(* Receiver r demodulates a row, unless a request went astray. *)
RtlOn(r, row, cfg) == r.astray \/ Front(r) = {Profile(row, cfg)}

(* Where the receiver is: on the row that waits for its commit, with the    *)
(* configuration prepared for it, or with the one in use if the row is      *)
(* tuned again; else on the installed row.  A rigctl receiver beside it may *)
(* have moved elsewhere.                                                   *)
ReceiverIsKnown ==
  /\ HasMoved => /\ receiver.rtl = scan.row
                 /\ \/ RtlOn(receiver, scan.row, scan.configured)
                    \/ installed = scan.row /\ RtlOn(receiver, scan.row, config)
  /\ (installed # 0 /\ ~ scan.needs_commit /\ ~ HasMoved) =>
       receiver.rtl = installed /\ RtlOn(receiver, installed, config)
  /\ ~ Dual => receiver.rig = receiver.rtl

Core ==
  Typed /\ IdsApart /\ WaitsForNewest /\ TunesAreOwned /\ WaitingIsCurrent /\ ReceiverIsKnown

(* From the start of a search a frame belongs to the profile in use; once   *)
(* checked nothing is waiting, and no tune is under way when it is processed. *)
FrameIsKnown ==
  /\ pc \in Pcs
  /\ pc \in {"search", "synced", "check", "processing"} =>
       frame.row = installed /\ frame.config = config
  /\ pc \in {"check", "processing"} => ~ Waiting(scan) /\ ~ scan.needs_commit
  /\ pc = "processing" => frame.fresh /\ inflight = << >>

IInv == Core /\ FrameIsKnown

-----------------------------------------------------------------------------
(* Constants, identities and the controller's queue *)

(* Rows and identities are positive numbers. *)
LEMMA Numbers ==
  /\ NRows \in Nat /\ NRows >= 1 /\ MaxUpsets \in Nat /\ MaxMaps \in Nat
  /\ Rows \subseteq Nat /\ 1 \in Rows /\ 0 \notin Rows
  /\ \A row \in Rows : row + 1 \in 1 .. NRows + 1
  /\ CanFail \subseteq Rows /\ CanSucceed \subseteq Rows
  /\ Ids \subseteq Nat /\ 0 \notin Ids /\ Ids = {1, 2, 3, 4}
BY ScanAssumption DEF Rows, Ids

(* The controller owns no tune, one, or two.                               *)
LEMMA Queue ==
  ASSUME Typed
  PROVE  /\ Len(inflight) \in 0 .. 2
         /\ Len(inflight) = 0 <=> inflight = << >>
         /\ inflight # << >> => inflight[1] \in Tunes
         /\ Len(inflight) = 2 => inflight[2] \in Tunes
         /\ \A id : InFlight(id) <=> \/ inflight # << >> /\ inflight[1].id = id
                                     \/ Len(inflight) = 2 /\ inflight[2].id = id
<1>1. inflight \in Seq(Tunes) /\ Len(inflight) <= 2  BY DEF Typed
<1>2. /\ Len(inflight) \in Nat /\ DOMAIN inflight = 1 .. Len(inflight)
      /\ Len(inflight) = 0 <=> inflight = << >>
  BY <1>1, LenProperties, EmptySeq
<1>3. \A n \in 1 .. Len(inflight) : inflight[n] \in Tunes  BY <1>1, ElementOfSeq
<1> DEFINE n == Len(inflight)
<1>4. n \in 0 .. 2 /\ DOMAIN inflight = 1 .. n
  <2>1. n \in Nat /\ n <= 2  BY <1>1, <1>2
  <2> HIDE DEF n
  <2>2. n \in 0 .. 2  BY <2>1
  <2>3. QED  BY <1>2, <2>2 DEF n
<1>5. \A id : InFlight(id) <=> \E i \in 1 .. n : inflight[i].id = id
  BY <1>4 DEF InFlight
<1>6. n = 0 <=> inflight = << >>  BY <1>2
<1>7. \A i \in 1 .. n : inflight[i] \in Tunes  BY <1>3
<1> HIDE DEF n
<1>8. /\ n # 0 => inflight[1] \in Tunes
      /\ n = 2 => inflight[2] \in Tunes
  BY <1>4, <1>7
<1>9. \A id : InFlight(id) <=> (n # 0 /\ inflight[1].id = id) \/ (n = 2 /\ inflight[2].id = id)
  <2>1. \A i : i \in 1 .. n <=> (n # 0 /\ i = 1) \/ (n = 2 /\ i = 2)  BY <1>4
  <2>2. QED  BY <1>5, <2>1
<1>10. QED  BY <1>4, <1>6, <1>8, <1>9 DEF n

(* There is an identity for a new request, whatever is in flight. *)
LEMMA NewIdIsNew ==
  ASSUME Typed
  PROVE  NewId \in Ids /\ ~ InFlight(NewId) /\ NewId # 0
<1>1. \E id \in Ids : ~ InFlight(id) /\ id # scan.request
  <2> DEFINE x == inflight[1].id
             y == inflight[2].id
             r == scan.request
  <2>1. \A id : InFlight(id) => id \in {x, y}  BY Queue
  <2>2. \E id \in {1, 2, 3, 4} : id # x /\ id # y /\ id # r
    <3> HIDE DEF x, y, r
    <3>1. QED  OBVIOUS
  <2>3. QED  BY <2>1, <2>2, Numbers
<1>2. QED  BY <1>1, Numbers DEF NewId

(* A tune begins: it is the newest one the controller owns. *)
LEMMA TuneBegins ==
  ASSUME Typed, Len(inflight) < 2, NEW tune \in Tunes, inflight' = Append(inflight, tune)
  PROVE  /\ inflight' \in Seq(Tunes) /\ Len(inflight') \in 1 .. 2
         /\ Len(inflight') = Len(inflight) + 1
         /\ inflight'[Len(inflight')] = tune
         /\ Len(inflight') = 2 => inflight'[1] = inflight[1] /\ inflight # << >>
<1>1. inflight \in Seq(Tunes) /\ Len(inflight) \in 0 .. 1  BY Queue DEF Typed
<1>2. Len(inflight) = 0 <=> inflight = << >>  BY Queue
<1>3. /\ inflight' \in Seq(Tunes) /\ Len(inflight') = Len(inflight) + 1
      /\ inflight'[Len(inflight) + 1] = tune
      /\ Len(inflight) = 1 => inflight'[1] = inflight[1]
  BY <1>1
<1>4. QED  BY <1>1, <1>2, <1>3

(* A tune is answered: it was the oldest one. *)
LEMMA TuneEnds ==
  ASSUME Typed, inflight # << >>, inflight' = Tail(inflight)
  PROVE  /\ inflight' \in Seq(Tunes) /\ Len(inflight') = Len(inflight) - 1
         /\ Len(inflight) \in 1 .. 2
         /\ Head(inflight) = inflight[1] /\ Head(inflight) \in Tunes
         /\ inflight' = << >> <=> Len(inflight) = 1
         /\ Len(inflight) = 2 => inflight'[1] = inflight[2]
<1>1. inflight \in Seq(Tunes) /\ Len(inflight) \in 1 .. 2
  <2>1. Len(inflight) \in 0 .. 2 /\ Len(inflight) # 0  BY Queue
  <2> DEFINE n == Len(inflight)
  <2>2. n \in 1 .. 2
    <3>1. n \in 0 .. 2 /\ n # 0  BY <2>1
    <3> HIDE DEF n
    <3>2. QED  BY <3>1
  <2>3. QED  BY <2>2 DEF Typed
<1>2. /\ inflight' \in Seq(Tunes) /\ Len(inflight') = Len(inflight) - 1
      /\ \A i \in 1 .. Len(inflight') : inflight'[i] = inflight[i + 1]
      /\ Head(inflight) \in Tunes
  BY <1>1, HeadTailProperties
<1>3. Head(inflight) = inflight[1]  BY <1>1
<1>4. inflight' = << >> <=> Len(inflight') = 0  BY <1>2, EmptySeq
<1>5. Len(inflight) = 2 => inflight'[1] = inflight[2]
  <2> SUFFICES ASSUME Len(inflight) = 2 PROVE inflight'[1] = inflight[2]  OBVIOUS
  <2>1. 1 \in 1 .. Len(inflight')  BY <1>2
  <2>2. QED  BY <1>2, <2>1
<1>6. QED  BY <1>1, <1>2, <1>3, <1>4, <1>5

-----------------------------------------------------------------------------
(* The receiver, as a value *)

(* Profiles are profiles. *)
LEMMA ProfilesAre ==
  ASSUME NEW row \in Rows \cup {0}, NEW cfg \in {0, 1}
  PROVE  Profile(row, cfg) \in Profiles
BY DEF Profile, Profiles

(* A landing tune brings the front ends to its row, with its profile.      *)
LEMMA MovedIs ==
  ASSUME receiver \in Receivers, NEW row \in Rows, NEW cfg \in {0, 1}
  PROVE  /\ Moved(row, cfg) \in Receivers
         /\ Moved(row, cfg).rig = row /\ Moved(row, cfg).rtl = row
         /\ RtlOn(Moved(row, cfg), row, cfg)
<1> DEFINE q == Profile(row, cfg)
<1>1. q \in Profiles  BY ProfilesAre
<1> HIDE DEF q
<1>2. /\ Moved(row, cfg) = [receiver EXCEPT !.rig = row, !.rtl = row, !.profile = q,
                                            !.astray = ~ (receiver.asked \subseteq {q})]
      /\ RtlOn(Moved(row, cfg), row, cfg) =
           (Moved(row, cfg).astray \/ Front(Moved(row, cfg)) = {q})
  BY DEF Moved, RtlOn, q
<1>3. /\ Moved(row, cfg) \in Receivers
      /\ Moved(row, cfg).rig = row /\ Moved(row, cfg).rtl = row
      /\ Moved(row, cfg).profile = q /\ Moved(row, cfg).asked = receiver.asked
      /\ Moved(row, cfg).astray = ~ (receiver.asked \subseteq {q})
  BY <1>1, <1>2 DEF Receivers
<1>4. Moved(row, cfg).astray \/ Front(Moved(row, cfg)) = {q}  BY <1>3 DEF Front
<1>5. QED  BY <1>2, <1>3, <1>4

(* The call itself moves a rigctl receiver at most, and RTL demodulates as  *)
(* before once it has taken what it is asked for.                          *)
Same(r, q) ==
  /\ q.rtl = r.rtl /\ (~ Dual => q.rig = r.rig)
  /\ r.astray => q.astray
  /\ q.astray \/ Front(q) = Front(r)

SameRtl == Same(receiver, receiver')

(* A tune without success leaves RTL as it was. *)
LEMMA RestoredIs ==
  ASSUME receiver \in Receivers, NEW row \in Rows
  PROVE  /\ RigMoved(row) \in Receivers /\ Same(receiver, RigMoved(row))
         /\ Restored(RigMoved(row)) \in Receivers /\ Same(receiver, Restored(RigMoved(row)))
         /\ Restored(receiver) \in Receivers /\ Same(receiver, Restored(receiver))
<1> DEFINE r == RigMoved(row)
<1>1. /\ r \in Receivers /\ r.rtl = receiver.rtl /\ (~ Dual => r.rig = receiver.rig)
      /\ r.profile = receiver.profile /\ r.asked = receiver.asked
      /\ r.astray = receiver.astray
  BY DEF RigMoved, Receivers
<1> HIDE DEF r
<1>2. ASSUME NEW q \in Receivers
      PROVE  Restored(q) \in Receivers /\ Same(q, Restored(q))
  <2>1. /\ Restored(q) \in Receivers /\ Restored(q).rtl = q.rtl /\ Restored(q).rig = q.rig
        /\ Restored(q).asked = {q.profile}
        /\ Restored(q).astray = (q.astray \/ ~ (q.asked \subseteq {q.profile}))
    BY <1>2 DEF Restored, Receivers, Requests
  <2>2. Restored(q).astray \/ Front(Restored(q)) = Front(q)  BY <2>1 DEF Front
  <2>3. QED  BY <2>1, <2>2 DEF Same
<1>3. Same(receiver, r)  BY <1>1 DEF Same, Front
<1>4. Same(receiver, Restored(r))  BY <1>1, <1>2, <1>3 DEF Same
<1>5. QED  BY <1>1, <1>2, <1>3, <1>4 DEF r

(* A request replaces the one before, and is astray when RTL has moved on. *)
LEMMA AskedIs ==
  ASSUME receiver \in Receivers, NEW profile \in Profiles
  PROVE  /\ Asked(profile) \in Receivers
         /\ Asked(profile).rig = receiver.rig /\ Asked(profile).rtl = receiver.rtl
         /\ Front(Asked(profile)) = {profile}
         /\ Asked(profile).astray = (receiver.astray \/ receiver.rtl # installed)
<1>1. /\ Asked(profile) \in Receivers
      /\ Asked(profile).rig = receiver.rig /\ Asked(profile).rtl = receiver.rtl
      /\ Asked(profile).asked = {profile}
      /\ Asked(profile).astray = (receiver.astray \/ receiver.rtl # installed)
  BY DEF Asked, Receivers, Requests
<1>2. QED  BY <1>1 DEF Front

-----------------------------------------------------------------------------
(* What the scanner does *)

(* The types of what a tune and the ledger hand over. *)
Handed ==
  /\ receiver' \in Receivers /\ gate' \in Gates /\ result' \in [Ids -> {"OK", "FAILED"}]
  /\ frame' \in Frames /\ upsets' \in 0 .. MaxUpsets

Steady == UNCHANGED <<scanner, config, map>>

(* A row that waits alone for its answer is committed, or waits for a retry: *)
(* the receiver is on it either way.                                       *)
LEMMA CommitIsSound ==
  ASSUME Typed, Steady, Handed, NEW s \in Scans, s.map = map, scanner, ~ s.retry,
         inflight = << >>, inflight' = << >>, gate'.older = 0,
         s.request # 0 => result'[s.request] = "OK",
         receiver'.rtl = s.row,
         \/ RtlOn(receiver', s.row, s.configured)
         \/ installed = s.row /\ RtlOn(receiver', s.row, config),
         ~ Dual => receiver'.rig = receiver'.rtl,
         Commit(s)
  PROVE  Core'
<1>1. s.row \in Rows /\ s.request \in Ids \cup {0} /\ s.retry = FALSE  BY DEF Scans
<1>2. /\ config' = config /\ map' = map /\ scanner' = scanner
      /\ config \in {0, 1} /\ map \in 0 .. MaxMaps /\ scanner = TRUE
      /\ roll \in 1 .. NRows + 1 /\ installed \in Rows \cup {0}
  BY DEF Steady, Typed
<1>3. inflight' \in Seq(Tunes) /\ Len(inflight') = 0  BY EmptySeq
<1>4. \A id : ~ InFlight(id)'  BY DEF InFlight
<1>5. /\ scan' \in Scans /\ roll' \in 1 .. NRows + 1 /\ installed' \in Rows \cup {0}
      /\ scan'.map = map /\ scan'.row = s.row /\ scan'.configured = s.configured
      /\ \/ /\ scan'.request \in {0, s.request} /\ scan'.retry /\ scan'.needs_commit
            /\ installed' = installed
         \/ /\ scan'.request = 0 /\ ~ scan'.retry /\ ~ scan'.needs_commit
            /\ installed' = s.row /\ s.configured = config
  <2>1. CASE /\ scan' = [s EXCEPT !.needs_commit = TRUE, !.request = 0, !.retry = TRUE]
             /\ UNCHANGED <<roll, installed, upsets>>
    BY <1>2, <2>1 DEF Scans
  <2>2. CASE /\ scan' = [s EXCEPT !.needs_commit = TRUE, !.retry = TRUE]
             /\ UNCHANGED <<roll, installed>>
    BY <1>2, <2>2 DEF Scans
  <2>3. CASE /\ s.configured = config
             /\ installed' = s.row
             /\ roll' = s.row + 1
             /\ scan' = [s EXCEPT !.request = 0, !.needs_commit = FALSE]
    <3>1. /\ scan' \in Scans /\ scan'.map = map /\ scan'.row = s.row
          /\ scan'.configured = s.configured /\ scan'.request = 0 /\ scan'.needs_commit = FALSE
          /\ scan'.retry = s.retry
      BY <2>3 DEF Scans
    <3>2. QED  BY <1>1, <1>2, <2>3, <3>1, Numbers
  <2>4. QED  BY <2>1, <2>2, <2>3 DEF Commit
<1>6. Typed'  BY <1>2, <1>3, <1>5 DEF Typed, Handed
<1>7. IdsApart' /\ WaitsForNewest' /\ TunesAreOwned'
  BY <1>3 DEF IdsApart, WaitsForNewest, TunesAreOwned
<1>8. WaitingIsCurrent'  BY <1>2, <1>5 DEF WaitingIsCurrent, RowIsCurrent, Waiting
<1>9. ReceiverIsKnown'
  <2>1. CASE scan'.needs_commit /\ installed' = installed
    BY <1>2, <1>5, <2>1 DEF ReceiverIsKnown
  <2>2. CASE scan'.request = 0 /\ installed' = s.row /\ s.configured = config
    BY <1>2, <1>5, <2>2 DEF ReceiverIsKnown, HasMoved
  <2>3. QED  BY <1>5, <2>1, <2>2
<1>10. QED  BY <1>6, <1>7, <1>8, <1>9 DEF Core

(* Before a row is tuned nothing waits, or the row waits for a retry. *)
May(row) ==
  /\ scanner /\ row \in Rows
  /\ Waiting(scan) => scan.retry /\ row = scan.row

(* Then a tune in flight belongs to a scan that was left. *)
LEMMA NothingOwned ==
  ASSUME Core, NEW row, May(row), inflight # << >>
  PROVE  installed = 0 /\ ~ Waiting(scan)
BY DEF Core, May, TunesAreOwned, WaitsForNewest

(* The record as it is when the tune is asked for. *)
Prepared(row) == [StageRow(row) EXCEPT !.configured = config, !.retry = FALSE]

(* Its fields, whichever request it then waits for. *)
LEMMA PreparedIs ==
  ASSUME Typed, NEW row \in Rows, NEW id \in Ids \cup {0}
  PROVE  /\ Prepared(row) \in Scans /\ StageRow(row) \in Scans
         /\ [Prepared(row) EXCEPT !.request = id] \in Scans
         /\ [Prepared(row) EXCEPT !.request = id].request = id
         /\ [Prepared(row) EXCEPT !.request = id].row = row
         /\ [Prepared(row) EXCEPT !.request = id].map = map
         /\ [Prepared(row) EXCEPT !.request = id].retry = FALSE
         /\ [Prepared(row) EXCEPT !.request = id].configured = config
         /\ [Prepared(row) EXCEPT !.request = id].needs_commit = scan.needs_commit
         /\ Prepared(row).row = row
BY DEF Typed, Scans, Prepared, StageRow

(* The tune gets nowhere: with one receiver nothing has changed, and nobody *)
(* waits for it.                                                           *)
LEMMA GivingUpIsSound ==
  ASSUME Core, Steady, Handed, NEW row, May(row), roll' \in 1 .. NRows + 1,
         scan' = [Prepared(row) EXCEPT !.request = 0], UNCHANGED <<installed, inflight>>,
         gate'.older <= Len(inflight), SameRtl
  PROVE  Core'
<1>1. Typed /\ row \in Rows  BY DEF Core, May
<1>2. /\ scan' \in Scans /\ scan'.request = 0 /\ scan'.retry = FALSE
      /\ scan'.needs_commit = scan.needs_commit
  BY <1>1 DEF Typed, Scans, Prepared, StageRow
<1>3. Typed'  BY <1>1, <1>2 DEF Typed, Steady, Handed
<1>4. IdsApart' /\ WaitsForNewest' /\ WaitingIsCurrent'
  BY <1>2 DEF Core, IdsApart, WaitsForNewest, WaitingIsCurrent, Waiting
<1>5. TunesAreOwned'  BY NothingOwned DEF TunesAreOwned
<1>6. ReceiverIsKnown'
  <2>1. ~ HasMoved'  BY <1>2 DEF HasMoved
  <2>2. ~ scan.needs_commit => ~ HasMoved
    BY DEF HasMoved, Core, WaitingIsCurrent, May, Waiting
  <2>3. QED  BY <1>2, <2>1, <2>2 DEF Core, ReceiverIsKnown, Steady, SameRtl, Same, RtlOn
<1>7. QED  BY <1>3, <1>4, <1>5, <1>6 DEF Core

(* The tune is left with the controller: it is the newest one. *)
LEMMA PendingIsSound ==
  ASSUME Core, Steady, NEW row, May(row), NEW id, id = NewId, Len(inflight) < 2,
         SameRtl, receiver' \in Receivers,
         inflight' = Append(inflight, [id |-> id, row |-> row, config |-> config]),
         scan' = [Prepared(row) EXCEPT !.request = id],
         UNCHANGED <<gate, result, roll, installed, frame, upsets>>
  PROVE  Core'
<1> DEFINE tune == [id |-> id, row |-> row, config |-> config]
<1>1. Typed /\ row \in Rows  BY DEF Core, May
<1>2. id \in Ids /\ id # 0 /\ ~ InFlight(id)  BY <1>1, NewIdIsNew
<1>3. tune \in Tunes  BY <1>1, <1>2 DEF Tunes, Typed
<1>4. /\ inflight' \in Seq(Tunes) /\ Len(inflight') \in 1 .. 2
      /\ Len(inflight') = Len(inflight) + 1
      /\ inflight'[Len(inflight')] = tune
      /\ Len(inflight') = 2 => inflight'[1] = inflight[1] /\ inflight # << >>
  BY <1>1, <1>3, TuneBegins
<1>5. /\ scan' \in Scans /\ scan'.request = id /\ scan'.row = row /\ scan'.map = map
      /\ scan'.retry = FALSE /\ scan'.configured = config
      /\ scan'.needs_commit = scan.needs_commit
  BY <1>1, <1>2 DEF Typed, Scans, Prepared, StageRow
<1>6. Typed'
  <2>1. gate \in Gates /\ gate.older <= Len(inflight) + 1
    <3>1. gate \in Gates /\ gate.older \in Nat /\ gate.older <= Len(inflight)
      BY <1>1 DEF Typed, Gates
    <3>2. Len(inflight) \in 0 .. 2  BY <1>1, Queue
    <3>3. QED  BY <3>1, <3>2
  <2>2. QED  BY <1>1, <1>4, <1>5, <2>1 DEF Typed, Steady
<1>7. IdsApart'  BY <1>1, <1>2, <1>4, Queue DEF IdsApart
<1>8. WaitsForNewest'  BY <1>4, <1>5 DEF WaitsForNewest
<1>9. TunesAreOwned'
  <2>1. installed # 0 => inflight = << >>  BY NothingOwned
  <2>2. inflight = << >> => Len(inflight) = 0  BY EmptySeq
  <2>3. QED  BY <1>2, <1>4, <1>5, <2>1, <2>2 DEF TunesAreOwned, Waiting
<1>10. WaitingIsCurrent'
  BY <1>5 DEF WaitingIsCurrent, RowIsCurrent, Steady, May
<1>11. ReceiverIsKnown'
  <2>1. ~ HasMoved'
    <3>1. InFlight(id)'
      <4>1. Len(inflight') \in DOMAIN inflight'  BY <1>4, LenProperties
      <4>2. QED  BY <1>4, <4>1 DEF InFlight
    <3>2. QED  BY <1>5, <3>1 DEF HasMoved, Status
  <2>2. ~ scan.needs_commit => ~ HasMoved
    BY DEF HasMoved, Core, WaitingIsCurrent, May, Waiting
  <2>3. QED  BY <1>5, <2>1, <2>2 DEF Core, ReceiverIsKnown, Steady, SameRtl, Same, RtlOn
<1>12. QED  BY <1>6, <1>7, <1>8, <1>9, <1>10, <1>11 DEF Core

(* Nothing the scanner's record is about changes. *)
LEMMA RecordStays ==
  ASSUME Core, UNCHANGED <<scanner, map, scan, installed, inflight, result>>,
         config' \in {0, 1}, receiver' \in Receivers, ReceiverIsKnown',
         roll' \in 1 .. NRows + 1, frame' \in Frames, upsets' \in 0 .. MaxUpsets,
         gate' \in Gates, gate'.older <= Len(inflight)
  PROVE  Core'
<1>1. Typed'  BY DEF Core, Typed
<1>2. IdsApart' /\ WaitsForNewest' /\ TunesAreOwned' /\ WaitingIsCurrent'
  BY DEF Core, IdsApart, WaitsForNewest, TunesAreOwned, WaitingIsCurrent, Waiting, RowIsCurrent
<1>3. QED  BY <1>1, <1>2 DEF Core

(* Nor does what RTL is to demodulate. *)
LEMMA ReceiverStays ==
  ASSUME Core, UNCHANGED <<scan, config, installed, inflight, result>>, SameRtl
  PROVE  ReceiverIsKnown'
<1>1. HasMoved' <=> HasMoved  BY DEF HasMoved, Status, InFlight
<1>2. ASSUME NEW row, NEW cfg, RtlOn(receiver, row, cfg)  PROVE RtlOn(receiver', row, cfg)
  BY <1>2 DEF SameRtl, Same, RtlOn
<1>3. receiver'.rtl = receiver.rtl /\ (~ Dual => receiver'.rig = receiver.rig)
  BY DEF SameRtl, Same
<1>4. QED  BY <1>1, <1>2, <1>3 DEF Core, ReceiverIsKnown

(* A request for the installed row's profile with the configuration in use  *)
(* is the right one, or RTL is no longer on that row.                      *)
LEMMA AskingIsSound ==
  ASSUME Core, UNCHANGED <<scan, installed, inflight, result>>, config' \in {0, 1},
         receiver' = Asked(Profile(installed, config'))
  PROVE  receiver' \in Receivers /\ ReceiverIsKnown'
<1>1. receiver \in Receivers /\ installed \in Rows \cup {0}  BY DEF Core, Typed
<1>2. Profile(installed, config') \in Profiles  BY <1>1, ProfilesAre
<1>3. /\ receiver' \in Receivers
      /\ receiver'.rig = receiver.rig /\ receiver'.rtl = receiver.rtl
      /\ Front(receiver') = {Profile(installed, config')}
      /\ receiver'.astray = (receiver.astray \/ receiver.rtl # installed)
  BY <1>1, <1>2, AskedIs
<1>4. HasMoved' <=> HasMoved  BY DEF HasMoved, Status, InFlight
<1>5. HasMoved => /\ receiver'.rtl = scan.row
                  /\ \/ RtlOn(receiver', scan.row, scan.configured)
                     \/ installed = scan.row /\ RtlOn(receiver', scan.row, config')
  BY <1>3 DEF Core, ReceiverIsKnown, RtlOn
<1>6. (installed # 0 /\ ~ scan.needs_commit /\ ~ HasMoved) =>
        receiver'.rtl = installed /\ RtlOn(receiver', installed, config')
  BY <1>3 DEF Core, ReceiverIsKnown, RtlOn
<1>7. QED  BY <1>3, <1>4, <1>5, <1>6 DEF Core, ReceiverIsKnown

(* Nothing at all changes but the roll, the frame and the gate. *)
LEMMA IdlingIsSound ==
  ASSUME Core, Steady, UNCHANGED <<scan, installed, receiver, inflight, result>>,
         roll' \in 1 .. NRows + 1, frame' \in Frames, upsets' \in 0 .. MaxUpsets,
         gate' \in Gates, gate'.older <= Len(inflight)
  PROVE  Core'
<1>1. SameRtl  BY DEF SameRtl, Same
<1>2. UNCHANGED <<scanner, map, config>> /\ config \in {0, 1} /\ receiver \in Receivers
  BY DEF Steady, Core, Typed
<1>3. QED  BY <1>1, <1>2, ReceiverStays, RecordStays

(* A bound on upsets survives an upset. *)
LEMMA UpsetStays ==
  ASSUME Typed, Upset \/ UNCHANGED upsets
  PROVE  upsets' \in 0 .. MaxUpsets
BY Numbers DEF Typed, Upset

(* Two gates an owner can leave behind. *)
LEMMA GatesAre ==
  ASSUME Typed
  PROVE  /\ OpenGate \in Gates /\ OpenGate.older = 0 /\ 0 <= Len(inflight)
         /\ ShutBehind(Len(inflight)) \in Gates
         /\ ShutBehind(Len(inflight)).older <= Len(inflight)
         /\ gate \in Gates /\ gate.older <= Len(inflight) /\ gate.older \in Nat
<1>1. Len(inflight) \in 0 .. 2  BY Queue
<1> DEFINE n == Len(inflight)
<1>2. /\ OpenGate \in Gates /\ OpenGate.older = 0 /\ 0 <= n
      /\ ShutBehind(n) \in Gates /\ ShutBehind(n).older <= n
  <2>1. n \in 0 .. 2  BY <1>1
  <2> HIDE DEF n
  <2>2. QED  BY <2>1 DEF OpenGate, Gates, ShutBehind
<1>3. QED  BY <1>2 DEF Typed, Gates

(* Every row the scanner starts: the tune succeeds and is committed, stays  *)
(* with the controller, or is given up.                                    *)
LEMMA StartIsSound ==
  ASSUME Core, Steady, NEW row, May(row), RowIsCurrent \/ ~ scan.retry, StartRow(row)
  PROVE  Core'
<1> DEFINE id == NewId
           s == Prepared(row)
<1>1. Typed /\ row \in Rows /\ scanner  BY DEF Core, May
<1>2. id \in Ids /\ id # 0  BY <1>1, NewIdIsNew
<1>3. /\ receiver \in Receivers /\ gate \in Gates /\ result \in [Ids -> {"OK", "FAILED"}]
      /\ frame \in Frames /\ config \in {0, 1} /\ roll \in 1 .. NRows + 1
      /\ upsets \in 0 .. MaxUpsets /\ gate.older <= Len(inflight)
  BY <1>1 DEF Typed
<1>4. row + 1 \in 1 .. NRows + 1  BY <1>1, Numbers
<1>5. /\ RigMoved(row) \in Receivers
      /\ Restored(RigMoved(row)) \in Receivers /\ Restored(receiver) \in Receivers
      /\ receiver' \in {RigMoved(row), Restored(RigMoved(row)), Restored(receiver)} => SameRtl
  BY <1>1, <1>3, RestoredIs DEF SameRtl
<1>6. [result EXCEPT ![id] = "FAILED"] \in [Ids -> {"OK", "FAILED"}]  BY <1>2, <1>3
<1>7. s.row = row  BY DEF Prepared, StageRow
<1>8. CASE Park(row)
  BY <1>3, <1>4, <1>8, IdlingIsSound DEF Park, tuner
<1>9. CASE PrepareFails(StageRow(row))
  <2>1. /\ scan' = StageRow(row) /\ UNCHANGED <<roll, installed, tuner, frame>>
        /\ upsets' \in 0 .. MaxUpsets
    BY <1>1, <1>9, UpsetStays DEF PrepareFails
  <2>2. /\ scan' \in Scans /\ scan'.request = scan.request /\ scan'.retry = scan.retry
        /\ scan'.needs_commit = scan.needs_commit /\ scan'.configured = scan.configured
        /\ scan'.row = row /\ scan'.map = map
    BY <1>1, <2>1 DEF Typed, Scans, StageRow
  <2>3. Waiting(scan) => row = scan.row /\ scan.retry /\ scan.map = map
    BY DEF May, Core, WaitingIsCurrent, RowIsCurrent
  <2>4. UNCHANGED <<receiver, inflight, gate, result>>  BY <2>1 DEF tuner
  <2>5. Typed'  BY <1>1, <2>1, <2>2, <2>4 DEF Typed, Steady
  <2>6. IdsApart' /\ WaitsForNewest' /\ TunesAreOwned' /\ WaitingIsCurrent'
    BY <2>1, <2>2, <2>3, <2>4
    DEF Core, Steady, IdsApart, WaitsForNewest, TunesAreOwned, WaitingIsCurrent, Waiting,
        RowIsCurrent
  <2>7. ReceiverIsKnown'
    <3>1. HasMoved' <=> HasMoved  BY <2>2, <2>4 DEF HasMoved, Status, InFlight
    <3>2. HasMoved => Waiting(scan)  BY DEF HasMoved, Waiting
    <3>3. QED  BY <2>1, <2>2, <2>3, <2>4, <3>1, <3>2 DEF Core, ReceiverIsKnown, Steady
  <2>8. QED  BY <2>5, <2>6, <2>7 DEF Core
<1>10. CASE TuneOk(s, id)
  <2> DEFINE q == [s EXCEPT !.request = id]
  <2>1. /\ inflight = << >> /\ inflight' = << >> /\ receiver' = Moved(row, config)
        /\ gate' = OpenGate /\ result' = [result EXCEPT ![id] = "OK"]
        /\ frame' = [frame EXCEPT !.fresh = FALSE] /\ Commit(q)
    BY <1>7, <1>10 DEF TuneOk
  <2>2. /\ q \in Scans /\ q.request = id /\ q.row = row /\ q.map = map
        /\ q.retry = FALSE /\ q.configured = config
    BY <1>1, <1>2 DEF Typed, Scans, Prepared, StageRow
  <2>3. /\ receiver' \in Receivers /\ receiver'.rig = row /\ receiver'.rtl = row
        /\ RtlOn(receiver', row, config)
    BY <1>1, <1>3, <2>1, MovedIs
  <2>4. result' \in [Ids -> {"OK", "FAILED"}] /\ result'[id] = "OK"  BY <1>2, <1>3, <2>1
  <2>5. frame' \in Frames  BY <1>3, <2>1 DEF Frames
  <2>6. gate' \in Gates /\ gate'.older = 0  BY <1>1, <2>1, GatesAre
  <2>7. upsets' \in 0 .. MaxUpsets  BY <1>1, <2>1, UpsetStays DEF Commit
  <2>8. Handed  BY <2>3, <2>4, <2>5, <2>6, <2>7 DEF Handed
  <2> HIDE DEF q
  <2>9. QED  BY <1>1, <2>1, <2>2, <2>3, <2>4, <2>6, <2>8, CommitIsSound
<1>11. CASE TunePending(s, id)
  <2>1. /\ Len(inflight) < 2 /\ receiver' = RigMoved(row)
        /\ inflight' = Append(inflight, [id |-> id, row |-> row, config |-> config])
        /\ scan' = [s EXCEPT !.request = id]
        /\ UNCHANGED <<gate, result, roll, installed, frame, upsets>>
    BY <1>7, <1>11 DEF TunePending
  <2> HIDE DEF id
  <2>2. id = NewId  BY DEF id
  <2>3. QED  BY <1>5, <2>1, <2>2, PendingIsSound
<1>12. CASE TuneFailed(s, id)
  <2>1. /\ receiver' = Restored(RigMoved(row)) /\ roll' = row + 1
        /\ result' = [result EXCEPT ![id] = "FAILED"] /\ scan' = [s EXCEPT !.request = 0]
        /\ UNCHANGED <<gate, inflight, installed, frame, upsets>>
    BY <1>7, <1>12 DEF TuneFailed
  <2>2. Handed  BY <1>3, <1>5, <1>6, <2>1 DEF Handed
  <2>3. QED  BY <1>3, <1>4, <1>5, <2>1, <2>2, GivingUpIsSound
<1>13. CASE TuneDeferred(s, id)
  <2>1. /\ receiver' = Restored(RigMoved(row)) /\ (Upset \/ UNCHANGED upsets)
        /\ gate' = ShutBehind(Len(inflight)) \/ gate' = gate
        /\ result' = [result EXCEPT ![id] = "FAILED"] /\ scan' = [s EXCEPT !.request = 0]
        /\ UNCHANGED <<roll, inflight, installed, frame>>
    BY <1>7, <1>13 DEF TuneDeferred
  <2>2. gate' \in Gates /\ gate'.older <= Len(inflight)  BY <1>1, <2>1, GatesAre
  <2>3. upsets' \in 0 .. MaxUpsets  BY <1>1, <2>1, UpsetStays
  <2>4. Handed  BY <1>3, <1>5, <1>6, <2>1, <2>2, <2>3 DEF Handed
  <2>5. QED  BY <1>3, <1>5, <2>1, <2>2, <2>4, GivingUpIsSound
<1>14. CASE RigFailed(s, id)
  <2>1. /\ receiver' = Restored(receiver) /\ gate' = ShutBehind(Len(inflight)) /\ roll' = row + 1
        /\ result' = [result EXCEPT ![id] = "FAILED"] /\ scan' = [s EXCEPT !.request = 0]
        /\ UNCHANGED <<inflight, installed, frame, upsets>>
    BY <1>7, <1>14 DEF RigFailed
  <2>2. gate' \in Gates /\ gate'.older <= Len(inflight)  BY <1>1, <2>1, GatesAre
  <2>3. Handed  BY <1>3, <1>5, <1>6, <2>1, <2>2 DEF Handed
  <2>4. QED  BY <1>4, <1>5, <2>1, <2>2, <2>3, GivingUpIsSound
<1>15. QED
  BY <1>8, <1>9, <1>10, <1>11, <1>12, <1>13, <1>14 DEF StartRow, Tune, Prepared

(* The tune the scan waits for is still owned, or is committed, or is given *)
(* up; its row is never obsolete.                                          *)
LEMMA SettleIsSound ==
  ASSUME Core, Steady, scan.request # 0, ~ scan.retry, Settle
  PROVE  Core'
<1>1. Typed /\ Waiting(scan) /\ RowIsCurrent
  BY DEF Core, WaitingIsCurrent, Waiting
<1>2. /\ receiver \in Receivers /\ gate \in Gates /\ result \in [Ids -> {"OK", "FAILED"}]
      /\ frame \in Frames /\ roll \in 1 .. NRows + 1
      /\ upsets \in 0 .. MaxUpsets /\ gate.older <= Len(inflight) /\ scan \in Scans
      /\ gate.older \in Nat
  BY <1>1 DEF Typed, Gates
<1>3. Status(scan.request) # "PENDING" => inflight = << >>
  <2>1. inflight # << >> => InFlight(scan.request)
    <3> SUFFICES ASSUME inflight # << >> PROVE InFlight(scan.request)  OBVIOUS
    <3>1. inflight[Len(inflight)].id = scan.request
      BY <1>1 DEF Core, WaitsForNewest
    <3>2. Len(inflight) \in DOMAIN inflight
      <4>1. Len(inflight) # 0 /\ inflight \in Seq(Tunes)  BY <1>1, Queue DEF Typed
      <4>2. QED  BY <4>1, LenProperties
    <3>3. QED  BY <3>1, <3>2 DEF InFlight
  <2>2. QED  BY <2>1 DEF Status
<1> DEFINE settled == [scan EXCEPT !.request = 0]
<1>4. /\ settled \in Scans /\ settled.request = 0 /\ settled.row = scan.row
      /\ settled.map = scan.map /\ settled.retry = FALSE
      /\ settled.configured = scan.configured /\ settled.needs_commit = scan.needs_commit
  BY <1>2 DEF Scans
<1>5. CASE Status(scan.request) = "PENDING" /\ Idle
  BY <1>2, <1>5, IdlingIsSound DEF Idle, tuner
<1>6. CASE /\ Status(scan.request) = "OK" /\ Commit(settled) /\ UNCHANGED <<tuner, frame>>
  <2>1. UNCHANGED <<receiver, inflight, gate, result, frame>>  BY <1>6 DEF tuner
  <2>2. inflight = << >>  BY <1>3, <1>6
  <2>3. upsets' \in 0 .. MaxUpsets  BY <1>1, <1>6, UpsetStays DEF Commit
  <2>4. Handed  BY <1>2, <2>1, <2>3 DEF Handed
  <2>5. gate.older = 0
    <3>1. Len(inflight) = 0  BY <1>1, <2>2, Queue
    <3>2. QED  BY <1>2, <3>1
  <2>6. /\ receiver.rtl = settled.row
        /\ \/ RtlOn(receiver, settled.row, settled.configured)
           \/ installed = settled.row /\ RtlOn(receiver, settled.row, config)
        /\ ~ Dual => receiver.rig = receiver.rtl
    BY <1>4, <1>6 DEF Core, ReceiverIsKnown, HasMoved
  <2>7. scanner /\ settled.map = map  BY <1>1, <1>4 DEF RowIsCurrent
  <2>8. Commit(settled)  BY <1>6
  <2> HIDE DEF settled
  <2>9. QED  BY <1>1, <1>4, <2>1, <2>2, <2>4, <2>5, <2>6, <2>7, <2>8, CommitIsSound
<1>7. CASE /\ Status(scan.request) = "FAILED" /\ scan' = settled
           /\ roll' \in {scan.row + 1, roll} /\ UNCHANGED <<installed, tuner, frame, upsets>>
  <2>1. UNCHANGED <<receiver, inflight, gate, result>>  BY <1>7 DEF tuner
  <2>2. inflight = << >>  BY <1>3, <1>7
  <2>3. scan.row \in Rows  BY <1>2 DEF Scans
  <2>4. roll' \in 1 .. NRows + 1  BY <1>2, <1>7, <2>3, Numbers
  <2>5. Typed'  BY <1>1, <1>4, <1>7, <2>1, <2>4 DEF Typed, Steady
  <2>6. IdsApart' /\ WaitsForNewest' /\ TunesAreOwned' /\ WaitingIsCurrent'
    BY <1>4, <1>7, <2>1, <2>2
    DEF Core, IdsApart, WaitsForNewest, TunesAreOwned, WaitingIsCurrent, Waiting
  <2>7. ReceiverIsKnown'
    <3>1. ~ HasMoved /\ ~ HasMoved'  BY <1>4, <1>7 DEF HasMoved
    <3>2. QED  BY <1>4, <1>7, <2>1, <3>1 DEF Core, ReceiverIsKnown, Steady
  <2>8. QED  BY <2>5, <2>6, <2>7 DEF Core
<1>8. QED  BY <1>1, <1>5, <1>6, <1>7 DEF Settle

(* A look at what the scan waits for, a step of the scan and doing nothing. *)
LEMMA ScannerIsSound ==
  ASSUME Core, Steady, Pending \/ (scanner /\ (Step \/ StepManual)) \/ Idle
  PROVE  Core'
<1>1. Typed  BY DEF Core
<1>2. CASE Idle
  <2>1. UNCHANGED <<scan, installed, receiver, inflight, gate, result, roll, frame, upsets>>
    BY <1>2 DEF Idle, tuner
  <2>2. QED  BY <1>1, <2>1, IdlingIsSound, GatesAre DEF Typed
<1>3. CASE Pending
  <2>1. CASE scan.retry
    <3>1. RowIsCurrent  BY <2>1 DEF Core, WaitingIsCurrent, Waiting
    <3>2. StartRow(scan.row)  BY <1>3, <2>1, <3>1 DEF Pending, Waiting
    <3>3. May(scan.row)  BY <1>1, <2>1, <3>1 DEF May, RowIsCurrent, Typed, Scans
    <3>4. QED  BY <3>1, <3>2, <3>3, StartIsSound
  <2>2. CASE ~ scan.retry /\ scan.request # 0
    BY <1>3, <2>2, SettleIsSound DEF Pending, Waiting
  <2>3. CASE ~ Waiting(scan)
    BY <1>2, <1>3, <2>3 DEF Pending, Waiting
  <2>4. QED  BY <2>1, <2>2, <2>3 DEF Waiting
<1>4. CASE scanner /\ (Step \/ StepManual) /\ ~ Pending /\ ~ Idle
  <2>1. ~ Waiting(scan) /\ \E rows \in SUBSET Rows : \E row \in NextOf(roll, rows) : StartRow(row)
    <3>1. CASE Step
      <4>1. (IF Avoided = {} THEN Rows ELSE Rows \ Avoided) \in SUBSET Rows  OBVIOUS
      <4>2. QED  BY <1>4, <3>1, <4>1 DEF Step
    <3>2. CASE StepManual
      <4>1. Rows \ (Parked \cup Avoided) \in SUBSET Rows  OBVIOUS
      <4>2. QED  BY <1>4, <3>2, <4>1 DEF StepManual
    <3>3. QED  BY <1>4, <3>1, <3>2
  <2>2. PICK row \in Rows : StartRow(row)  BY <2>1 DEF NextOf
  <2>3. May(row) /\ ~ scan.retry  BY <1>4, <2>1, <2>2 DEF May, Waiting
  <2>4. QED  BY <2>2, <2>3, StartIsSound
<1>5. QED  BY <1>2, <1>3, <1>4

-----------------------------------------------------------------------------
(* Commands *)

(* The scan is left: no row is installed and nothing waits. *)
LEMMA LeavingIsSound ==
  ASSUME Core, Leave, scanner' \in BOOLEAN, config' = config, map' \in 0 .. MaxMaps,
         roll' \in 1 .. NRows + 1, UNCHANGED <<inflight, gate, result>>, frame' \in Frames,
         upsets' \in 0 .. MaxUpsets
  PROVE  Core'
<1>1. /\ scan' \in Scans /\ scan'.request = 0 /\ scan'.retry = FALSE /\ installed' = 0
  BY Numbers DEF Leave, Absent, Scans
<1>2. receiver' \in Receivers /\ receiver'.rig = receiver.rig /\ receiver'.rtl = receiver.rtl
  <2>1. receiver \in Receivers /\ Profile(0, config) \in Profiles
    BY ProfilesAre DEF Core, Typed
  <2>2. QED  BY <2>1, AskedIs DEF Leave
<1>3. Typed'  BY <1>1, <1>2 DEF Core, Typed
<1>4. IdsApart' /\ WaitsForNewest' /\ TunesAreOwned' /\ WaitingIsCurrent' /\ ReceiverIsKnown'
  BY <1>1, <1>2
  DEF Core, IdsApart, WaitsForNewest, TunesAreOwned, WaitingIsCurrent, Waiting,
      ReceiverIsKnown, HasMoved
<1>5. QED  BY <1>3, <1>4 DEF Core

(* The commands the decoder drains. *)
LEMMA CommandsAreSound ==
  ASSUME Core, Edit \/ ScannerToggle \/ ImportMap \/ CycleChannel
  PROVE  Core' /\ pc' = pc /\ pc \in {"top", "between"}
<1>1. Typed  BY DEF Core
<1>2. /\ frame \in Frames /\ upsets \in 0 .. MaxUpsets /\ config \in {0, 1}
      /\ roll \in 1 .. NRows + 1 /\ map \in 0 .. MaxMaps /\ scanner \in BOOLEAN
      /\ receiver \in Receivers
  BY <1>1 DEF Typed
<1>3. CASE Edit
  <2>1. /\ config' = 1 - config /\ config' \in {0, 1}
        /\ UNCHANGED <<scanner, map, roll, scan, installed, inflight, gate, result, frame, pc>>
        /\ upsets' \in 0 .. MaxUpsets /\ pc \in {"top", "between"}
    BY <1>1, <1>2, <1>3, UpsetStays DEF Edit, Commands
  <2>2. receiver' \in Receivers /\ ReceiverIsKnown'
    <3>1. CASE installed \in OwnSettings
      <4>1. receiver' = receiver  BY <1>3, <3>1 DEF Edit
      <4>2. Profile(installed, config') = Profile(installed, config)  BY <3>1 DEF Profile
      <4>3. HasMoved' <=> HasMoved  BY <2>1 DEF HasMoved, Status, InFlight
      <4>4. RtlOn(receiver', installed, config') <=> RtlOn(receiver, installed, config)
        BY <4>1, <4>2 DEF RtlOn
      <4>5. QED  BY <1>2, <2>1, <4>1, <4>3, <4>4 DEF Core, ReceiverIsKnown
    <3>2. CASE installed \notin OwnSettings
      <4>1. receiver' = Asked(Profile(installed, config'))  BY <1>3, <2>1, <3>2 DEF Edit
      <4>2. QED  BY <2>1, <4>1, AskingIsSound
    <3>3. QED  BY <3>1, <3>2
  <2>3. QED  BY <1>1, <1>2, <2>1, <2>2, RecordStays, GatesAre
<1>4. CASE ScannerToggle
  <2>1. /\ scanner' = ~ scanner /\ (IF scanner THEN Leave ELSE UNCHANGED <<scan, installed, receiver>>)
        /\ UNCHANGED <<config, map, roll, inflight, gate, result, pc, frame>> /\ upsets' \in 0 .. MaxUpsets
        /\ pc \in {"top", "between"}
    BY <1>1, <1>4, UpsetStays DEF ScannerToggle, Commands
  <2>2. CASE scanner
    <3>1. Leave /\ scanner' \in BOOLEAN  BY <2>1, <2>2
    <3>2. QED  BY <1>2, <2>1, <3>1, LeavingIsSound
  <2>3. CASE ~ scanner
    <3>1. ~ Waiting(scan)  BY <2>3 DEF Core, WaitingIsCurrent, RowIsCurrent
    <3>2. UNCHANGED <<scan, installed, receiver, inflight, gate, result>>
      BY <2>1, <2>3
    <3>3. Typed'  BY <1>1, <1>2, <2>1, <3>2 DEF Typed
    <3>4. IdsApart' /\ WaitsForNewest' /\ TunesAreOwned' /\ WaitingIsCurrent'
      BY <3>1, <3>2
      DEF Core, IdsApart, WaitsForNewest, TunesAreOwned, WaitingIsCurrent, Waiting
    <3>5. ReceiverIsKnown'
      BY <2>1, <3>2 DEF Core, ReceiverIsKnown, HasMoved, Status, InFlight
    <3>6. QED  BY <2>1, <3>3, <3>4, <3>5 DEF Core
  <2>4. QED  BY <2>2, <2>3
<1>5. CASE ImportMap
  <2>1. /\ map < MaxMaps /\ map' = map + 1 /\ roll' = 1 /\ Leave
        /\ UNCHANGED <<scanner, config, inflight, gate, result, pc, frame>> /\ upsets' \in 0 .. MaxUpsets
        /\ pc \in {"top", "between"}
    BY <1>1, <1>5, UpsetStays DEF ImportMap, Commands
  <2>2. map' \in 0 .. MaxMaps /\ roll' \in 1 .. NRows + 1  BY <1>2, <2>1, Numbers
  <2>3. QED  BY <1>2, <2>1, <2>2, LeavingIsSound
<1>6. CASE CycleChannel
  <2>1. /\ Steady /\ scanner /\ StepManual /\ pc' = pc /\ pc \in {"top", "between"}
    BY <1>6 DEF CycleChannel, Steady
  <2>2. QED  BY <2>1, ScannerIsSound
<1>7. QED  BY <1>3, <1>4, <1>5, <1>6

-----------------------------------------------------------------------------
(* The controller *)

(* The oldest tune lands or fails, and the gate counts one tune less. *)
LEMMA GateFollows ==
  ASSUME Typed, inflight # << >>, inflight' = Tail(inflight),
         gate' = OldestLands(gate) \/ gate' = OldestFails(gate)
  PROVE  gate' \in Gates /\ gate'.older <= Len(inflight')
<1> DEFINE n == Len(inflight)
<1>1. /\ gate \in Gates /\ gate.older \in Nat /\ gate.older <= n /\ n \in 1 .. 2
      /\ Len(inflight') = n - 1
      /\ gate = [shut |-> gate.shut, older |-> gate.older]
  BY GatesAre, TuneEnds DEF Gates
<1> HIDE DEF n
<1>2. CASE gate' = OldestLands(gate)
  <2>1. CASE gate.older > 0
    <3>1. gate' = [shut |-> gate.shut, older |-> gate.older - 1]
      BY <1>1, <1>2, <2>1 DEF OldestLands
    <3>2. QED  BY <1>1, <2>1, <3>1 DEF Gates
  <2>2. CASE ~ gate.older > 0  BY <1>1, <1>2, <2>2 DEF OldestLands, OpenGate, Gates
  <2>3. QED  BY <2>1, <2>2
<1>3. CASE gate' = OldestFails(gate)
  BY <1>1, <1>3 DEF OldestFails, ShutBehind, Gates
<1>4. QED  BY <1>2, <1>3

(* Only the newest tune can be the one the scan waits for, and it moves the *)
(* receiver to the row that waits.                                         *)
LEMMA ControllerIsSound ==
  ASSUME Core, Controller
  PROVE  Core'
<1> DEFINE tune == Head(inflight)
           n == Len(inflight)
<1>1. Typed /\ inflight # << >> /\ inflight' = Tail(inflight) /\ UNCHANGED <<pc, decoder, upsets>>
  BY DEF Core, Controller, TuneLands, TuneIsRefused
<1>2. UNCHANGED <<pc, scanner, config, map, roll, scan, installed, upsets>>
  BY <1>1 DEF decoder
<1>3. /\ inflight' \in Seq(Tunes) /\ Len(inflight') = n - 1 /\ n \in 1 .. 2
      /\ tune = inflight[1] /\ tune \in Tunes
      /\ inflight' = << >> <=> n = 1
      /\ n = 2 => inflight'[1] = inflight[2]
  BY <1>1, TuneEnds
<1>4. tune.id \in Ids /\ tune.row \in Rows /\ tune.config \in {0, 1}  BY <1>3 DEF Tunes
<1>5. \/ /\ receiver' = Moved(tune.row, tune.config)
         /\ result' = [result EXCEPT ![tune.id] = "OK"]
         /\ frame' = [frame EXCEPT !.fresh = FALSE]
      \/ /\ receiver' = receiver
         /\ result' = [result EXCEPT ![tune.id] = "FAILED"]
         /\ frame' = frame
  BY DEF Controller, TuneLands, TuneIsRefused
<1>6. gate' \in Gates /\ gate'.older <= Len(inflight')
  BY <1>1, GateFollows DEF Controller, TuneLands, TuneIsRefused
<1>7. /\ receiver \in Receivers /\ result \in [Ids -> {"OK", "FAILED"}] /\ frame \in Frames
  BY <1>1 DEF Typed
<1>8. receiver' \in Receivers
  <2>1. Moved(tune.row, tune.config) \in Receivers  BY <1>4, <1>7, MovedIs
  <2>2. QED  BY <1>5, <1>7, <2>1
<1>9. result' \in [Ids -> {"OK", "FAILED"}] /\ frame' \in Frames
  BY <1>4, <1>5, <1>7 DEF Frames
<1>10. Len(inflight') <= 2
  <2> HIDE DEF n
  <2>1. QED  BY <1>3
<1>11. Typed'  BY <1>1, <1>2, <1>3, <1>6, <1>8, <1>9, <1>10 DEF Typed
<1>12. n = 1 \/ n = 2
  <2> HIDE DEF n
  <2>1. QED  BY <1>3
<1>13. Waiting(scan) =>
         /\ ~ scan.retry /\ scan.request # 0
         /\ inflight[n] = [id |-> scan.request, row |-> scan.row, config |-> scan.configured]
  BY <1>1 DEF Core, WaitsForNewest, Waiting
<1>14. n = 2 => Len(inflight') = 1
  <2> HIDE DEF n
  <2>1. QED  BY <1>3
<1>15. IdsApart'
  <2>1. Len(inflight') # 2
    <3> HIDE DEF n
    <3>1. QED  BY <1>3
  <2>2. QED  BY <2>1 DEF IdsApart
<1>16. WaitsForNewest'
  BY <1>2, <1>3, <1>12, <1>13, <1>14 DEF WaitsForNewest
<1>17. TunesAreOwned'
  BY <1>1, <1>2, <1>3 DEF Core, TunesAreOwned
<1>18. WaitingIsCurrent'  BY <1>2 DEF Core, WaitingIsCurrent, RowIsCurrent
<1>19. (Waiting(scan) /\ n = 2) => InFlight(scan.request)'
  <2> SUFFICES ASSUME Waiting(scan), n = 2 PROVE InFlight(scan.request)'  OBVIOUS
  <2>1. inflight'[1].id = scan.request /\ scan'.request = scan.request
    BY <1>2, <1>3, <1>13
  <2>2. 1 \in DOMAIN inflight'  BY <1>3, <1>14, LenProperties
  <2>3. QED  BY <2>1, <2>2 DEF InFlight
<1>20. (Waiting(scan) /\ n = 1) => tune = [id |-> scan.request, row |-> scan.row,
                                           config |-> scan.configured]
  BY <1>3, <1>13
<1>21. ReceiverIsKnown'
  <2> SUFFICES /\ HasMoved' => /\ receiver'.rtl = scan.row
                               /\ RtlOn(receiver', scan.row, scan.configured)
               /\ (installed # 0 /\ ~ scan.needs_commit /\ ~ HasMoved') =>
                    receiver'.rtl = installed /\ RtlOn(receiver', installed, config)
    <3>1. ~ Dual => receiver'.rig = receiver'.rtl
      BY <1>4, <1>5, <1>7, MovedIs DEF Core, ReceiverIsKnown
    <3>2. QED  BY <1>2, <3>1 DEF ReceiverIsKnown
  <2>1. HasMoved' => Waiting(scan) /\ result'[scan.request] = "OK" /\ ~ InFlight(scan.request)'
    BY <1>2 DEF HasMoved, Status, Waiting
  <2>2. CASE HasMoved'
    <3>1. n = 1 /\ Waiting(scan)  BY <1>12, <1>19, <2>1, <2>2
    <3>2. tune.id = scan.request /\ tune.row = scan.row /\ tune.config = scan.configured
      BY <1>20, <3>1
    <3>3. receiver' = Moved(scan.row, scan.configured)
      BY <1>4, <1>5, <1>7, <2>1, <2>2, <3>2
    <3>4. QED  BY <1>4, <1>7, <2>2, <3>2, <3>3, MovedIs
  <2>3. CASE ~ HasMoved' /\ installed # 0 /\ ~ scan.needs_commit
    <3>1. Waiting(scan) /\ n = 1  BY <1>1, <2>3 DEF Core, TunesAreOwned
    <3>2. tune.id = scan.request /\ scan.request # 0  BY <1>13, <1>20, <3>1
    <3>3. ~ InFlight(scan.request)'
      <4>1. inflight' = << >>  BY <1>3, <3>1
      <4>2. QED  BY <4>1 DEF InFlight
    <3>4. result'[scan.request] # "OK"
      BY <1>2, <2>3, <3>2, <3>3 DEF HasMoved, Status
    <3>5. receiver' = receiver  BY <1>4, <1>5, <1>7, <3>2, <3>4
    <3>6. ~ HasMoved
      <4>1. InFlight(scan.request)  BY <1>1, <1>3, <3>2, Queue
      <4>2. QED  BY <4>1 DEF HasMoved, Status
    <3>7. QED  BY <2>3, <3>5, <3>6 DEF Core, ReceiverIsKnown
  <2>4. QED  BY <2>2, <2>3
<1>22. QED  BY <1>11, <1>15, <1>16, <1>17, <1>18, <1>21 DEF Core

-----------------------------------------------------------------------------
(* The demodulator *)

(* RTL takes what it is asked for. *)
LEMMA DemodulatorIsSound ==
  ASSUME Core, Demodulator
  PROVE  Core'
<1>1. Typed /\ receiver \in Receivers  BY DEF Core, Typed
<1>2. UNCHANGED <<pc, scanner, config, map, roll, scan, installed, inflight, gate, result,
                  frame, upsets>>
  BY DEF Demodulator, decoder
<1>3. PICK profile \in receiver.asked :
        receiver' = [receiver EXCEPT !.profile = profile, !.asked = {}]
  BY DEF Demodulator
<1>4. receiver.asked = {profile} /\ profile \in Profiles
  BY <1>1 DEF Receivers, Requests
<1>5. /\ receiver' \in Receivers /\ receiver'.rtl = receiver.rtl /\ receiver'.rig = receiver.rig
      /\ receiver'.profile = profile /\ receiver'.asked = {} /\ receiver'.astray = receiver.astray
  BY <1>1, <1>3, <1>4 DEF Receivers, Requests
<1>6. SameRtl  BY <1>4, <1>5 DEF SameRtl, Same, Front
<1>7. ReceiverIsKnown'  BY <1>2, <1>6, ReceiverStays
<1>8. QED  BY <1>1, <1>2, <1>5, <1>7, RecordStays, GatesAre DEF Typed

-----------------------------------------------------------------------------
(* Every step *)

(* The scan starts with nothing tuned, nothing installed and nothing waiting. *)
LEMMA InitIInv == Init => IInv
<1> SUFFICES ASSUME Init PROVE IInv  OBVIOUS
<1>1. inflight \in Seq(Tunes) /\ Len(inflight) = 0  BY EmptySeq DEF Init
<1>2. /\ scan \in Scans /\ ~ Waiting(scan) /\ receiver \in Receivers /\ frame \in Frames
      /\ gate \in Gates /\ gate.older = 0
  BY Numbers, ProfilesAre
  DEF Init, Absent, Scans, Waiting, Receivers, Requests, Frames, OpenGate, Gates
<1>3. Typed  BY <1>1, <1>2, Numbers DEF Init, Typed
<1>4. IdsApart /\ WaitsForNewest /\ TunesAreOwned
  BY <1>1 DEF Init, IdsApart, WaitsForNewest, TunesAreOwned
<1>5. WaitingIsCurrent /\ ReceiverIsKnown
  BY <1>2 DEF Init, Absent, WaitingIsCurrent, ReceiverIsKnown, HasMoved, Waiting
<1>6. FrameIsKnown  BY DEF Init, FrameIsKnown, Pcs
<1>7. QED  BY <1>3, <1>4, <1>5, <1>6 DEF IInv, Core

(* Away from the search and what follows it, nothing is known of a frame.   *)
LEMMA NoFrameHere ==
  ASSUME pc' \in {"top", "no_carrier", "recheck", "between"}
  PROVE  FrameIsKnown'
BY DEF FrameIsKnown, Pcs

(* The decoder loop: a frame is searched for with the profile in use, and   *)
(* checked only when no row waits.                                         *)
LEMMA LoopIsSound ==
  ASSUME IInv, LoopStep
  PROVE  IInv'
<1>1. Core /\ FrameIsKnown /\ Typed  BY DEF IInv, Core
<1>2. ASSUME NEW next, Go(next)  PROVE pc' = next /\ Steady
  BY <1>2 DEF Go, Steady
<1>3. CASE TopPending \/ RecheckWaiting
  <2>1. Pending /\ \E next \in {"top", "no_carrier", "recheck"} : Go(next)
    BY <1>3 DEF TopPending, RecheckWaiting, Afterwards
  <2>2. Steady /\ pc' \in {"top", "no_carrier", "recheck"}  BY <1>2, <2>1
  <2>3. QED  BY <1>1, <2>1, <2>2, ScannerIsSound, NoFrameHere DEF IInv
<1>4. CASE NoCarrierStep \/ NoCarrierStay
  <2>1. ((scanner /\ Step) \/ Idle) /\ Go("recheck")
    BY <1>4 DEF NoCarrierStep, NoCarrierStay
  <2>2. Steady /\ pc' = "recheck"  BY <1>2, <2>1
  <2>3. QED  BY <1>1, <2>1, <2>2, ScannerIsSound, NoFrameHere DEF IInv
<1>5. CASE NoCarrierRetire
  <2>1. Steady /\ pc' = "recheck"  BY <1>2, <1>5 DEF NoCarrierRetire
  <2>2. gate' \in Gates /\ gate'.older <= Len(inflight)
    BY <1>1, <1>5, GatesAre DEF NoCarrierRetire
  <2>3. UNCHANGED <<roll, scan, installed, receiver, inflight, result, frame, upsets>>
    BY <1>5 DEF NoCarrierRetire
  <2>4. QED  BY <1>1, <2>1, <2>2, <2>3, IdlingIsSound, NoFrameHere DEF Typed, IInv
<1>6. ASSUME ~ Waiting(scan), Search, Go("search"),
             UNCHANGED <<roll, scan, installed, tuner, upsets>>
      PROVE  IInv'
  <2>1. Steady /\ pc' = "search"  BY <1>2, <1>6
  <2>2. UNCHANGED <<receiver, inflight, gate, result>>  BY <1>6 DEF tuner
  <2>3. frame' \in Frames  BY <1>1, <1>6 DEF Search, Typed, Frames
  <2>4. Core'  BY <1>1, <1>6, <2>1, <2>2, <2>3, IdlingIsSound, GatesAre DEF Typed
  <2>5. FrameIsKnown'  BY <1>6, <2>1 DEF FrameIsKnown, Search, Steady, Pcs
  <2>6. QED  BY <2>4, <2>5 DEF IInv
<1>7. CASE BeginSearch  BY <1>6, <1>7 DEF BeginSearch
<1>8. CASE SyncFound \/ SyncLost
  <2>1. PICK next \in {"synced", "top"} : Searched(next)  BY <1>8 DEF SyncFound, SyncLost
  <2>2. /\ pc = "search" /\ Steady /\ pc' = next
        /\ UNCHANGED <<roll, scan, installed, inflight, gate, result, frame, upsets>>
        /\ receiver' = receiver \/ receiver' = Asked(Profile(installed, config))
    BY <1>2, <2>1 DEF Searched
  <2>3. UNCHANGED <<scanner, map, config>> /\ config \in {0, 1}
    BY <1>1, <2>2 DEF Steady, Typed
  <2>4. receiver' \in Receivers /\ ReceiverIsKnown'
    <3>1. CASE receiver' = receiver
      <4>1. SameRtl  BY <3>1 DEF SameRtl, Same
      <4>2. QED  BY <1>1, <2>2, <2>3, <3>1, <4>1, ReceiverStays DEF Typed
    <3>2. CASE receiver' = Asked(Profile(installed, config))
      BY <1>1, <2>2, <2>3, <3>2, AskingIsSound
    <3>3. QED  BY <2>2, <3>1, <3>2
  <2>5. Core'  BY <1>1, <2>2, <2>3, <2>4, RecordStays, GatesAre DEF Typed
  <2>6. FrameIsKnown'  BY <1>1, <2>1, <2>2, <2>3 DEF FrameIsKnown, Pcs
  <2>7. QED  BY <2>5, <2>6 DEF IInv
<1>9. CASE ServiceSync
  <2>1. CASE Withheld
    <3>1. Pending /\ Steady /\ pc' = "top"  BY <1>2, <1>9, <2>1 DEF ServiceSync
    <3>2. QED  BY <1>1, <3>1, ScannerIsSound, NoFrameHere DEF IInv
  <2>2. CASE ~ Withheld
    <3>1. Idle /\ Steady /\ pc = "synced" /\ pc' = "check"  BY <1>2, <1>9, <2>2 DEF ServiceSync
    <3>2. FrameIsKnown'
      BY <1>1, <2>2, <3>1 DEF FrameIsKnown, Idle, Steady, Pcs, Withheld
    <3>3. QED  BY <1>1, <3>1, <3>2, ScannerIsSound DEF IInv
  <2>3. QED  BY <2>1, <2>2
<1>10. CASE CheckFrame
  <2>1. /\ pc = "check" /\ Steady
        /\ pc' = "between" \/ (pc' = "processing" /\ inflight = << >> /\ frame.fresh)
        /\ gate' = gate \/ gate' = OpenGate
        /\ UNCHANGED <<roll, scan, installed, receiver, inflight, result, frame, upsets>>
    BY <1>2, <1>10 DEF CheckFrame, Dispatchable, NothingPending
  <2>2. gate' \in Gates /\ gate'.older <= Len(inflight)  BY <1>1, <2>1, GatesAre
  <2>3. Core'  BY <1>1, <2>1, <2>2, IdlingIsSound DEF Typed
  <2>4. FrameIsKnown'  BY <1>1, <2>1 DEF FrameIsKnown, Steady, Pcs
  <2>5. QED  BY <2>3, <2>4 DEF IInv
<1>11. CASE ProcessFrame
  <2>1. /\ pc = "processing" /\ pc' = "between" /\ map' \in 0 .. MaxMaps
        /\ UNCHANGED <<scanner, config, roll, scan, installed, receiver, inflight, gate, result,
                       frame, upsets>>
    BY <1>1, <1>11, Numbers DEF ProcessFrame, Idle, tuner, Typed
  <2>2. ~ Waiting(scan)  BY <1>1, <2>1 DEF FrameIsKnown
  <2>3. Typed'  BY <1>1, <2>1 DEF Typed
  <2>4. IdsApart' /\ WaitsForNewest' /\ TunesAreOwned' /\ WaitingIsCurrent'
    BY <1>1, <2>1, <2>2
    DEF Core, IdsApart, WaitsForNewest, TunesAreOwned, WaitingIsCurrent, Waiting
  <2>5. ReceiverIsKnown'
    BY <1>1, <2>1 DEF Core, ReceiverIsKnown, HasMoved, Status, InFlight
  <2>6. QED  BY <2>1, <2>3, <2>4, <2>5, NoFrameHere DEF IInv, Core
<1>12. CASE NextFrame
  <2>1. CASE Withheld
    <3>1. Pending /\ Steady /\ pc' = "top"  BY <1>2, <1>12, <2>1 DEF NextFrame
    <3>2. QED  BY <1>1, <3>1, ScannerIsSound, NoFrameHere DEF IInv
  <2>2. CASE ~ Withheld  BY <1>6, <1>12, <2>2 DEF NextFrame, Withheld
  <2>3. QED  BY <2>1, <2>2
<1>13. QED
  BY <1>3, <1>4, <1>5, <1>7, <1>8, <1>9, <1>10, <1>11, <1>12 DEF LoopStep

(* Commands come when no frame is looked for, and the controller answers    *)
(* only while a tune is under way, when none is processed.                 *)
LEMMA StepIInv ==
  ASSUME IInv, [Next]_vars
  PROVE  IInv'
<1>1. Core /\ FrameIsKnown  BY DEF IInv
<1>2. CASE LoopStep  BY <1>2, LoopIsSound
<1>3. CASE Edit \/ ScannerToggle \/ ImportMap \/ CycleChannel
  BY <1>1, <1>3, CommandsAreSound, NoFrameHere DEF IInv
<1>4. CASE Controller
  <2>1. /\ UNCHANGED <<pc, installed, config, scan>> /\ inflight # << >>
        /\ frame' = frame \/ frame' = [frame EXCEPT !.fresh = FALSE]
    BY <1>4 DEF Controller, TuneLands, TuneIsRefused, decoder
  <2>2. frame'.row = frame.row /\ frame'.config = frame.config
    BY <1>1, <2>1 DEF Core, Typed, Frames
  <2>3. FrameIsKnown'  BY <1>1, <2>1, <2>2 DEF FrameIsKnown, Waiting
  <2>4. QED  BY <1>1, <1>4, <2>3, ControllerIsSound DEF IInv
<1>5. CASE Demodulator
  <2>1. UNCHANGED <<pc, installed, config, scan, inflight, frame>>
    BY <1>5 DEF Demodulator, decoder
  <2>2. FrameIsKnown'  BY <1>1, <2>1 DEF FrameIsKnown, Waiting
  <2>3. QED  BY <1>1, <1>5, <2>2, DemodulatorIsSound DEF IInv
<1>6. CASE UNCHANGED vars
  <2>1. Steady /\ Idle /\ pc' = pc
    BY <1>6 DEF vars, decoder, tuner, Steady, Idle
  <2>2. FrameIsKnown'
    BY <1>1, <2>1 DEF FrameIsKnown, Idle, Steady, tuner, Waiting
  <2>3. QED  BY <1>1, <2>1, <2>2, ScannerIsSound DEF IInv
<1>7. QED  BY <1>2, <1>3, <1>4, <1>5, <1>6 DEF Next

-----------------------------------------------------------------------------
(* Theorems *)

(* What the scan waits for is the newest tune, to a row that is not         *)
(* obsolete, and a frame that was searched for belongs to the profile in use. *)
THEOREM Invariance == Spec => []IInv
<1>1. IInv /\ [Next]_vars => IInv'  BY StepIInv
<1>2. QED  BY <1>1, InitIInv, PTL DEF Spec

(* Every variable of the scanner and of the tune it runs keeps its type.    *)
THEOREM TypeCorrect == Spec => []TypeOK
<1>1. IInv => TypeOK
  <2> SUFFICES ASSUME IInv PROVE TypeOK  OBVIOUS
  <2>1. Typed /\ pc \in Pcs  BY DEF IInv, Core, FrameIsKnown
  <2>2. \A i \in DOMAIN inflight : inflight[i] \in [id : Ids, row : Rows, config : {0, 1}]
    <3>1. inflight \in Seq(Tunes)  BY <2>1 DEF Typed
    <3>2. DOMAIN inflight = 1 .. Len(inflight)  BY <3>1, LenProperties
    <3>3. QED  BY <3>1, <3>2, ElementOfSeq DEF Tunes
  <2>3. QED  BY <2>1, <2>2 DEF Typed, TypeOK, Scans, Receivers, Requests, Frames
<1>2. QED  BY <1>1, Invariance, PTL

(* Sync that was found with one row's profile is never decoded with another *)
(* row's, nor with settings a command has changed since.                   *)
THEOREM FrameOfThisProfileAlways == Spec => []FrameOfThisProfile
<1>1. IInv => FrameOfThisProfile
  <2> SUFFICES ASSUME IInv, pc = "processing"
               PROVE  frame = [row |-> installed, config |-> config, fresh |-> TRUE]
    BY DEF FrameOfThisProfile
  <2>1. frame \in Frames /\ frame.row = installed /\ frame.config = config /\ frame.fresh
    BY DEF IInv, Core, Typed, FrameIsKnown
  <2>2. frame = [row |-> frame.row, config |-> frame.config, fresh |-> frame.fresh]
    BY <2>1 DEF Frames
  <2>3. frame.fresh = TRUE  BY <2>1 DEF Frames
  <2>4. QED  BY <2>1, <2>2, <2>3
<1>2. QED  BY <1>1, Invariance, PTL

(* Whatever a rigctl receiver beside it was last told, RTL is on the row    *)
(* whose profile a frame is processed with, and demodulates that profile    *)
(* with the configuration in use, unless a request for a profile went       *)
(* astray since it landed there.                                           *)
RtlMatchesProfile ==
  (pc = "processing" /\ installed # 0) =>
    receiver.rtl = installed /\ RtlOn(receiver, installed, config)

THEOREM RtlMatchesProfileAlways == Spec => []RtlMatchesProfile
<1>1. IInv => RtlMatchesProfile
  BY DEF IInv, Core, FrameIsKnown, ReceiverIsKnown, HasMoved, Waiting, RtlMatchesProfile
<1>2. QED  BY <1>1, Invariance, PTL

(* With one receiver a frame is processed with the profile of the row the   *)
(* receiver is on: always as to where it is tuned, and, but for a request   *)
(* gone astray, as to what it demodulates.                                 *)
THEOREM ProfileMatchesReceiverAlways == ASSUME ~ Dual PROVE Spec => []ProfileMatchesReceiver
<1>1. IInv /\ RtlMatchesProfile => ProfileMatchesReceiver
  BY DEF ProfileMatchesReceiver, RtlMatchesProfile, RtlOn, IInv, Core, ReceiverIsKnown
<1>2. QED  BY <1>1, Invariance, RtlMatchesProfileAlways, PTL

-----------------------------------------------------------------------------
(* The scan's part of the tune ledger *)

LedgerMoves == Ledger!Next \/ UNCHANGED Ledger!vars

(* A call keeps, gates, opens or leaves alone. *)
LEMMA TuneMovesLedger ==
  ASSUME Typed, NEW s, NEW id, Tune(s, id)
  PROVE  LedgerMoves
<1> USE DEF LedgerMoves, Ledger!Next, Ledger!vars
<1>1. CASE TuneOk(s, id)
  BY <1>1 DEF TuneOk, Ledger!Landing, Ledger!CallLands, OpenGate, Ledger!OpenGate
<1>2. CASE TunePending(s, id)
  <2>1. PICK tune : inflight' = Append(inflight, tune) /\ gate' = gate
    BY <1>2 DEF TunePending
  <2>2. Len(inflight') = Len(inflight) + 1 /\ Len(inflight) \in Nat
    <3>1. inflight \in Seq(Tunes)  BY DEF Typed
    <3>2. inflight \in Seq(Tunes \cup {tune})  BY <3>1, SeqMonotonic
    <3>3. QED  BY <2>1, <3>2, AppendProperties, LenProperties
  <2>3. QED  BY <2>1, <2>2 DEF Ledger!CallsKept
<1>3. CASE TuneFailed(s, id)
  BY <1>3 DEF TuneFailed
<1>4. CASE TuneDeferred(s, id)
  BY <1>4 DEF TuneDeferred, Ledger!CallGated, ShutBehind, Ledger!ShutBehind
<1>5. CASE RigFailed(s, id)
  BY <1>5 DEF RigFailed, Ledger!CallGated, ShutBehind, Ledger!ShutBehind
<1>6. QED  BY <1>1, <1>2, <1>3, <1>4, <1>5 DEF Tune

(* The scanner touches the ledger by its calls only. *)
LEMMA ScannerMovesLedger ==
  ASSUME Typed, Pending \/ Step \/ StepManual \/ Idle
  PROVE  LedgerMoves
<1>1. ASSUME UNCHANGED tuner  PROVE LedgerMoves
  BY <1>1 DEF tuner, LedgerMoves, Ledger!vars
<1>2. CASE Idle  BY <1>1, <1>2 DEF Idle
<1>3. ASSUME NEW row, StartRow(row)  PROVE LedgerMoves
  <2>1. UNCHANGED tuner \/ \E s, id : Tune(s, id)
    BY <1>3 DEF StartRow, Park, PrepareFails
  <2>2. QED  BY <1>1, <2>1, TuneMovesLedger
<1>4. CASE Pending
  <2>1. UNCHANGED tuner \/ StartRow(scan.row)
    BY <1>4 DEF Pending, Settle, Idle, tuner
  <2>2. QED  BY <1>1, <1>3, <2>1
<1>5. CASE Step \/ StepManual
  <2>1. Pending \/ Idle \/ \E row : StartRow(row)
    BY <1>5 DEF Step, StepManual
  <2>2. QED  BY <1>2, <1>3, <1>4, <2>1
<1>6. QED  BY <1>2, <1>4, <1>5

(* The decoder loop opens the gate when nothing owns the tuner. *)
LEMMA LoopMovesLedger ==
  ASSUME Typed, LoopStep
  PROVE  LedgerMoves
<1>1. CASE gate' = OpenGate /\ UNCHANGED inflight
  BY <1>1 DEF LedgerMoves, Ledger!Next, Ledger!Retire, OpenGate, Ledger!OpenGate
<1>2. CASE UNCHANGED <<gate, inflight>>
  BY <1>2 DEF LedgerMoves, Ledger!vars
<1>3. CASE Pending \/ Step \/ Idle
  BY <1>3, ScannerMovesLedger
<1>4. \/ Pending \/ Step \/ Idle
      \/ gate' = OpenGate /\ UNCHANGED inflight
      \/ UNCHANGED <<gate, inflight>>
  BY DEF LoopStep, TopPending, NoCarrierStep, NoCarrierRetire, NoCarrierStay, RecheckWaiting,
         BeginSearch, SyncFound, SyncLost, Searched, ServiceSync, CheckFrame, ProcessFrame, NextFrame, tuner
<1>5. QED  BY <1>1, <1>2, <1>3, <1>4

(* The controller answers the oldest tune. *)
LEMMA ControllerMovesLedger ==
  ASSUME Typed, Controller
  PROVE  LedgerMoves
<1>1. /\ inflight # << >> /\ inflight' = Tail(inflight)
      /\ gate' = OldestLands(gate) \/ gate' = OldestFails(gate)
  BY DEF Controller, TuneLands, TuneIsRefused
<1>2. Len(inflight) > 0 /\ Len(inflight') = Len(inflight) - 1
  BY <1>1, HeadTailProperties, LenProperties, EmptySeq DEF Typed
<1>3. QED
  BY <1>1, <1>2
  DEF LedgerMoves, Ledger!Next, Ledger!Landing, Ledger!AnswerLands, Ledger!AnswerFails,
      OldestLands, Ledger!OldestLands, OldestFails, Ledger!OldestFails,
      OpenGate, Ledger!OpenGate, ShutBehind, Ledger!ShutBehind

(* With or without a second receiver, and whatever the operator does, the  *)
(* scan's tunes and its gate are those of an owner of the tune ledger.     *)
THEOREM ScanKeepsLedger == Spec => LedgerKept
<1>1. Init => Ledger!Init
  <2>1. SUFFICES ASSUME Init PROVE Len(inflight) = 0 /\ gate = Ledger!OpenGate
    BY DEF Ledger!Init
  <2>2. QED  BY <2>1, EmptySeq DEF Init, OpenGate, Ledger!OpenGate
<1>2. IInv /\ [Next]_vars => [Ledger!Next]_(Ledger!vars)
  <2>1. SUFFICES ASSUME Typed, [Next]_vars PROVE LedgerMoves
    BY DEF IInv, Core, LedgerMoves
  <2>2. CASE Edit \/ ScannerToggle \/ ImportMap \/ Demodulator \/ UNCHANGED vars
    BY <2>2
    DEF Edit, ScannerToggle, ImportMap, Demodulator, vars, tuner, LedgerMoves, Ledger!vars
  <2>3. CASE CycleChannel
    BY <2>1, <2>3, ScannerMovesLedger DEF CycleChannel
  <2>4. QED
    BY <2>1, <2>2, <2>3, LoopMovesLedger, ControllerMovesLedger DEF Next
<1>3. QED  BY <1>1, <1>2, Invariance, PTL DEF Spec, LedgerKept, Ledger!Spec

=============================================================================
