-------------------------- MODULE YbTrackerProofs --------------------------
(***************************************************************************)
(* Theorems about YbTracker, for any number of miners, pieces, additions   *)
(* and removals, and failing rounds.                                       *)
(***************************************************************************)
EXTENDS YbTracker, WellFoundedInduction, TLAPS

USE YbTrackerAssumption

Checking == {"metadata", "deals", "flag", "unflag", "unflagMissing", "untrack"}

\* The batch and the piece of a round d of m's doctor are rows of T, which no other doctor
\* removes; the piece is without its flag in F before it is untracked.
BatchTracked(m, d, T, F) ==
  /\ \A p \in d.batch : <<m, p>> \in T /\ p # d.piece
  /\ d.pc \in Checking => d.piece \in Pieces /\ <<m, d.piece>> \in T
  /\ d.pc = "untrack" => <<m, d.piece>> \notin F

Batches == \A m \in Miners : BatchTracked(m, doctor[m], Tracked, flagged)

\* The rows of a round are inserted with the time of a piece.
Timed(d) == d.pc \in {"miners", "insert"} => d.last \in Times

AddsDeal == \A a \in adding : a.row => a.miner \in Miners

Inserts(d, r) == d.pc = "insert" /\ r \in d.rows

\* The round d does not raise the watermark above the pair r, whose piece was created at t,
\* unless it is going to insert it.
Within(d, r, t) ==
  /\ d.pc = "scan" => t >= d.watermark
  /\ d.pc = "miners" => t >= d.last \/ r[2] \in d.todo \/ r \in d.rows
  /\ d.pc = "insert" => t >= d.last

FollowedPair(r) ==
  \/ \E m \in Miners : Inserts(doctor[m], r)
  \/ /\ created[r[2]] >= Watermark
     /\ \A m \in Miners : Within(doctor[m], r, created[r[2]])

\* What a pair that is not tracked, and not missed, depends on.
Followed ==
  \A r \in deals \ Tracked : created[r[2]] # 0 /\ r \notin missed => FollowedPair(r)

IInv ==
  /\ TypeOK
  /\ \A m \in Miners : Timed(doctor[m])
  /\ AddsDeal
  /\ flagged \subseteq Tracked
  /\ Batches
  /\ Followed

-----------------------------------------------------------------------------
(* The watermark. *)

LEMMA MaxOfTimes ==
  ASSUME NEW S \in SUBSET (0..MaxTime), S # {}
  PROVE  Max(S) \in S /\ \A x \in S : Max(S) >= x
<1> DEFINE R == {ss \in Nat \X Nat : ss[1] < ss[2]}
           T == {MaxTime - x : x \in S}
<1>1. IsWellFoundedOn(R, Nat)
  BY NatLessThanWellFounded DEF OpToRel
<1>2. \A x \in S : MaxTime - x \in T /\ MaxTime - x \in Nat /\ x \in Nat
  OBVIOUS
<1>3. T \subseteq Nat /\ T # {}
  BY <1>2
<1>4. PICK n \in T : \A k \in T : <<k, n>> \notin R
  <2> HIDE DEF R, T
  <2> QED
    BY <1>1, <1>3, WFMin
<1>5. PICK x \in S : n = MaxTime - x
  BY <1>4
<1>6. \A y \in S : x >= y
  <2> SUFFICES ASSUME NEW y \in S PROVE x >= y
    OBVIOUS
  <2>1. <<MaxTime - y, MaxTime - x>> \notin R
    BY <1>2, <1>4, <1>5
  <2>2. ~(MaxTime - y < MaxTime - x)
    BY <1>2, <2>1
  <2> QED
    BY <1>2, <2>2
<1> QED
  BY <1>6 DEF Max

LEMMA WatermarkIsMax ==
  ASSUME TypeOK
  PROVE  /\ Watermark \in 0..MaxTime
         /\ \A r \in Tracked : tracker[r] <= Watermark
         /\ Watermark = 0 \/ \E r \in Tracked : Watermark = tracker[r]
<1> DEFINE S == {0} \cup {tracker[r] : r \in Tracked}
<1>1. S \in SUBSET (0..MaxTime) /\ S # {} /\ Watermark = Max(S)
  BY DEF TypeOK, Times, Watermark
<1>2. Max(S) \in S /\ \A x \in S : Max(S) >= x
  <2> HIDE DEF S
  <2> QED
    BY <1>1, MaxOfTimes
<1>3. \A r \in Tracked : tracker[r] \in S /\ tracker[r] \in Nat
  BY DEF TypeOK, Times
<1>4. Max(S) \in 0..MaxTime
  BY <1>1, <1>2
<1> HIDE DEF S
<1>5. \A r \in Tracked : tracker[r] <= Watermark
  BY <1>1, <1>2, <1>3, <1>4
<1>6. Watermark = 0 \/ \E r \in Tracked : Watermark = tracker[r]
  BY <1>1, <1>2 DEF S
<1> QED
  BY <1>1, <1>4, <1>5, <1>6

\* The watermark of other rows is bounded by any bound of their times.
LEMMA WatermarkBelow ==
  ASSUME TypeOK', NEW t \in Nat, \A r \in Tracked' : tracker'[r] <= t
  PROVE  Watermark' <= t
<1> DEFINE S == {0} \cup {tracker'[r] : r \in Tracked'}
<1>1. S \in SUBSET (0..MaxTime) /\ S # {} /\ Watermark' = Max(S)
  BY DEF TypeOK, Times, Watermark, Tracked
<1>2. Max(S) \in S
  <2> HIDE DEF S
  <2> QED
    BY <1>1, MaxOfTimes
<1>3. \A x \in S : x <= t
  OBVIOUS
<1> QED
  BY <1>1, <1>2, <1>3

\* A pair that comes into being and is not late is within the reach of every round.
LEMMA NotLate ==
  ASSUME TypeOK, NEW D, NEW c \in [Pieces -> 0..MaxTime], NEW r \in D, r[2] \in Pieces,
         c[r[2]] # 0, r \notin Late(r[2], c, D)
  PROVE  /\ c[r[2]] >= Watermark
         /\ \A m \in Miners : Within(doctor[m], r, c[r[2]])
<1> DEFINE S == {Watermark} \cup {doctor[m].last : m \in Miners}
                  \cup {doctor[m].watermark : m \in Miners}
<1>1. \A m \in Miners : doctor[m].last \in 0..MaxTime /\ doctor[m].watermark \in 0..MaxTime
  BY DEF TypeOK, Round
<1>2. S \in SUBSET (0..MaxTime) /\ S # {}
  BY <1>1, WatermarkIsMax
<1>3. Max(S) \in 0..MaxTime /\ \A x \in S : Max(S) >= x
  <2> HIDE DEF S
  <2> QED
    BY <1>2, MaxOfTimes
<1>4. ~(c[r[2]] < Max(S))
  <2>1. Late(r[2], c, D) =
          IF c[r[2]] # 0 /\ c[r[2]] < Max(S) THEN {x \in D : x[2] = r[2]} ELSE {}
    BY DEF Late
  <2> HIDE DEF S
  <2> QED
    BY <2>1
<1>5. c[r[2]] \in 0..MaxTime
  OBVIOUS
<1>6. Watermark \in S /\ \A m \in Miners : doctor[m].last \in S /\ doctor[m].watermark \in S
  OBVIOUS
<1>7. \A x \in S : c[r[2]] >= x
  <2> HIDE DEF S
  <2> QED
    BY <1>2, <1>3, <1>4, <1>5
<1> HIDE DEF S
<1> QED
  BY <1>6, <1>7 DEF Within

-----------------------------------------------------------------------------

LEMMA InitInv == Init => IInv
<1> SUFFICES ASSUME Init PROVE IInv
  OBVIOUS
<1>1. NoRound \in Round
  BY DEF NoRound, Round, PCs
<1>2. Tracked = {}
  BY DEF Init, Tracked
<1>3. TypeOK
  BY <1>1, <1>2 DEF Init, TypeOK, Times
<1>4. \A m \in Miners : doctor[m] = NoRound
  BY DEF Init
<1>5. Batches /\ \A m \in Miners : Timed(doctor[m])
  BY <1>4 DEF Batches, BatchTracked, Timed, NoRound, Checking
<1> QED
  BY <1>2, <1>3, <1>5 DEF Init, IInv, AddsDeal, Followed

\* What does not concern a pair keeps it followed.
LEMMA PairKept ==
  ASSUME NEW r, FollowedPair(r), UNCHANGED doctor, created'[r[2]] = created[r[2]],
         UNCHANGED tracker
  PROVE  FollowedPair(r)'
BY DEF FollowedPair, Inserts, Within, Watermark, Tracked

\* m's doctor goes on, and may change its own flags and say that pairs are missed.
LEMMA RoundStep ==
  ASSUME IInv, NEW m \in Miners, NEW d \in Round, doctor' = [doctor EXCEPT ![m] = d],
         UNCHANGED <<now, pieceVars, tracker>>, faults' \in 0..MaxFaults,
         flagged' \subseteq Tracked, flagged' \subseteq flagged \cup ({m} \X Pieces),
         missed \subseteq missed', missed' \subseteq Pairs,
         Timed(d), BatchTracked(m, d, Tracked, flagged'),
         \A r \in deals \ Tracked : created[r[2]] # 0 /\ r \notin missed' =>
           \/ Inserts(d, r)
           \/ /\ ~Inserts(doctor[m], r)
              /\ Within(doctor[m], r, created[r[2]]) /\ created[r[2]] >= Watermark =>
                   Within(d, r, created[r[2]])
  PROVE  IInv'
<1>1. /\ doctor' \in [Miners -> Round] /\ doctor'[m] = d
      /\ \A x \in Miners \ {m} : doctor'[x] = doctor[x]
  BY DEF IInv, TypeOK
<1>2. TypeOK'
  BY <1>1 DEF IInv, TypeOK, pieceVars, Tracked
<1>3. \A x \in Miners : Timed(doctor'[x])
  BY <1>1 DEF IInv
<1>4. \A x \in Miners : BatchTracked(x, doctor'[x], Tracked, flagged')
  <2> SUFFICES ASSUME NEW x \in Miners \ {m} PROVE BatchTracked(x, doctor[x], Tracked, flagged')
    BY <1>1
  <2>1. BatchTracked(x, doctor[x], Tracked, flagged)
    BY DEF IInv, Batches
  <2>2. <<x, doctor[x].piece>> \notin flagged => <<x, doctor[x].piece>> \notin flagged'
    OBVIOUS
  <2> QED
    BY <2>1, <2>2 DEF BatchTracked
<1>5. Followed'
  <2> SUFFICES ASSUME NEW r \in deals \ Tracked, created[r[2]] # 0, r \notin missed'
               PROVE  FollowedPair(r)'
    BY DEF Followed, Tracked, pieceVars
  <2>1. FollowedPair(r)
    BY DEF IInv, Followed
  <2>2. CASE Inserts(d, r)
    BY <1>1, <2>2 DEF FollowedPair, Inserts
  <2>3. CASE ~Inserts(d, r)
    <3>1. ~Inserts(doctor[m], r)
      BY <2>3
    <3>2. CASE \E x \in Miners : Inserts(doctor[x], r)
      <4>1. PICK x \in Miners \ {m} : Inserts(doctor[x], r)
        BY <3>1, <3>2
      <4> QED
        BY <1>1, <4>1 DEF FollowedPair, Inserts
    <3>3. CASE created[r[2]] >= Watermark /\ \A x \in Miners : Within(doctor[x], r, created[r[2]])
      <4>1. \A x \in Miners : Within(doctor'[x], r, created[r[2]])
        BY <1>1, <2>3, <3>3
      <4>2. Watermark' = Watermark
        BY DEF Watermark, Tracked
      <4> QED
        BY <3>3, <4>1, <4>2 DEF FollowedPair, Within, pieceVars
    <3> QED
      BY <2>1, <3>2, <3>3 DEF FollowedPair
  <2> QED
    BY <2>2, <2>3
<1> QED
  BY <1>2, <1>3, <1>4, <1>5 DEF IInv, AddsDeal, Batches, pieceVars, Tracked

LEMMA RoundTyped ==
  ASSUME IInv, NEW m \in Miners
  PROVE  doctor \in [Miners -> Round] /\ doctor[m] \in Round
BY DEF IInv, TypeOK

\* Once the rows are inserted, a round has no more to do with the watermark.
LEMMA CheckStep ==
  ASSUME IInv, NEW m \in Miners, doctor[m].pc \in Checking \cup {"check", "batch"},
         NEW d \in Round, d.pc \in Checking \cup {"check", "idle"},
         doctor' = [doctor EXCEPT ![m] = d],
         UNCHANGED <<now, pieceVars, tracker, faults, missed>>,
         flagged' \subseteq Tracked, flagged' \subseteq flagged \cup ({m} \X Pieces),
         BatchTracked(m, d, Tracked, flagged')
  PROVE  IInv'
<1>1. Timed(d) /\ missed \subseteq missed' /\ missed' \subseteq Pairs /\ faults' \in 0..MaxFaults
  BY DEF Timed, IInv, TypeOK, Checking
<1>2. \A r : /\ ~Inserts(doctor[m], r)
             /\ Within(d, r, created[r[2]])
  BY DEF Inserts, Within, Checking
<1> QED
  BY <1>1, <1>2, RoundStep

LEMMA GotoRound ==
  ASSUME IInv, NEW m \in Miners, NEW pc \in PCs, Goto(m, pc)
  PROVE  LET d == [doctor[m] EXCEPT !.pc = pc]
         IN  /\ d \in Round /\ d.pc = pc /\ d.batch = doctor[m].batch
             /\ d.piece = doctor[m].piece
             /\ doctor' = [doctor EXCEPT ![m] = d]
<1>1. doctor[m] \in Round
  BY RoundTyped
<1>2. [doctor[m] EXCEPT !.pc = pc] \in Round
  BY <1>1 DEF Round
<1> QED
  BY <1>1, <1>2 DEF Goto, Round

LEMMA ReadWatermarkInv ==
  ASSUME IInv, NEW m \in Miners, ReadWatermark(m)
  PROVE  IInv'
<1> DEFINE d == [[doctor[m] EXCEPT !.pc = "scan"] EXCEPT !.watermark = Watermark]
<1>1. doctor[m] \in Round /\ doctor[m].pc = "idle"
  BY RoundTyped DEF ReadWatermark, At
<1>2. /\ d \in Round /\ d.pc = "scan" /\ d.watermark = Watermark
      /\ d.batch = doctor[m].batch /\ d.piece = doctor[m].piece
  BY <1>1, WatermarkIsMax DEF IInv, Round, PCs
<1>3. doctor' = [doctor EXCEPT ![m] = d]
  BY DEF ReadWatermark
<1> HIDE DEF d
<1>4. Timed(d) /\ BatchTracked(m, d, Tracked, flagged)
  BY <1>2 DEF Timed, BatchTracked, IInv, Batches, Checking
<1>5. \A r \in deals \ Tracked : /\ ~Inserts(doctor[m], r)
                                 /\ created[r[2]] >= Watermark => Within(d, r, created[r[2]])
  BY <1>1, <1>2 DEF Inserts, Within
<1> QED
  BY <1>2, <1>3, <1>4, <1>5, RoundStep DEF ReadWatermark, IInv, TypeOK, trackVars

LEMMA ScanInv ==
  ASSUME IInv, NEW m \in Miners, Scan(m)
  PROVE  IInv'
<1> DEFINE new == {p \in Pieces : created[p] # 0 /\ created[p] >= doctor[m].watermark}
<1>1. PICK l \in IF new = {} THEN {0} ELSE {created[p] : p \in new} :
        doctor' = [doctor EXCEPT ![m].todo = new, ![m].last = l, ![m].watermark = 0,
                                 ![m].pc = IF new = {} THEN "batch" ELSE "miners"]
  BY DEF Scan
<1> DEFINE pc == IF new = {} THEN "batch" ELSE "miners"
           e == [[doctor[m] EXCEPT !.todo = new] EXCEPT !.last = l]
           f == [e EXCEPT !.watermark = 0]
           d == [f EXCEPT !.pc = pc]
<1>2. doctor[m] \in Round /\ doctor[m].pc = "scan"
  BY RoundTyped DEF Scan, At
<1>3. /\ l \in 0..MaxTime
      /\ new # {} => l \in Times
  BY DEF IInv, TypeOK, Times
<1>4. pc \in {"batch", "miners"} /\ (pc = "miners" => new # {}) /\ (pc = "batch" => new = {})
  OBVIOUS
<1>5. \A r \in deals \ Tracked : created[r[2]] # 0 /\ created[r[2]] >= doctor[m].watermark
        => r[2] \in new
  BY DEF IInv, TypeOK, Pairs
<1>6. new \subseteq Pieces
  OBVIOUS
<1>7. doctor' = [doctor EXCEPT ![m] = d]
  BY <1>1
<1> HIDE DEF new, pc
<1>8. /\ d \in Round /\ d.pc = pc /\ d.todo = new /\ d.last = l
      /\ d.batch = doctor[m].batch /\ d.piece = doctor[m].piece
  <2>1. /\ e \in Round /\ e.todo = new /\ e.last = l
        /\ e.batch = doctor[m].batch /\ e.piece = doctor[m].piece
    BY <1>2, <1>3, <1>6 DEF Round
  <2> HIDE DEF e
  <2>2. /\ f \in Round /\ f.todo = new /\ f.last = l
        /\ f.batch = doctor[m].batch /\ f.piece = doctor[m].piece
    BY <2>1 DEF Round
  <2>3. pc \in PCs
    BY <1>4 DEF PCs
  <2> HIDE DEF f
  <2> QED
    BY <2>2, <2>3 DEF Round
<1> HIDE DEF d
<1>9. Timed(d) /\ BatchTracked(m, d, Tracked, flagged)
  BY <1>3, <1>4, <1>8 DEF Timed, BatchTracked, IInv, Batches, Checking
<1>10. \A r \in deals \ Tracked : created[r[2]] # 0 =>
         /\ ~Inserts(doctor[m], r)
         /\ Within(doctor[m], r, created[r[2]]) => Within(d, r, created[r[2]])
  <2> SUFFICES ASSUME NEW r \in deals \ Tracked, created[r[2]] # 0,
                      Within(doctor[m], r, created[r[2]])
               PROVE  Within(d, r, created[r[2]])
    BY <1>2 DEF Inserts
  <2>1. r[2] \in new
    BY <1>2, <1>5 DEF Within
  <2> QED
    BY <1>4, <1>8, <2>1 DEF Within
<1> QED
  BY <1>7, <1>8, <1>9, <1>10, RoundStep DEF Scan, IInv, TypeOK, trackVars

LEMMA ReadMinersInv ==
  ASSUME IInv, NEW m \in Miners, NEW p \in Pieces, ReadMiners(m, p)
  PROVE  IInv'
<1> DEFINE rows == doctor[m].rows \cup {r \in deals : r[2] = p}
           left == doctor[m].todo \ {p}
           pc == IF left # {} THEN doctor[m].pc ELSE IF rows = {} THEN "batch" ELSE "insert"
           l == IF left = {} /\ rows = {} THEN 0 ELSE doctor[m].last
           e == [[doctor[m] EXCEPT !.todo = left] EXCEPT !.rows = rows]
           d == [[e EXCEPT !.pc = pc] EXCEPT !.last = l]
<1>1. doctor[m] \in Round /\ doctor[m].pc = "miners" /\ p \in doctor[m].todo
  BY RoundTyped DEF ReadMiners, At
<1>2. doctor[m].last \in Times
  BY <1>1 DEF IInv, Timed
<1>3. doctor' = [doctor EXCEPT ![m] = d]
  BY DEF ReadMiners
<1>4. /\ pc \in {"miners", "batch", "insert"}
      /\ pc = "miners" <=> left # {}
      /\ pc = "batch" => rows = {}
      /\ pc # "batch" => l = doctor[m].last
      /\ l \in {0, doctor[m].last}
  BY <1>1
<1>5. rows \subseteq Pairs /\ left \subseteq Pieces
  BY <1>1 DEF IInv, TypeOK, Round
<1>6. \A r \in deals : r \in doctor[m].rows \/ r[2] = p => r \in rows
  OBVIOUS
<1>7. \A q \in doctor[m].todo : q # p => q \in left
  OBVIOUS
<1> HIDE DEF rows, left, pc, l
<1>8. /\ d \in Round /\ d.pc = pc /\ d.todo = left /\ d.last = l /\ d.rows = rows
      /\ d.batch = doctor[m].batch /\ d.piece = doctor[m].piece
  <2>1. /\ e \in Round /\ e.todo = left /\ e.rows = rows /\ e.last = doctor[m].last
        /\ e.batch = doctor[m].batch /\ e.piece = doctor[m].piece
    BY <1>1, <1>5 DEF Round
  <2>2. l \in 0..MaxTime
    BY <1>2, <1>4 DEF Times
  <2> HIDE DEF e
  <2> QED
    BY <1>4, <2>1, <2>2 DEF Round, PCs
<1> HIDE DEF d
<1>9. Timed(d) /\ BatchTracked(m, d, Tracked, flagged)
  BY <1>2, <1>4, <1>8 DEF Timed, BatchTracked, IInv, Batches, Checking
<1>10. \A r \in deals \ Tracked :
         \/ Inserts(d, r)
         \/ /\ ~Inserts(doctor[m], r)
            /\ Within(doctor[m], r, created[r[2]]) => Within(d, r, created[r[2]])
  <2> SUFFICES ASSUME NEW r \in deals \ Tracked, ~Inserts(d, r),
                      Within(doctor[m], r, created[r[2]])
               PROVE  Within(d, r, created[r[2]])
    BY <1>1 DEF Inserts
  <2>1. created[r[2]] >= doctor[m].last \/ r[2] \in doctor[m].todo \/ r \in doctor[m].rows
    BY <1>1 DEF Within
  <2>2. created[r[2]] >= doctor[m].last \/ r[2] \in left \/ r \in rows
    BY <1>6, <1>7, <2>1
  <2>3. CASE pc = "insert"
    BY <1>4, <1>8, <2>2, <2>3 DEF Within, Inserts
  <2>4. CASE pc = "miners"
    BY <1>4, <1>8, <2>2, <2>4 DEF Within
  <2>5. CASE pc = "batch"
    BY <1>8, <2>5 DEF Within
  <2> QED
    BY <1>4, <2>3, <2>4, <2>5
<1> QED
  BY <1>3, <1>8, <1>9, <1>10, RoundStep DEF ReadMiners, IInv, TypeOK, trackVars

LEMMA TakeBatchInv ==
  ASSUME IInv, NEW m \in Miners, TakeBatch(m)
  PROVE  IInv'
<1>1. PICK B \in SUBSET {p \in Pieces : <<m, p>> \in Tracked} :
        doctor' = [doctor EXCEPT ![m] = [NoRound EXCEPT !.pc = "check", !.batch = B]]
  BY DEF TakeBatch
<1> DEFINE d == [[NoRound EXCEPT !.pc = "check"] EXCEPT !.batch = B]
<1>2. doctor' = [doctor EXCEPT ![m] = d]
  BY <1>1
<1>3. d \in Round /\ d.pc = "check" /\ d.batch = B /\ d.piece = None
  <2>1. /\ [NoRound EXCEPT !.pc = "check"] \in Round
        /\ [NoRound EXCEPT !.pc = "check"].pc = "check"
        /\ [NoRound EXCEPT !.pc = "check"].piece = None
    BY DEF Round, NoRound, PCs
  <2> QED
    BY <2>1 DEF Round
<1> HIDE DEF d
<1>4. BatchTracked(m, d, Tracked, flagged)
  BY <1>3 DEF BatchTracked, Checking
<1> QED
  BY <1>2, <1>3, <1>4, CheckStep DEF TakeBatch, At, IInv, trackVars

LEMMA RoundFailsInv ==
  ASSUME IInv, NEW m \in Miners, RoundFails(m)
  PROVE  IInv'
<1>1. NoRound \in Round
  BY DEF Round, NoRound, PCs
<1>2. Timed(NoRound) /\ BatchTracked(m, NoRound, Tracked, flagged)
  BY DEF Timed, BatchTracked, NoRound, Checking
<1>3. \A r \in deals : r \notin missed' => ~Inserts(doctor[m], r) /\ Within(NoRound, r, created[r[2]])
  BY DEF RoundFails, Inserts, Within, At, NoRound
<1>4. missed \subseteq missed' /\ missed' \subseteq Pairs
  BY DEF RoundFails, IInv, TypeOK
<1>5. faults' \in 0..MaxFaults
  BY DEF RoundFails, IInv, TypeOK
<1> QED
  BY <1>1, <1>2, <1>3, <1>4, <1>5, RoundStep DEF RoundFails, IInv, trackVars

LEMMA NextPieceInv ==
  ASSUME IInv, NEW m \in Miners, NextPiece(m)
  PROVE  IInv'
<1>1. doctor[m] \in Round /\ doctor[m].pc = "check"
  BY RoundTyped DEF NextPiece, At
<1>2. CASE doctor[m].batch = {}
  <2>1. NoRound \in Round /\ BatchTracked(m, NoRound, Tracked, flagged)
    BY DEF Round, NoRound, PCs, BatchTracked, Checking
  <2>2. doctor' = [doctor EXCEPT ![m] = NoRound] /\ NoRound.pc = "idle"
    BY <1>2 DEF NextPiece, NoRound
  <2> QED
    BY <1>1, <2>1, <2>2, CheckStep DEF NextPiece, IInv, trackVars
<1>3. CASE doctor[m].batch # {}
  <2>1. PICK p \in doctor[m].batch :
          doctor' = [doctor EXCEPT ![m].piece = p, ![m].batch = @ \ {p}, ![m].pc = "metadata"]
    BY <1>3 DEF NextPiece
  <2> DEFINE e == [[doctor[m] EXCEPT !.piece = p] EXCEPT !.batch = @ \ {p}]
             d == [e EXCEPT !.pc = "metadata"]
  <2>2. doctor' = [doctor EXCEPT ![m] = d]
    BY <2>1
  <2>3. e \in Round /\ e.piece = p /\ e.batch = doctor[m].batch \ {p} /\ p \in Pieces
    BY <1>1 DEF Round
  <2>4. d \in Round /\ d.pc = "metadata" /\ d.piece = p /\ d.batch = doctor[m].batch \ {p}
    <3> HIDE DEF e
    <3> QED
      BY <2>3 DEF Round, PCs
  <2> HIDE DEF d
  <2>5. BatchTracked(m, d, Tracked, flagged)
    BY <2>3, <2>4 DEF BatchTracked, IInv, Batches
  <2> QED
    BY <1>1, <2>2, <2>4, <2>5, CheckStep DEF NextPiece, IInv, trackVars, Checking
<1> QED
  BY <1>2, <1>3

\* The steps of a check that only go on.
LEMMA CheckGoesOn ==
  ASSUME IInv, NEW m \in Miners, doctor[m].pc \in Checking \ {"unflagMissing", "untrack"},
         NEW pc \in (Checking \ {"untrack"}) \cup {"check"}, Goto(m, pc),
         UNCHANGED <<now, pieceVars, tracker, faults, missed>>,
         flagged' \subseteq Tracked, flagged' \subseteq flagged \cup ({m} \X Pieces)
  PROVE  IInv'
<1> DEFINE d == [doctor[m] EXCEPT !.pc = pc]
<1>1. pc \in PCs
  BY DEF PCs, Checking
<1>2. /\ d \in Round /\ d.pc = pc /\ d.batch = doctor[m].batch
      /\ d.piece = doctor[m].piece /\ doctor' = [doctor EXCEPT ![m] = d]
  BY <1>1, GotoRound
<1> HIDE DEF d
<1>3. BatchTracked(m, d, Tracked, flagged')
  BY <1>2 DEF BatchTracked, IInv, Batches
<1> QED
  BY <1>2, <1>3, CheckStep

LEMMA ReadInv ==
  ASSUME IInv, NEW m \in Miners, ReadMetadata(m) \/ ReadDeals(m)
  PROVE  IInv'
<1>1. PICK pc \in {"unflagMissing", "deals", "flag", "unflag", "check"} : Goto(m, pc)
  BY DEF ReadMetadata, ReadDeals
<1>2. doctor[m].pc \in {"metadata", "deals"}
  BY DEF ReadMetadata, ReadDeals, At
<1>3. UNCHANGED <<now, pieceVars, trackVars, faults, missed>>
  BY DEF ReadMetadata, ReadDeals
<1> QED
  BY <1>1, <1>2, <1>3, CheckGoesOn DEF Checking, IInv, trackVars

LEMMA FlagPieceInv ==
  ASSUME IInv, NEW m \in Miners, FlagPiece(m)
  PROVE  IInv'
<1>1. doctor[m].pc = "flag" /\ flagged' = flagged \cup {<<m, doctor[m].piece>>}
  BY DEF FlagPiece, At
<1>2. doctor[m].piece \in Pieces /\ <<m, doctor[m].piece>> \in Tracked
  BY <1>1 DEF IInv, Batches, BatchTracked, Checking
<1>3. flagged' \subseteq Tracked /\ flagged' \subseteq flagged \cup ({m} \X Pieces)
  BY <1>1, <1>2 DEF IInv
<1> QED
  BY <1>1, <1>3, CheckGoesOn DEF FlagPiece, Checking

LEMMA UnflagPieceInv ==
  ASSUME IInv, NEW m \in Miners, UnflagPiece(m)
  PROVE  IInv'
<1> DEFINE pc == IF At(m, "unflag") THEN "check" ELSE "untrack"
           d == [doctor[m] EXCEPT !.pc = pc]
<1>1. doctor[m].pc \in {"unflag", "unflagMissing"} /\ flagged' = flagged \ {<<m, doctor[m].piece>>}
  BY DEF UnflagPiece
<1>2. pc \in {"check", "untrack"} /\ pc \in PCs /\ Goto(m, pc)
  BY DEF UnflagPiece, PCs
<1> HIDE DEF pc
<1>3. /\ d \in Round /\ d.pc = pc /\ d.batch = doctor[m].batch
      /\ d.piece = doctor[m].piece /\ doctor' = [doctor EXCEPT ![m] = d]
  BY <1>2, GotoRound
<1> HIDE DEF d
<1>4. BatchTracked(m, doctor[m], Tracked, flagged)
  BY DEF IInv, Batches
<1>5. BatchTracked(m, d, Tracked, flagged')
  BY <1>1, <1>2, <1>3, <1>4 DEF BatchTracked, Checking
<1>6. flagged' \subseteq Tracked /\ flagged' \subseteq flagged
  BY <1>1 DEF IInv
<1> QED
  BY <1>1, <1>2, <1>3, <1>5, <1>6, CheckStep DEF UnflagPiece, Checking

LEMMA InsertRowInv ==
  ASSUME IInv, NEW m \in Miners, NEW x \in Pairs, InsertRow(m, x)
  PROVE  IInv'
<1> DEFINE left == doctor[m].rows \ {x}
           pc == IF left = {} THEN "batch" ELSE doctor[m].pc
           l == IF left = {} THEN 0 ELSE doctor[m].last
           e == [[doctor[m] EXCEPT !.rows = left] EXCEPT !.pc = pc]
           d == [e EXCEPT !.last = l]
<1>1. doctor[m] \in Round /\ doctor[m].pc = "insert" /\ x \in doctor[m].rows
  BY RoundTyped DEF InsertRow, At
<1>2. doctor[m].last \in Times
  BY <1>1 DEF IInv, Timed
<1>3. doctor' = [doctor EXCEPT ![m] = d]
  BY DEF InsertRow
<1>4. /\ pc \in {"batch", "insert"} /\ pc \in PCs
      /\ pc = "insert" <=> left # {}
      /\ left # {} => l = doctor[m].last
      /\ l \in 0..MaxTime
  BY <1>1, <1>2 DEF Times, PCs
<1>5. left \subseteq Pairs /\ left = doctor[m].rows \ {x}
  BY <1>1 DEF Round
<1> HIDE DEF left, pc, l
<1>6. /\ d \in Round /\ d.pc = pc /\ d.last = l /\ d.rows = left
      /\ d.batch = doctor[m].batch /\ d.piece = doctor[m].piece
  <2>1. /\ e \in Round /\ e.pc = pc /\ e.rows = left
        /\ e.batch = doctor[m].batch /\ e.piece = doctor[m].piece
    BY <1>1, <1>4, <1>5 DEF Round
  <2> HIDE DEF e
  <2> QED
    BY <1>4, <2>1 DEF Round
<1> HIDE DEF d
<1>7. /\ doctor' \in [Miners -> Round] /\ doctor'[m] = d
      /\ \A n \in Miners \ {m} : doctor'[n] = doctor[n]
  BY <1>3, <1>6 DEF IInv, TypeOK
<1>8. /\ Tracked' = Tracked \cup {x}
      /\ \A r \in Tracked' :
           tracker'[r] = IF r \in Tracked THEN tracker[r] ELSE doctor[m].last
      /\ missed' = missed \ {x}
  BY DEF InsertRow, Tracked
<1>9. UNCHANGED <<now, created, deals, adding, ops, flagged, faults>>
  BY DEF InsertRow, pieceVars
<1>10. TypeOK'
  BY <1>2, <1>7, <1>8, <1>9 DEF IInv, TypeOK
<1>11. \A n \in Miners : Timed(doctor'[n])
  BY <1>2, <1>4, <1>6, <1>7 DEF IInv, Timed
<1>12. \A n \in Miners : BatchTracked(n, doctor'[n], Tracked', flagged')
  <2> SUFFICES ASSUME NEW n \in Miners PROVE BatchTracked(n, doctor'[n], Tracked', flagged')
    OBVIOUS
  <2>1. BatchTracked(n, doctor[n], Tracked, flagged)
    BY DEF IInv, Batches
  <2>2. /\ doctor'[n].batch = doctor[n].batch /\ doctor'[n].piece = doctor[n].piece
        /\ doctor'[n].pc \in Checking => doctor'[n].pc = doctor[n].pc
    BY <1>4, <1>6, <1>7 DEF Checking
  <2>3. doctor'[n].pc = "untrack" => doctor'[n].pc \in Checking
    BY DEF Checking
  <2> QED
    BY <1>8, <1>9, <2>1, <2>2, <2>3 DEF BatchTracked
<1>13. Followed'
  <2> SUFFICES ASSUME NEW r \in deals \ Tracked, r # x, created[r[2]] # 0, r \notin missed
               PROVE  FollowedPair(r)'
    BY <1>8, <1>9 DEF Followed
  <2>1. FollowedPair(r)
    BY DEF IInv, Followed
  <2>2. CASE \E n \in Miners : Inserts(doctor[n], r)
    <3>1. PICK n \in Miners : Inserts(doctor[n], r)
      BY <2>2
    <3>2. Inserts(doctor'[n], r)
      BY <1>4, <1>5, <1>6, <1>7, <3>1 DEF Inserts
    <3> QED
      BY <3>2 DEF FollowedPair, Inserts
  <2>3. CASE created[r[2]] >= Watermark /\ \A n \in Miners : Within(doctor[n], r, created[r[2]])
    <3>1. created[r[2]] \in Nat /\ created[r[2]] >= doctor[m].last
      BY <1>1, <2>3 DEF Within, IInv, TypeOK, Pairs
    <3>2. \A q \in Tracked' : tracker'[q] <= created[r[2]]
      <4> SUFFICES ASSUME NEW q \in Tracked' PROVE tracker'[q] <= created[r[2]]
        OBVIOUS
      <4>1. CASE q \in Tracked
        <5>1. tracker[q] <= Watermark /\ Watermark \in Nat /\ tracker[q] \in Nat
          BY <4>1, WatermarkIsMax DEF IInv, TypeOK, Times
        <5> QED
          BY <1>8, <2>3, <3>1, <4>1, <5>1
      <4>2. CASE q \notin Tracked
        BY <1>2, <1>8, <3>1, <4>2 DEF Times
      <4> QED
        BY <4>1, <4>2
    <3>3. Watermark' <= created[r[2]]
      BY <1>10, <3>1, <3>2, WatermarkBelow
    <3>4. Watermark' \in Nat
      <4>1. {0} \cup {tracker'[q] : q \in Tracked'} \in SUBSET (0..MaxTime)
        BY <1>10 DEF TypeOK, Times, Tracked
      <4> QED
        BY <4>1, MaxOfTimes DEF Watermark, Tracked
    <3>5. \A n \in Miners : Within(doctor'[n], r, created[r[2]])
      <4> SUFFICES ASSUME NEW n \in Miners PROVE Within(doctor'[n], r, created[r[2]])
        OBVIOUS
      <4>1. CASE n = m
        BY <1>4, <1>6, <1>7, <3>1, <4>1 DEF Within
      <4>2. CASE n # m
        BY <1>7, <2>3, <4>2
      <4> QED
        BY <4>1, <4>2
    <3> QED
      BY <1>9, <3>1, <3>3, <3>4, <3>5 DEF FollowedPair, Within
  <2> QED
    BY <2>1, <2>2, <2>3 DEF FollowedPair
<1>14. flagged' \subseteq Tracked'
  BY <1>8, <1>9 DEF IInv
<1> QED
  BY <1>9, <1>10, <1>11, <1>12, <1>13, <1>14 DEF IInv, AddsDeal, Batches, Timed, BatchTracked

LEMMA UntrackPieceInv ==
  ASSUME IInv, NEW m \in Miners, UntrackPiece(m)
  PROVE  IInv'
<1> DEFINE x == <<m, doctor[m].piece>>
           d == [doctor[m] EXCEPT !.pc = "check"]
<1>1. doctor[m].pc = "untrack" /\ doctor[m] \in Round
  BY RoundTyped DEF UntrackPiece, At
<1>2. BatchTracked(m, doctor[m], Tracked, flagged)
  BY DEF IInv, Batches
<1>3. x \in Tracked /\ x \notin flagged
  BY <1>1, <1>2 DEF BatchTracked, Checking
<1>4. /\ d \in Round /\ d.pc = "check" /\ d.batch = doctor[m].batch
      /\ d.piece = doctor[m].piece /\ doctor' = [doctor EXCEPT ![m] = d]
  BY GotoRound DEF UntrackPiece, PCs
<1> HIDE DEF d
<1>5. /\ doctor' \in [Miners -> Round] /\ doctor'[m] = d
      /\ \A n \in Miners \ {m} : doctor'[n] = doctor[n]
  BY <1>4 DEF IInv, TypeOK
<1>6. /\ Tracked' = Tracked \ {x}
      /\ \A r \in Tracked' : tracker'[r] = tracker[r]
      /\ missed' = missed \cup ({x} \cap deals)
  BY DEF UntrackPiece, Tracked
<1>7. UNCHANGED <<now, created, deals, adding, ops, flagged, faults>>
  BY DEF UntrackPiece, pieceVars
<1>8. TypeOK'
  BY <1>5, <1>6, <1>7 DEF IInv, TypeOK
<1>9. \A n \in Miners : Timed(doctor'[n])
  BY <1>4, <1>5 DEF IInv, Timed
<1>10. \A n \in Miners : BatchTracked(n, doctor'[n], Tracked', flagged')
  <2> SUFFICES ASSUME NEW n \in Miners PROVE BatchTracked(n, doctor'[n], Tracked', flagged')
    OBVIOUS
  <2>1. BatchTracked(n, doctor[n], Tracked, flagged)
    BY DEF IInv, Batches
  <2>2. CASE n = m
    <3>1. \A p \in doctor[m].batch : <<m, p>> \in Tracked' /\ p # doctor[m].piece
      BY <1>2, <1>6 DEF BatchTracked
    <3> QED
      BY <1>4, <1>5, <2>2, <3>1 DEF BatchTracked, Checking
  <2>3. CASE n # m
    <3>1. \A p : <<n, p>> # x
      BY <2>3
    <3> QED
      BY <1>5, <1>6, <1>7, <2>1, <2>3, <3>1 DEF BatchTracked
  <2> QED
    BY <2>2, <2>3
<1>11. Followed'
  <2> SUFFICES ASSUME NEW r \in deals \ Tracked, created[r[2]] # 0, r \notin missed
               PROVE  FollowedPair(r)'
    BY <1>6, <1>7 DEF Followed
  <2>1. FollowedPair(r)
    BY DEF IInv, Followed
  <2>2. CASE \E n \in Miners : Inserts(doctor[n], r)
    <3>1. PICK n \in Miners : Inserts(doctor[n], r)
      BY <2>2
    <3>2. Inserts(doctor'[n], r)
      BY <1>1, <1>5, <3>1 DEF Inserts
    <3> QED
      BY <3>2 DEF FollowedPair, Inserts
  <2>3. CASE created[r[2]] >= Watermark /\ \A n \in Miners : Within(doctor[n], r, created[r[2]])
    <3>1. created[r[2]] \in Nat
      BY DEF IInv, TypeOK, Pairs
    <3>2. \A q \in Tracked' : tracker'[q] <= created[r[2]]
      <4> SUFFICES ASSUME NEW q \in Tracked' PROVE tracker'[q] <= created[r[2]]
        OBVIOUS
      <4>1. q \in Tracked /\ tracker'[q] = tracker[q]
        BY <1>6
      <4>2. tracker[q] <= Watermark /\ Watermark \in Nat /\ tracker[q] \in Nat
        BY <4>1, WatermarkIsMax DEF IInv, TypeOK, Times
      <4> QED
        BY <2>3, <3>1, <4>1, <4>2
    <3>3. Watermark' <= created[r[2]]
      BY <1>8, <3>1, <3>2, WatermarkBelow
    <3>4. Watermark' \in Nat
      <4>1. {0} \cup {tracker'[q] : q \in Tracked'} \in SUBSET (0..MaxTime)
        BY <1>8 DEF TypeOK, Times, Tracked
      <4> QED
        BY <4>1, MaxOfTimes DEF Watermark, Tracked
    <3>5. \A n \in Miners : Within(doctor'[n], r, created[r[2]])
      BY <1>4, <1>5, <2>3 DEF Within
    <3> QED
      BY <1>7, <3>1, <3>3, <3>4, <3>5 DEF FollowedPair, Within
  <2> QED
    BY <2>1, <2>2, <2>3 DEF FollowedPair
<1>12. flagged' \subseteq Tracked'
  BY <1>3, <1>6, <1>7 DEF IInv
<1> QED
  BY <1>7, <1>8, <1>9, <1>10, <1>11, <1>12 DEF IInv, AddsDeal, Batches, Timed, BatchTracked

-----------------------------------------------------------------------------
(* The pieces. *)

LEMMA PiecesStep ==
  ASSUME IInv, TypeOK', AddsDeal', UNCHANGED <<trackVars, doctor>>,
         \A r \in deals' \ Tracked : created'[r[2]] # 0 /\ r \notin missed' =>
           \/ /\ r \in deals /\ created'[r[2]] = created[r[2]] /\ r \notin missed
           \/ /\ created'[r[2]] >= Watermark
              /\ \A m \in Miners : Within(doctor[m], r, created'[r[2]])
  PROVE  IInv'
<1>1. UNCHANGED <<Tracked, Watermark>>
  BY DEF Tracked, Watermark, trackVars
<1>2. Followed'
  <2> SUFFICES ASSUME NEW r \in deals' \ Tracked, created'[r[2]] # 0, r \notin missed'
               PROVE  FollowedPair(r)'
    BY <1>1 DEF Followed
  <2>1. CASE r \in deals /\ created'[r[2]] = created[r[2]] /\ r \notin missed
    <3>1. FollowedPair(r)
      BY <2>1 DEF IInv, Followed
    <3> QED
      BY <2>1, <3>1, PairKept DEF trackVars
  <2>2. CASE /\ created'[r[2]] >= Watermark
             /\ \A m \in Miners : Within(doctor[m], r, created'[r[2]])
    BY <1>1, <2>2 DEF FollowedPair, Within
  <2> QED
    BY <2>1, <2>2
<1> QED
  BY <1>1, <1>2 DEF IInv, Batches, BatchTracked, Timed, trackVars

LEMMA StartAddingInv ==
  ASSUME IInv, NEW m \in Miners \cup {None}, NEW p \in Pieces, StartAdding(m, p)
  PROVE  IInv'
<1> DEFINE a == [miner |-> m, piece |-> p, at |-> now, row |-> FALSE]
<1>1. a \in [miner: Miners \cup {None}, piece: Pieces, at: Times, row: BOOLEAN] /\ ~a.row
  BY DEF IInv, TypeOK
<1>2. adding' = adding \cup {a}
  BY DEF StartAdding
<1> HIDE DEF a
<1>3. TypeOK'
  BY <1>1, <1>2 DEF StartAdding, IInv, TypeOK, trackVars, Tracked
<1>4. AddsDeal'
  BY <1>1, <1>2 DEF IInv, AddsDeal
<1> QED
  BY <1>3, <1>4, PiecesStep DEF StartAdding

LEMMA createPieceMetadataInv ==
  ASSUME IInv, NEW a \in adding, createPieceMetadata(a)
  PROVE  IInv'
<1> DEFINE p == a.piece
           b == [a EXCEPT !.row = TRUE]
<1>1. /\ p \in Pieces /\ a.at \in Times /\ a.miner \in Miners \cup {None}
      /\ a \in [miner: Miners \cup {None}, piece: Pieces, at: Times, row: BOOLEAN]
  BY DEF IInv, TypeOK
<1>2. /\ b \in [miner: Miners \cup {None}, piece: Pieces, at: Times, row: BOOLEAN]
      /\ b.miner = a.miner
  BY <1>1
<1>3. adding' = (adding \ {a}) \cup (IF a.miner = None THEN {} ELSE {b})
  BY DEF createPieceMetadata
<1> HIDE DEF b
<1>4. created' \in [Pieces -> 0..MaxTime]
  BY <1>1 DEF createPieceMetadata, IInv, TypeOK, Times
<1>5. /\ \A q \in Pieces \ {p} : created'[q] = created[q]
      /\ created[p] # 0 => created'[p] = created[p]
  BY <1>1 DEF createPieceMetadata, IInv, TypeOK
<1>6. missed' = missed \cup (IF created[p] = 0 THEN Late(p, created', deals) ELSE {})
  BY DEF createPieceMetadata
<1>7. Late(p, created', deals) \subseteq deals
  BY DEF Late
<1>8. TypeOK'
  <2>1. missed' \subseteq Pairs
    BY <1>6, <1>7 DEF IInv, TypeOK
  <2>2. adding' \subseteq [miner: Miners \cup {None}, piece: Pieces, at: Times, row: BOOLEAN]
    BY <1>2, <1>3 DEF IInv, TypeOK
  <2> QED
    BY <1>4, <2>1, <2>2 DEF createPieceMetadata, IInv, TypeOK, trackVars, Tracked
<1>9. AddsDeal'
  BY <1>1, <1>2, <1>3 DEF IInv, AddsDeal
<1>10. ASSUME NEW r \in deals \ Tracked, created'[r[2]] # 0, r \notin missed'
       PROVE  \/ created'[r[2]] = created[r[2]] /\ r \notin missed
              \/ /\ created'[r[2]] >= Watermark
                 /\ \A m \in Miners : Within(doctor[m], r, created'[r[2]])
  <2>1. r[2] \in Pieces
    BY <1>10 DEF IInv, TypeOK, Pairs
  <2>2. CASE r[2] # p \/ created[p] # 0
    BY <1>5, <1>6, <1>10, <2>1, <2>2
  <2>3. CASE r[2] = p /\ created[p] = 0
    BY <1>4, <1>6, <1>10, <2>1, <2>3, NotLate DEF IInv
  <2> QED
    BY <2>2, <2>3
<1> QED
  BY <1>8, <1>9, <1>10, PiecesStep DEF createPieceMetadata

LEMMA InsertDealInv ==
  ASSUME IInv, NEW a \in adding, InsertDeal(a)
  PROVE  IInv'
<1> DEFINE x == <<a.miner, a.piece>>
<1>1. a.piece \in Pieces /\ a.miner \in Miners /\ x \in Pairs /\ x[2] = a.piece
  BY DEF InsertDeal, IInv, TypeOK, AddsDeal, Pairs
<1>2. /\ deals' = deals \cup {x} /\ adding' = adding \ {a}
      /\ missed' = missed \cup Late(x[2], created, deals' \ deals)
      /\ UNCHANGED <<now, created, ops, trackVars, doctor, faults>>
  BY <1>1 DEF InsertDeal
<1>3. Late(x[2], created, deals' \ deals) \subseteq {x}
  BY <1>2 DEF Late
<1> HIDE DEF x
<1>4. TypeOK'
  <2>1. missed' \subseteq Pairs /\ deals' \subseteq Pairs
    BY <1>1, <1>2, <1>3 DEF IInv, TypeOK
  <2> QED
    BY <1>2, <2>1 DEF IInv, TypeOK, trackVars, Tracked
<1>5. AddsDeal'
  BY <1>2 DEF IInv, AddsDeal
<1>6. ASSUME NEW r \in deals' \ Tracked, created[r[2]] # 0, r \notin missed'
      PROVE  \/ r \in deals /\ r \notin missed
             \/ /\ created[r[2]] >= Watermark
                /\ \A m \in Miners : Within(doctor[m], r, created[r[2]])
  <2>1. CASE r \in deals
    BY <1>2, <1>6, <2>1
  <2>2. CASE r \notin deals
    <3>1. r = x /\ r \in deals' \ deals
      BY <1>2, <1>6, <2>2
    <3>2. r[2] \in Pieces /\ r \notin Late(r[2], created, deals' \ deals)
      BY <1>1, <1>2, <1>6, <3>1
    <3>3. TypeOK /\ created \in [Pieces -> 0..MaxTime]
      BY DEF IInv, TypeOK
    <3> QED
      BY <1>6, <3>1, <3>2, <3>3, NotLate
  <2> QED
    BY <2>1, <2>2
<1> QED
  BY <1>2, <1>4, <1>5, <1>6, PiecesStep

LEMMA RemoveDealForPieceInv ==
  ASSUME IInv, NEW m \in Miners, NEW p \in Pieces, RemoveDealForPiece(m, p)
  PROVE  IInv'
<1>1. /\ deals' = deals \ {<<m, p>>} /\ missed' = missed \ {<<m, p>>}
      /\ created' = [created EXCEPT ![p] = IF \E r \in deals' : r[2] = p THEN @ ELSE 0]
      /\ UNCHANGED <<now, adding, trackVars, doctor, faults>>
      /\ ops' = ops + 1 /\ ops < MaxOps
  BY DEF RemoveDealForPiece
<1>2. created \in [Pieces -> 0..MaxTime]
  BY DEF IInv, TypeOK
<1>3. created' \in [Pieces -> 0..MaxTime]
  BY <1>1, <1>2
<1>4. TypeOK'
  BY <1>1, <1>3 DEF IInv, TypeOK, trackVars, Tracked
<1>5. AddsDeal'
  BY <1>1 DEF IInv, AddsDeal
<1>6. ASSUME NEW r \in deals' \ Tracked, r \notin missed'
      PROVE  r \in deals /\ created'[r[2]] = created[r[2]] /\ r \notin missed
  <2>1. r \in deals /\ r # <<m, p>> /\ r \notin missed
    BY <1>1, <1>6
  <2>2. r[2] \in Pieces
    BY <2>1 DEF IInv, TypeOK, Pairs
  <2>3. created'[r[2]] = created[r[2]]
    BY <1>1, <1>2, <1>6, <2>2
  <2> QED
    BY <2>1, <2>3
<1> QED
  BY <1>1, <1>4, <1>5, <1>6, PiecesStep

LEMMA TickInv ==
  ASSUME IInv, Tick
  PROVE  IInv'
<1>1. now' = now + 1 /\ now < MaxTime
      /\ UNCHANGED <<created, deals, adding, ops, trackVars, doctor, faults, missed>>
  BY DEF Tick, pieceVars
<1>2. TypeOK'
  BY <1>1 DEF IInv, TypeOK, Times, trackVars, Tracked
<1> QED
  BY <1>1, <1>2, PiecesStep DEF IInv, AddsDeal

-----------------------------------------------------------------------------

LEMMA DoctorStepInv ==
  ASSUME IInv, NEW m \in Miners, DoctorStep(m)
  PROVE  IInv'
<1>1. CASE ReadWatermark(m) \/ Scan(m) \/ TakeBatch(m)
  BY <1>1, ReadWatermarkInv, ScanInv, TakeBatchInv
<1>2. CASE \E p \in Pieces : ReadMiners(m, p)
  BY <1>2, ReadMinersInv
<1>3. CASE \E r \in Pairs : InsertRow(m, r)
  BY <1>3, InsertRowInv
<1>4. CASE NextPiece(m) \/ ReadMetadata(m) \/ ReadDeals(m)
  BY <1>4, NextPieceInv, ReadInv
<1>5. CASE FlagPiece(m) \/ UnflagPiece(m) \/ UntrackPiece(m)
  BY <1>5, FlagPieceInv, UnflagPieceInv, UntrackPieceInv
<1> QED
  BY <1>1, <1>2, <1>3, <1>4, <1>5 DEF DoctorStep

LEMMA StutterInv == IInv /\ UNCHANGED vars => IInv'
<1> SUFFICES ASSUME IInv, UNCHANGED vars PROVE IInv'
  OBVIOUS
<1>1. TypeOK' /\ AddsDeal'
  BY DEF IInv, TypeOK, AddsDeal, vars, pieceVars, trackVars, Tracked
<1> QED
  BY <1>1, PiecesStep DEF vars, pieceVars

LEMMA NextInv == IInv /\ [Next]_vars => IInv'
<1> SUFFICES ASSUME IInv, [Next]_vars PROVE IInv'
  OBVIOUS
<1>1. CASE Tick
  BY <1>1, TickInv
<1>2. CASE \E m \in Miners \cup {None}, p \in Pieces : StartAdding(m, p)
  BY <1>2, StartAddingInv
<1>3. CASE \E a \in adding : createPieceMetadata(a) \/ InsertDeal(a)
  BY <1>3, createPieceMetadataInv, InsertDealInv
<1>4. CASE \E m \in Miners, p \in Pieces : RemoveDealForPiece(m, p)
  BY <1>4, RemoveDealForPieceInv
<1>5. CASE \E m \in Miners : DoctorStep(m) \/ RoundFails(m)
  BY <1>5, DoctorStepInv, RoundFailsInv
<1>6. CASE UNCHANGED vars
  BY <1>6, StutterInv
<1> QED
  BY <1>1, <1>2, <1>3, <1>4, <1>5, <1>6 DEF Next

\* The inductive invariant holds in every state.
THEOREM Invariance == Spec => []IInv
<1> QED
  BY InitInv, NextInv, PTL DEF Spec

\* YbTracker is type correct: in particular every row is inserted with the time of a piece.
THEOREM TypeCorrect == Spec => []TypeOK
<1>1. IInv => TypeOK
  BY DEF IInv
<1> QED
  BY <1>1, Invariance, PTL

\* A flag is never left without the tracker row through which it can be cleared
\* (doctor.go 129-133).
THEOREM FlagsTracked == Spec => []FlagsAreTracked
<1>1. IInv => FlagsAreTracked
  BY DEF IInv, FlagsAreTracked, FlaggedPiecesList
<1> QED
  BY <1>1, Invariance, PTL

\* A piece is kept out of the tracker only by a late deal, a round that failed while it
\* inserted, or an untracking (piecedoctor.go 63-131).
THEOREM OnlyExplainedMisses == Spec => []MissesExplained
<1>1. IInv => MissesExplained
  <2> SUFFICES ASSUME IInv, NEW r \in deals \ Tracked, created[r[2]] # 0, ~StillComing(r),
                      r \notin missed
               PROVE  FALSE
    BY DEF MissesExplained
  <2>1. FollowedPair(r)
    BY DEF IInv, Followed
  <2> QED
    BY <2>1 DEF FollowedPair, StillComing, Inserts, At
<1> QED
  BY <1>1, Invariance, PTL

=============================================================================
