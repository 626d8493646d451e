----------------------------- MODULE YbTracker -----------------------------
(***************************************************************************)
(* The piece tracker and the flags of the Yugabyte store                   *)
(* (lib/boostd-data/yugabyte/piecedoctor.go), driven by one doctor per     *)
(* miner (lib/boost/piecedirectory/doctor.go).                             *)
(*                                                                         *)
(* Pieces are in PieceMetadata and PieceDeal, which other callers change   *)
(* at any time; the doctors copy new pieces into PieceTracker.  How far    *)
(* they have copied is not stored: it is the latest creation time in       *)
(* PieceTracker.  One action is one statement.                             *)
(*                                                                         *)
(* What a check finds about the sectors of a piece is left open here: a    *)
(* piece with deals is flagged or not.                                     *)
(***************************************************************************)
EXTENDS Naturals, FiniteSets, FiniteSetsExt

CONSTANTS
  Miners, Pieces,
  None,
  BatchSize, \* TrackerCheckBatchSize
  MaxTime,   \* bound: the clock
  MaxOps,    \* bound: calls that change the pieces
  MaxFaults  \* bound: doctor rounds that fail

ASSUME YbTrackerAssumption ==
  /\ None \notin Pieces
  /\ BatchSize \in Nat \ {0}
  /\ MaxTime \in Nat \ {0}
  /\ MaxOps \in Nat
  /\ MaxFaults \in Nat

VARIABLES
  now,      \* the clock
  created,  \* PieceMetadata: the CreatedAt of each piece, 0 without a row
  deals,    \* PieceDeal, as pairs of a miner and a piece
  adding,   \* additions that run: they took the time but are not through
  tracker,  \* PieceTracker: the rows, with the CreatedAt they carry
  flagged,  \* PieceFlagged, as pairs
  doctor,   \* the round of each miner's doctor
  ops, faults,
  missed    \* pairs that something the properties allow for has kept out of the tracker

pieceVars == <<created, deals, adding, ops>>
trackVars == <<tracker, flagged>>
vars == <<now, pieceVars, trackVars, doctor, faults, missed>>

Pairs == Miners \X Pieces
Times == 1..MaxTime

PCs == {"idle", "scan", "miners", "insert", "batch", "check", "metadata", "deals",
        "flag", "unflag", "unflagMissing", "untrack"}

\* last: the variable createdAt; rows: the pairs to insert.
Round == [pc: PCs, watermark: 0..MaxTime, last: 0..MaxTime,
          todo: SUBSET Pieces, rows: SUBSET Pairs, batch: SUBSET Pieces,
          piece: Pieces \cup {None}]

NoRound == [pc |-> "idle", watermark |-> 0, last |-> 0, todo |-> {},
            rows |-> {}, batch |-> {}, piece |-> None]

Tracked == DOMAIN tracker

\* Every variable has its type, and every tracked row has a time.
TypeOK ==
  /\ now \in Times
  /\ created \in [Pieces -> 0..MaxTime]
  /\ deals \subseteq Pairs
  /\ adding \subseteq [miner: Miners \cup {None}, piece: Pieces, at: Times, row: BOOLEAN]
  /\ Tracked \subseteq Pairs /\ \A r \in Tracked : tracker[r] \in Times
  /\ flagged \subseteq Pairs
  /\ doctor \in [Miners -> Round]
  /\ ops \in 0..MaxOps
  /\ faults \in 0..MaxFaults
  /\ missed \subseteq Pairs

Init ==
  /\ now = 1
  /\ created = [p \in Pieces |-> 0]
  /\ deals = {}
  /\ adding = {}
  /\ tracker = [r \in {} |-> 0]
  /\ flagged = {}
  /\ doctor = [m \in Miners |-> NoRound]
  /\ ops = 0
  /\ faults = 0
  /\ missed = {}

-----------------------------------------------------------------------------
(* The reads.                                                              *)

\* SELECT MAX(CreatedAt) FROM PieceTracker.
Watermark == Max({0} \cup {tracker[r] : r \in Tracked})

PiecesCount(m) == Cardinality({r \in Tracked : r[1] = m})
FlaggedPiecesList(m) == {p \in Pieces : <<m, p>> \in flagged}
FlaggedPiecesCount(m) == Cardinality(FlaggedPiecesList(m))

\* The rows of a miner that were checked against its deals, as a fraction.  Which rows those
\* are is up to updated, since a row keeps no trace of its check here.
ScanProgress(m, updated) ==
  LET total == Cardinality({r \in deals : r[1] = m})
      scanned == Cardinality({r \in Tracked \cap updated : r[1] = m})
  IN  IF total = 0 \/ 100 * scanned > 95 * total THEN <<1, 1>> ELSE <<scanned, total>>

-----------------------------------------------------------------------------
(* The pieces.  AddDealForPiece and AddIndex take the time before they     *)
(* insert the metadata row; the deal row is a second statement.            *)

\* Pairs of p whose row and deal are both there only now that a doctor has already
\* looked at later pieces, or is about to look at later ones only.
Late(p, c, D) ==
  LET seen == {Watermark} \cup {doctor[m].last : m \in Miners}
                \cup {doctor[m].watermark : m \in Miners}
  IN
  IF c[p] # 0 /\ c[p] < Max(seen) THEN {r \in D : r[2] = p} ELSE {}

\* m is None for an AddIndex, which adds no deal.
StartAdding(m, p) ==
  /\ ops < MaxOps
  /\ ops' = ops + 1
  /\ adding' = adding \cup {[miner |-> m, piece |-> p, at |-> now, row |-> FALSE]}
  /\ UNCHANGED <<now, created, deals, trackVars, doctor, faults, missed>>

createPieceMetadata(a) ==
  /\ a \in adding /\ ~a.row
  /\ created' = [created EXCEPT ![a.piece] = IF @ = 0 THEN a.at ELSE @]
  /\ adding' = (adding \ {a}) \cup (IF a.miner = None THEN {} ELSE {[a EXCEPT !.row = TRUE]})
  /\ missed' = missed \cup (IF created[a.piece] = 0 THEN Late(a.piece, created', deals) ELSE {})
  /\ UNCHANGED <<now, deals, ops, trackVars, doctor, faults>>

InsertDeal(a) ==
  /\ a \in adding /\ a.row
  /\ deals' = deals \cup {<<a.miner, a.piece>>}
  /\ adding' = adding \ {a}
  /\ missed' = missed \cup Late(a.piece, created, deals' \ deals)
  /\ UNCHANGED <<now, created, ops, trackVars, doctor, faults>>

\* The metadata row goes with the last deal (its statements are in YbStore).
RemoveDealForPiece(m, p) ==
  /\ ops < MaxOps
  /\ ops' = ops + 1
  /\ <<m, p>> \in deals
  /\ deals' = deals \ {<<m, p>>}
  /\ created' = [created EXCEPT ![p] = IF \E r \in deals' : r[2] = p THEN @ ELSE 0]
  /\ missed' = missed \ {<<m, p>>}
  /\ UNCHANGED <<now, adding, trackVars, doctor, faults>>

Tick ==
  /\ now < MaxTime
  /\ now' = now + 1
  /\ UNCHANGED <<pieceVars, trackVars, doctor, faults, missed>>

-----------------------------------------------------------------------------
(* NextPiecesToCheck.                                                      *)

At(m, pc) == doctor[m].pc = pc

Goto(m, pc) == doctor' = [doctor EXCEPT ![m].pc = pc]

ReadWatermark(m) ==
  /\ At(m, "idle")
  /\ doctor' = [doctor EXCEPT ![m].pc = "scan", ![m].watermark = Watermark]
  /\ UNCHANGED <<now, pieceVars, trackVars, faults, missed>>

\* Mutant: pieces as old as the watermark are taken for copied.
ScanLater(m) ==
  LET new == {p \in Pieces : created[p] > doctor[m].watermark} IN
  /\ At(m, "scan")
  /\ \E l \in IF new = {} THEN {0} ELSE {created[p] : p \in new} :
       doctor' = [doctor EXCEPT ![m].todo = new, ![m].last = l, ![m].watermark = 0,
                                ![m].pc = IF new = {} THEN "batch" ELSE "miners"]
  /\ UNCHANGED <<now, pieceVars, trackVars, faults, missed>>

\* The rows come in any order, and createdAt keeps the time of the last one.
Scan(m) ==
  LET new == {p \in Pieces : created[p] # 0 /\ created[p] >= doctor[m].watermark} IN
  /\ At(m, "scan")
  /\ \E l \in IF new = {} THEN {0} ELSE {created[p] : p \in new} :
       doctor' = [doctor EXCEPT ![m].todo = new, ![m].last = l, ![m].watermark = 0,
                                ![m].pc = IF new = {} THEN "batch" ELSE "miners"]
  /\ UNCHANGED <<now, pieceVars, trackVars, faults, missed>>

ReadMiners(m, p) ==
  LET rows == doctor[m].rows \cup {r \in deals : r[2] = p}
      left == doctor[m].todo \ {p}
  IN
  /\ At(m, "miners")
  /\ p \in doctor[m].todo
  /\ doctor' = [doctor EXCEPT ![m].todo = left, ![m].rows = rows,
       ![m].pc = IF left # {} THEN @ ELSE IF rows = {} THEN "batch" ELSE "insert",
       ![m].last = IF left = {} /\ rows = {} THEN 0 ELSE @]
  /\ UNCHANGED <<now, pieceVars, trackVars, faults, missed>>

\* Mutant: createdAt is reset after the first row.
InsertRowReset(m, r) ==
  LET left == doctor[m].rows \ {r} IN
  /\ At(m, "insert")
  /\ r \in doctor[m].rows
  /\ tracker' = [x \in Tracked \cup {r} |-> IF x \in Tracked THEN tracker[x] ELSE doctor[m].last]
  /\ doctor' = [doctor EXCEPT ![m].rows = left,
                              ![m].pc = IF left = {} THEN "batch" ELSE @,
                              ![m].last = 0]
  /\ missed' = missed \ {r}
  /\ UNCHANGED <<now, pieceVars, flagged, faults>>

\* Every row gets createdAt, not the time of its piece.
InsertRow(m, r) ==
  LET left == doctor[m].rows \ {r} IN
  /\ At(m, "insert")
  /\ r \in doctor[m].rows
  /\ tracker' = [x \in Tracked \cup {r} |-> IF x \in Tracked THEN tracker[x] ELSE doctor[m].last]
  /\ doctor' = [doctor EXCEPT ![m].rows = left,
                              ![m].pc = IF left = {} THEN "batch" ELSE @,
                              ![m].last = IF left = {} THEN 0 ELSE @]
  /\ missed' = missed \ {r}
  /\ UNCHANGED <<now, pieceVars, flagged, faults>>

\* The rows that were not checked for a check period, which may be any, are marked as
\* checked at once, up to the limit.
TakeBatch(m) ==
  /\ At(m, "batch")
  /\ \E B \in SUBSET {p \in Pieces : <<m, p>> \in Tracked} :
       /\ Cardinality(B) <= BatchSize
       /\ doctor' = [doctor EXCEPT ![m] = [NoRound EXCEPT !.pc = "check", !.batch = B]]
  /\ UNCHANGED <<now, pieceVars, trackVars, faults, missed>>

\* A statement, or a chain call, fails: the round is given up, with the rest of the
\* rows not inserted or the rest of the batch not checked.
RoundFails(m) ==
  /\ doctor[m].pc # "idle"
  /\ faults < MaxFaults
  /\ faults' = faults + 1
  /\ doctor' = [doctor EXCEPT ![m] = NoRound]
  /\ missed' = missed \cup (IF At(m, "insert") THEN doctor[m].rows \cap deals ELSE {})
  /\ UNCHANGED <<now, pieceVars, trackVars>>

-----------------------------------------------------------------------------
(* checkPiece.                                                             *)

NextPiece(m) ==
  /\ At(m, "check")
  /\ IF doctor[m].batch = {} THEN doctor' = [doctor EXCEPT ![m] = NoRound]
     ELSE \E p \in doctor[m].batch :
            doctor' = [doctor EXCEPT ![m].piece = p, ![m].batch = @ \ {p},
                                     ![m].pc = "metadata"]
  /\ UNCHANGED <<now, pieceVars, trackVars, faults, missed>>

\* Mutant: a piece that is not found is untracked and its flag left.
ReadMetadataUntrack(m) ==
  /\ At(m, "metadata")
  /\ Goto(m, IF created[doctor[m].piece] = 0 THEN "untrack" ELSE "deals")
  /\ UNCHANGED <<now, pieceVars, trackVars, faults, missed>>

\* GetPieceMetadata, its two statements.
ReadMetadata(m) ==
  /\ At(m, "metadata")
  /\ Goto(m, IF created[doctor[m].piece] = 0 THEN "unflagMissing" ELSE "deals")
  /\ UNCHANGED <<now, pieceVars, trackVars, faults, missed>>

\* With no deal at all GetPieceDeals looks for the metadata again; without a deal of
\* this miner the piece is ignored, and its flag stays as it is.
ReadDeals(m) ==
  LET p == doctor[m].piece IN
  /\ At(m, "deals")
  /\ IF <<m, p>> \in deals THEN Goto(m, "flag") \/ Goto(m, "unflag")
     ELSE IF created[p] = 0 /\ ~\E r \in deals : r[2] = p THEN Goto(m, "unflagMissing")
     ELSE Goto(m, "check")
  /\ UNCHANGED <<now, pieceVars, trackVars, faults, missed>>

FlagPiece(m) ==
  /\ At(m, "flag")
  /\ flagged' = flagged \cup {<<m, doctor[m].piece>>}
  /\ Goto(m, "check")
  /\ UNCHANGED <<now, pieceVars, tracker, faults, missed>>

UnflagPiece(m) ==
  /\ doctor[m].pc \in {"unflag", "unflagMissing"}
  /\ flagged' = flagged \ {<<m, doctor[m].piece>>}
  /\ Goto(m, IF At(m, "unflag") THEN "check" ELSE "untrack")
  /\ UNCHANGED <<now, pieceVars, tracker, faults, missed>>

\* The piece may have been added again since it was not found.
UntrackPiece(m) ==
  LET r == <<m, doctor[m].piece>> IN
  /\ At(m, "untrack")
  /\ tracker' = [x \in Tracked \ {r} |-> tracker[x]]
  /\ Goto(m, "check")
  /\ missed' = missed \cup ({r} \cap deals)
  /\ UNCHANGED <<now, pieceVars, flagged, faults>>

-----------------------------------------------------------------------------
DoctorStep(m) ==
  \/ ReadWatermark(m) \/ Scan(m) \/ TakeBatch(m)
  \/ \E p \in Pieces : ReadMiners(m, p)
  \/ \E r \in Pairs : InsertRow(m, r)
  \/ NextPiece(m) \/ ReadMetadata(m) \/ ReadDeals(m)
  \/ FlagPiece(m) \/ UnflagPiece(m) \/ UntrackPiece(m)

Next ==
  \/ Tick
  \/ \E m \in Miners \cup {None}, p \in Pieces : StartAdding(m, p)
  \/ \E a \in adding : createPieceMetadata(a) \/ InsertDeal(a)
  \/ \E m \in Miners, p \in Pieces : RemoveDealForPiece(m, p)
  \/ \E m \in Miners : DoctorStep(m) \/ RoundFails(m)

\* Doctor.Run begins a round every check interval, and every statement returns.
Spec == Init /\ [][Next]_vars /\ \A m \in Miners : WF_vars(DoctorStep(m))

-----------------------------------------------------------------------------
(* Properties.                                                             *)

\* A flagged piece stays tracked, so that a later check can unflag it: a piece that is
\* gone is unflagged first and untracked after (doctor.go 129-133), with an error or
\* the end of the process in between.
FlagsAreTracked ==
  \A m \in Miners : \A p \in FlaggedPiecesList(m) : <<m, p>> \in Tracked

\* The next scan will give the piece, or a round is about to insert the row.
StillComing(r) ==
  \/ created[r[2]] >= Watermark
  \/ \E m \in Miners : At(m, "insert") /\ r \in doctor[m].rows

\* A piece with a deal of the miner is tracked or will be copied by a round that runs or
\* by the next, unless its deal came after a doctor had begun to look at later pieces, a
\* round failed while it inserted the rows, or the piece was untracked after it had been
\* added again.  In particular nothing is missed between rounds of different miners, whose
\* watermark is one and the same (piecedoctor.go 63-131), nor because a doctor works with a
\* watermark that has been raised or lowered since.
MissesExplained ==
  \A r \in deals \ Tracked :
    created[r[2]] # 0 /\ ~StillComing(r) => r \in missed

\* piecedoctor.go 55-57: "Get any new pieces that have been added to the PieceMetadata
\* table (cassandra) and add them to the PieceTracker table (postgres)": a piece that
\* keeps its metadata and its deal is tracked in the end.
NewPiecesTracked ==
  \A m \in Miners, p \in Pieces :
    (<<m, p>> \in deals /\ created[p] # 0) ~>
      (<<m, p>> \in Tracked \/ <<m, p>> \notin deals \/ created[p] = 0)

=============================================================================
