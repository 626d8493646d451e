----------------------------- MODULE LdbDoctor -----------------------------
(***************************************************************************)
(* The piece doctor of a miner (lib/boost/piecedirectory/doctor.go) on the *)
(* LevelDB store (lib/boostd-data/ldb), with the sector state manager it   *)
(* takes the state of the sectors from.  The doctor checks page after page *)
(* of the pieces and flags the ones with a problem; where it stands and    *)
(* when it checked a piece is in memory.                                   *)
(*                                                                         *)
(* The pieces, the storage and the chain change at any time.  One action   *)
(* of the doctor is one call to a store or to the node.                    *)
(***************************************************************************)
EXTENDS SectorState, Integers, FiniteSetsExt

CONSTANTS
  NumPieces,
  Deals,       \* the deals of the miner
  PieceOf, SectorOf,
  DirectDeals, \* those that are direct deals
  Limit        \* PiecesToTrackerBatchSize

\* In the order of their keys.
Pieces == 1..NumPieces

ASSUME LdbDoctorAssumption ==
  /\ NumPieces \in Nat
  /\ PieceOf \in [Deals -> Pieces]
  /\ SectorOf \in [Deals -> Sectors]
  /\ DirectDeals \subseteq Deals
  /\ Limit \in Nat /\ Limit >= 2

VARIABLES
  pieces,   \* the pieces with metadata
  deals,    \* the deals in the metadata
  indexed,  \* the pieces with IndexedAt set
  flagged,  \* the pieces flagged for the miner
  market,   \* the market deals on chain
  claims,   \* the sectors with a claim on chain
  offset, checked, \* the variables of db.go
  doctor    \* the round that runs

storeVars == <<pieces, deals, indexed>>
chainVars == <<market, claims>>
cursorVars == <<offset, checked>>
vars == <<sectorVars, events, storeVars, flagged, chainVars, cursorVars, doctor>>

PCs == {"idle", "head", "next", "claims", "check", "metadata", "indexed", "flag", "unflag"}

\* latest, market, claims: what the round works with; unsealed: hasUnsealedCopy.
Round == [pc: PCs, latest: Update \cup {None}, market: SUBSET Deals, claims: SUBSET Sectors,
          batch: SUBSET Pieces, piece: Pieces \cup {0}, unsealed: BOOLEAN]

NoRound == [pc |-> "idle", latest |-> None, market |-> {}, claims |-> {}, batch |-> {},
            piece |-> 0, unsealed |-> FALSE]

\* Every variable has its type; there are no deals or indexes without metadata, and the
\* cursor is never past the last of the pieces there may be.
TypeOK ==
  /\ SectorTypeOK
  /\ pieces \subseteq Pieces
  /\ \A d \in deals : d \in Deals /\ PieceOf[d] \in pieces
  /\ indexed \subseteq pieces
  /\ flagged \subseteq Pieces
  /\ market \subseteq Deals
  /\ claims \subseteq Sectors
  /\ offset \in 0..Cardinality(Pieces)
  /\ checked \subseteq Pieces
  /\ doctor \in Round

\* The deals, indexes and files are as they should be, but the manager knows nothing yet.
Init ==
  /\ SectorInit
  /\ pieces = Pieces
  /\ deals = Deals
  /\ indexed = Pieces
  /\ flagged = {}
  /\ market = Deals \ DirectDeals
  /\ claims = {SectorOf[d] : d \in DirectDeals}
  /\ offset = 0
  /\ checked = {}
  /\ doctor = NoRound

-----------------------------------------------------------------------------
(* The reads of the pieces and flags.                                      *)

DealsOf(p) == {d \in deals : PieceOf[d] = p}

PiecesCount == Cardinality({p \in pieces : DealsOf(p) # {}})
ListPieces == pieces
FlaggedPiecesCount == Cardinality(flagged)

\* The pieces checked, of all miners and removed ones included, against the pieces of this
\* one: the code divides the first by the second, and takes 1 when there are none.
ScanProgress == IF PiecesCount = 0 THEN <<1, 1>> ELSE <<Cardinality(checked), PiecesCount>>

\* How many are listed: the variable offset of the doctor's cursor is skipped, and the
\* offset of the caller, o, is not looked at.
ListFlaggedPieces(o, limit) ==
  LET left == Max({0, FlaggedPiecesCount - offset}) IN
  IF limit > 0 THEN Min({limit, left}) ELSE left

-----------------------------------------------------------------------------
(* What changes around the doctor.                                         *)

AddDeal(d) ==
  /\ Event
  /\ deals' = deals \cup {d}
  /\ pieces' = pieces \cup {PieceOf[d]}
  /\ UNCHANGED <<sectorVars, indexed, flagged, chainVars, cursorVars, doctor>>

\* The piece goes with its last deal.
RemoveDeal(d) ==
  /\ d \in deals
  /\ Event
  /\ deals' = deals \ {d}
  /\ pieces' = IF DealsOf(PieceOf[d]) = {d} THEN pieces \ {PieceOf[d]} ELSE pieces
  /\ indexed' = indexed \cap pieces'
  /\ UNCHANGED <<sectorVars, flagged, chainVars, cursorVars, doctor>>

AddIndex(p) ==
  /\ Event
  /\ pieces' = pieces \cup {p}
  /\ indexed' = indexed \cup {p}
  /\ UNCHANGED <<sectorVars, deals, flagged, chainVars, cursorVars, doctor>>

RemoveIndexes(p) ==
  /\ Event
  /\ indexed' = indexed \ {p}
  /\ UNCHANGED <<sectorVars, pieces, deals, flagged, chainVars, cursorVars, doctor>>

StorageChanges(s) ==
  /\ Event
  /\ \E files \in {{}, {"cache"}, {"sealed", "cache"}, FileTypes} :
       storage' = [storage EXCEPT ![s] = files]
  /\ UNCHANGED <<active, managerVars, storeVars, flagged, chainVars, cursorVars, doctor>>

\* A sector, a deal or a claim leaves the chain, or is activated.
Toggled(S, x) == IF x \in S THEN S \ {x} ELSE S \cup {x}

ChainChanges ==
  /\ Event
  /\ \/ /\ \E s \in Sectors : active' = Toggled(active, s)
        /\ UNCHANGED chainVars
     \/ /\ \E d \in Deals \ DirectDeals : market' = Toggled(market, d)
        /\ UNCHANGED <<active, claims>>
     \/ /\ \E d \in DirectDeals : claims' = Toggled(claims, SectorOf[d])
        /\ UNCHANGED <<active, market>>
  /\ UNCHANGED <<storage, managerVars, storeVars, flagged, cursorVars, doctor>>

-----------------------------------------------------------------------------
(* A round of Run.                                                         *)

roundOnly == UNCHANGED <<sectorVars, events, storeVars, flagged, chainVars, cursorVars>>

Goto(pc) == doctor' = [doctor EXCEPT !.pc = pc]

\* Nothing is checked before the first update.
ReadLatest ==
  /\ doctor.pc = "idle"
  /\ latest # None
  /\ doctor' = [NoRound EXCEPT !.pc = "head", !.latest = latest]
  /\ roundOnly

\* StateMarketStorageDeal is asked later, but of this head.
ChainHead ==
  /\ doctor.pc = "head"
  /\ doctor' = [doctor EXCEPT !.pc = "next", !.market = market]
  /\ roundOnly

\* The page of the query: up to Limit pieces from the offset on.
Page == {p \in pieces : Cardinality({q \in pieces : q < p}) \in offset..(offset + Limit - 1)}

\* Mutant: the cursor is not reset at the end.
NextPiecesToCheckOn ==
  LET new == {p \in Page \ checked : DealsOf(p) # {}} IN
  /\ doctor.pc = "next"
  /\ checked' = checked \cup new
  /\ offset' = IF offset + Cardinality(Page) > Cardinality(Pieces) THEN 0
               ELSE offset + Cardinality(Page)
  /\ doctor' = [doctor EXCEPT !.pc = "claims", !.batch = new]
  /\ UNCHANGED <<sectorVars, events, storeVars, flagged, chainVars>>

\* Mutant: the next page begins one piece too late.
NextPiecesToCheckSkipping ==
  LET new == {p \in Page \ checked : DealsOf(p) # {}}
      i == Cardinality(Page)
  IN
  /\ doctor.pc = "next"
  /\ checked' = checked \cup new
  /\ offset' = IF i < Limit - 1 THEN 0 ELSE offset + i + 1
  /\ doctor' = [doctor EXCEPT !.pc = "claims", !.batch = new]
  /\ UNCHANGED <<sectorVars, events, storeVars, flagged, chainVars>>

\* Pieces of the page that were checked in the last period, or have no deal of the miner,
\* are passed over.  With less than Limit - 1 the end is taken to be reached.
NextPiecesToCheck ==
  LET new == {p \in Page \ checked : DealsOf(p) # {}}
      i == Cardinality(Page)
  IN
  /\ doctor.pc = "next"
  /\ checked' = checked \cup new
  /\ offset' = IF i < Limit - 1 THEN 0 ELSE offset + i
  /\ doctor' = [doctor EXCEPT !.pc = "claims", !.batch = new]
  /\ UNCHANGED <<sectorVars, events, storeVars, flagged, chainVars>>

\* The metadata of a piece of the page cannot be read, for instance because the piece has
\* been removed: those before it count as checked, though nobody checks them.
NextPiecesFails ==
  /\ doctor.pc = "next"
  /\ Event
  /\ \E p \in Page :
       checked' = checked \cup {q \in Page : q < p /\ DealsOf(q) # {}}
  /\ doctor' = NoRound
  /\ UNCHANGED <<sectorVars, storeVars, flagged, chainVars, offset>>

\* Time passes: the pieces checked by now may be checked again.
CheckPeriodEnds ==
  /\ checked # {}
  /\ checked' = {}
  /\ UNCHANGED <<sectorVars, events, storeVars, flagged, chainVars, offset, doctor>>

StateGetClaims ==
  /\ doctor.pc = "claims"
  /\ doctor' = [doctor EXCEPT !.pc = "check", !.claims = claims]
  /\ roundOnly

NextPiece ==
  /\ doctor.pc = "check"
  /\ IF doctor.batch = {} THEN doctor' = NoRound
     ELSE \E p \in doctor.batch :
            doctor' = [doctor EXCEPT !.pc = "metadata", !.piece = p, !.batch = @ \ {p}]
  /\ roundOnly

-----------------------------------------------------------------------------
(* checkPiece.                                                             *)

InActiveSector(D, A) == {d \in D : SectorOf[d] \in A}

\* A market deal is found by its id, a direct deal by any claim in its sector.
OnChain(d, M, C) == IF d \in DirectDeals THEN SectorOf[d] \in C ELSE d \in M

UnsealedCopy(D, states) == \E d \in D : states[SectorOf[d]] = "Unsealed"

\* A piece that is not found is unflagged; without a deal of the miner it is ignored.
\* An unsealed copy may be in a sector that is not active.
GetPieceMetadata ==
  LET D == DealsOf(doctor.piece)
      lu == doctor.latest
      found == {d \in InActiveSector(D, lu.active) : OnChain(d, doctor.market, doctor.claims)}
  IN
  /\ doctor.pc = "metadata"
  /\ IF doctor.piece \in pieces /\ D = {} THEN Goto("check")
     ELSE IF found = {} THEN Goto("unflag")
     ELSE doctor' = [doctor EXCEPT !.pc = "indexed",
                                   !.unsealed = UnsealedCopy(D, lu.states)]
  /\ roundOnly

\* IndexedAt takes a piece that is not found for one that is not indexed.
IsIndexed ==
  /\ doctor.pc = "indexed"
  /\ Goto(IF doctor.piece \in indexed /\ doctor.unsealed THEN "unflag" ELSE "flag")
  /\ roundOnly

FlagPiece ==
  /\ doctor.pc = "flag"
  /\ flagged' = flagged \cup {doctor.piece}
  /\ doctor' = [doctor EXCEPT !.pc = "check", !.piece = 0, !.unsealed = FALSE]
  /\ UNCHANGED <<sectorVars, events, storeVars, chainVars, cursorVars>>

\* UntrackPiece, which follows for a piece that is not found, does nothing here.
UnflagPiece ==
  /\ doctor.pc = "unflag"
  /\ flagged' = flagged \ {doctor.piece}
  /\ doctor' = [doctor EXCEPT !.pc = "check", !.piece = 0, !.unsealed = FALSE]
  /\ UNCHANGED <<sectorVars, events, storeVars, chainVars, cursorVars>>

\* A failing call to the chain ends the round; one to the store ends the check of the
\* piece; a market deal that cannot be looked up counts as not found.
RoundFails ==
  /\ doctor.pc \in {"head", "claims"}
  /\ Event
  /\ doctor' = NoRound
  /\ UNCHANGED <<sectorVars, storeVars, flagged, chainVars, cursorVars>>

CheckFails ==
  /\ doctor.pc \in {"metadata", "indexed", "flag", "unflag"}
  /\ Event
  /\ \/ doctor' = [doctor EXCEPT !.pc = "check", !.piece = 0, !.unsealed = FALSE]
     \/ doctor.pc = "metadata" /\ DealsOf(doctor.piece) \ DirectDeals # {} /\ Goto("unflag")
  /\ UNCHANGED <<sectorVars, storeVars, flagged, chainVars, cursorVars>>

\* The process ends and starts again with the tables that are left.
Restart ==
  /\ Event
  /\ refresh' = NoRefresh
  /\ sub' = NoSubscriber
  /\ latest' = None
  /\ offset' = 0
  /\ checked' = {}
  /\ doctor' = NoRound
  /\ UNCHANGED <<storage, active, sdb, storeVars, flagged, chainVars>>

-----------------------------------------------------------------------------
DoctorStep ==
  \/ ReadLatest \/ ChainHead \/ NextPiecesToCheck \/ StateGetClaims \/ NextPiece
  \/ GetPieceMetadata \/ IsIndexed \/ FlagPiece \/ UnflagPiece

otherVars == <<storeVars, flagged, chainVars, cursorVars, doctor>>

Next ==
  \/ (ManagerStep \/ SubscriberStep \/ RefreshFails) /\ UNCHANGED otherVars
  \/ DoctorStep \/ CheckPeriodEnds
  \/ NextPiecesFails \/ RoundFails \/ CheckFails \/ Restart
  \/ ChainChanges
  \/ \E d \in Deals : AddDeal(d) \/ RemoveDeal(d)
  \/ \E p \in Pieces : AddIndex(p) \/ RemoveIndexes(p)
  \/ \E s \in Sectors : StorageChanges(s)

\* Both loops run on timers, the subscriber receives whenever it is not busy, and time
\* passes.
Fairness ==
  /\ WF_vars(ManagerStep /\ UNCHANGED otherVars)
  /\ WF_vars(SubscriberStep /\ UNCHANGED otherVars)
  /\ WF_vars(DoctorStep)
  /\ WF_vars(CheckPeriodEnds)

Spec == Init /\ [][Next]_vars /\ Fairness

-----------------------------------------------------------------------------
(* Properties.                                                             *)

\* What the checks of a piece are for: it is in an active sector and on chain, but not
\* indexed or without an unsealed copy.
HasProblem(p) ==
  /\ \E d \in InActiveSector(DealsOf(p), active) : OnChain(d, market, claims)
  /\ p \notin indexed \/
       ~UnsealedCopy(DealsOf(p), [s \in Sectors |-> SealState(storage[s])])

\* When nothing changes any more, the flag of every piece that has a deal comes to say
\* whether the piece has a problem, and stays so: no publication that was skipped, round
\* that failed, page that was passed over or check with the state of an earlier time
\* leaves a wrong flag for ever.
FlagsSettle ==
  <>[](\A d \in deals : PieceOf[d] \in flagged <=> HasProblem(PieceOf[d]))

=============================================================================
