------------------------------ MODULE YbStore ------------------------------
(***************************************************************************)
(* The Yugabyte store (lib/boostd-data/yugabyte/service.go).  It keeps the *)
(* same tables as the LevelDB store, but there is no mutex: an operation   *)
(* is a sequence of CQL statements, each atomic, that interleave with the  *)
(* statements of other operations.  One action is one statement, or one    *)
(* step on a channel.                                                      *)
(*                                                                         *)
(* A row of PieceDeal is identified by its UUID (RemoveDealForPiece names  *)
(* nothing else) and a UUID belongs to one piece.  PayloadToPieces is      *)
(* keyed by the last 24 bytes of the multihash; encode.go takes them to be *)
(* as good as the whole, and so does the model.  Offsets, sizes and        *)
(* CompleteIndex are left out: they are stored and read as given.          *)
(***************************************************************************)
EXTENDS Naturals, FiniteSets

CONSTANTS
  Callers,   \* the goroutines that serve calls
  Pieces, Hashes, Deals,
  RecordSets, \* the records a caller may parse from a CAR
  DealPiece, \* the piece of each deal
  None,
  Threads,   \* settings.PayloadPiecesParallelism
  MaxCalls,  \* bound: calls made
  MaxFaults  \* bound: failing statements and restarts

\* created: CreatedAt is set; indexed: IndexedAt is.
Row == [created: BOOLEAN, indexed: BOOLEAN]

ASSUME YbStoreAssumption ==
  /\ DealPiece \in [Deals -> Pieces]
  /\ RecordSets \subseteq SUBSET Hashes
  /\ None \notin Pieces \cup Deals
  /\ None \notin Row
  /\ Threads \in Nat \ {0}
  /\ MaxCalls \in Nat
  /\ MaxFaults \in Nat

VARIABLES
  metadata,  \* PieceMetadata: a row or None for each piece
  dealRows,  \* PieceDeal
  hashRows,  \* PayloadToPieces, as pairs of a multihash and a piece
  records,   \* PieceBlockOffsetSize: the multihashes with a row for each piece
  call,      \* what each caller is at
  stream,    \* the progress channel of each caller's AddIndex
  calls, faults,
  acked,     \* multihashes of acknowledged indexes not asked to be removed since
  excuses    \* what happened to each piece that a property may have to allow for

tables == <<metadata, dealRows, hashRows, records>>
history == <<acked, excuses>>
bounds == <<calls, faults>>
vars == <<tables, call, stream, bounds, history>>

Ops == {"none", "addDeal", "addIndex", "removeDeal", "removeIndexes", "removeMetadata"}
Adds == {"addDeal", "addIndex"}
Removes == {"removeDeal", "removeIndexes", "removeMetadata"}
PCs == {"idle", "createMetadata", "insertDeal", "hashes", "records", "setIndexedAt",
        "complete", "closed", "deleteDeal", "remaining", "known", "scan", "scanKnown",
        "scanStuck", "drain", "deleteMetadata"}

\* todo: the multihashes still to insert, or the rows the scan is sure to give;
\* seen: those it gave; hand: those of them whose record is still to be deleted;
\* threads: the threads of RemoveIndexes that run; failed: a statement failed.
Call == [op: Ops, pc: PCs, piece: Pieces \cup {None}, deal: Deals \cup {None},
         recs: SUBSET Hashes, todo: SUBSET Hashes, seen: SUBSET Hashes,
         hand: SUBSET Hashes, scanning: BOOLEAN, threads: 0..Threads, failed: BOOLEAN]

\* buffered: elements of the channel, whose capacity is 2; pending: the last
\* update was held back; error: the last element is an error.
Stream == [buffered: 0..2, pending: BOOLEAN, error: BOOLEAN]

\* overlap: an addition to the piece ran at the same time as a removal from it;
\* cut: an AddIndex failed; scan: the scan of a removal failed; dropped: an error
\* could not be sent; byHand: RemovePieceMetadata was called while there were deals.
Excuses == {"overlap", "cut", "scan", "dropped", "byHand"}

\* Every variable has its type; threads of a removal hold at most one row each.
TypeOK ==
  /\ metadata \in [Pieces -> Row \cup {None}]
  /\ dealRows \subseteq Deals
  /\ hashRows \subseteq Hashes \X Pieces
  /\ records \in [Pieces -> SUBSET Hashes]
  /\ call \in [Callers -> Call]
  /\ stream \in [Callers -> Stream]
  /\ calls \in 0..MaxCalls
  /\ faults \in 0..MaxFaults
  /\ acked \in [Pieces -> SUBSET Hashes]
  /\ excuses \in [Pieces -> SUBSET Excuses]
  /\ \A c \in Callers : Cardinality(call[c].hand) <= call[c].threads

NoCall == [op |-> "none", pc |-> "idle", piece |-> None, deal |-> None, recs |-> {},
           todo |-> {}, seen |-> {}, hand |-> {}, scanning |-> FALSE, threads |-> 0,
           failed |-> FALSE]

NoStream == [buffered |-> 0, pending |-> FALSE, error |-> FALSE]

Init ==
  /\ metadata = [p \in Pieces |-> None]
  /\ dealRows = {}
  /\ hashRows = {}
  /\ records = [p \in Pieces |-> {}]
  /\ call = [c \in Callers |-> NoCall]
  /\ stream = [c \in Callers |-> NoStream]
  /\ calls = 0
  /\ faults = 0
  /\ acked = [p \in Pieces |-> {}]
  /\ excuses = [p \in Pieces |-> {}]

-----------------------------------------------------------------------------
(* The reads.                                                              *)

getPieceMetadata(p) == metadata[p]
GetPieceDeals(p) == {d \in dealRows : DealPiece[d] = p}
GetIndex(p) == records[p]
GetOffsetSize(p) == [h \in Hashes |-> h \in records[p]]
PiecesContainingMultihash(h) == {p \in Pieces : <<h, p>> \in hashRows}
IndexedAt(p) == getPieceMetadata(p) # None /\ getPieceMetadata(p).indexed
IsIndexed(p) == IndexedAt(p)
ListPieces == {p \in Pieces : metadata[p] # None}

-----------------------------------------------------------------------------
(* Calls.                                                                  *)

Running(p, O) == \E c \in Callers : call[c].piece = p /\ call[c].op \in O

Excuse(p, e) == excuses' = [excuses EXCEPT ![p] = @ \cup {e}]

Goto(c, pc) == call' = [call EXCEPT ![c].pc = pc]

Return(c) == call' = [call EXCEPT ![c] = NoCall]

Begin(c, op, p, d, R, pc) ==
  /\ call[c].pc = "idle"
  /\ calls < MaxCalls
  /\ calls' = calls + 1
  /\ call' = [call EXCEPT ![c] = [NoCall EXCEPT !.op = op, !.pc = pc, !.piece = p,
                                  !.deal = d, !.recs = R, !.todo = R]]
  /\ IF Running(p, IF op \in Adds THEN Removes ELSE Adds)
     THEN Excuse(p, "overlap") ELSE UNCHANGED excuses
  /\ UNCHANGED <<tables, faults>>

\* A statement fails: its error, or the end of the context, ends the operation.
Fault == faults < MaxFaults /\ faults' = faults + 1

-----------------------------------------------------------------------------
(* AddDealForPiece: the metadata row, then the deal row.                   *)

AddDealForPiece(c) ==
  /\ \E d \in Deals : Begin(c, "addDeal", DealPiece[d], d, {}, "createMetadata")
  /\ UNCHANGED <<stream, acked>>

\* INSERT ... IF NOT EXISTS, shared with AddIndex.
createPieceMetadata(c) ==
  LET p == call[c].piece IN
  /\ call[c].pc = "createMetadata"
  /\ metadata' = [metadata EXCEPT ![p] =
       IF @ = None THEN [created |-> TRUE, indexed |-> FALSE] ELSE @]
  /\ Goto(c, IF call[c].op = "addDeal" THEN "insertDeal" ELSE "setIndexedAt")
  /\ UNCHANGED <<dealRows, hashRows, records, bounds, history>>

InsertDeal(c) ==
  /\ call[c].pc = "insertDeal"
  /\ dealRows' = dealRows \cup {call[c].deal}
  /\ Return(c)
  /\ UNCHANGED <<metadata, hashRows, records, stream, bounds, history>>

-----------------------------------------------------------------------------
(* AddIndex.                                                               *)

\* Without records the only message is on its way and nothing is stored.
AddIndex(c) ==
  /\ \E p \in Pieces, R \in RecordSets :
       Begin(c, "addIndex", p, None, R, IF R = {} THEN "closed" ELSE "hashes")
  /\ stream' = [stream EXCEPT ![c] = [NoStream EXCEPT !.buffered = 1]]
  /\ UNCHANGED acked

\* An update is sent if the last one is five seconds old and there is room;
\* otherwise it is held back, which matters only for the last one.
updateProgress(c, last) ==
  \/ /\ stream[c].buffered < 2
     /\ stream' = [stream EXCEPT ![c].buffered = @ + 1]
  \/ stream' = [stream EXCEPT ![c].pending = last]

\* The batches are inserted by concurrent threads, in any order.
addMultihashesToPieces(c, h) ==
  LET left == call[c].todo \ {h} IN
  /\ call[c].pc = "hashes"
  /\ h \in call[c].todo
  /\ hashRows' = hashRows \cup {<<h, call[c].piece>>}
  /\ call' = [call EXCEPT ![c].todo = IF left = {} THEN call[c].recs ELSE left,
                          ![c].pc = IF left = {} THEN "records" ELSE @]
  /\ updateProgress(c, FALSE)
  /\ UNCHANGED <<metadata, dealRows, records, bounds, history>>

addPieceInfos(c, h) ==
  LET left == call[c].todo \ {h} IN
  /\ call[c].pc = "records"
  /\ h \in call[c].todo
  /\ records' = [records EXCEPT ![call[c].piece] = @ \cup {h}]
  /\ call' = [call EXCEPT ![c].todo = left,
                          ![c].pc = IF left = {} THEN "createMetadata" ELSE @]
  /\ updateProgress(c, FALSE)
  /\ UNCHANGED <<metadata, dealRows, hashRows, bounds, history>>

CreateMetadata(c) ==
  /\ createPieceMetadata(c)
  /\ IF call[c].op = "addIndex" THEN updateProgress(c, FALSE) ELSE UNCHANGED stream

\* A CQL UPDATE makes the row if it is not there.
SetIndexedAt(c) ==
  LET p == call[c].piece IN
  /\ call[c].pc = "setIndexedAt"
  /\ metadata' = [metadata EXCEPT ![p] =
       [created |-> @ # None /\ @.created, indexed |-> TRUE]]
  /\ Goto(c, "complete")
  /\ updateProgress(c, TRUE)
  /\ UNCHANGED <<dealRows, hashRows, records, bounds, history>>

AddIndexFails(c) ==
  /\ call[c].pc \in {"hashes", "records", "createMetadata", "setIndexedAt"}
  /\ call[c].op = "addIndex"
  /\ Fault
  /\ call' = [call EXCEPT ![c].pc = "complete", ![c].failed = TRUE]
  /\ Excuse(call[c].piece, "cut")
  /\ UNCHANGED <<tables, stream, calls, acked>>

\* The error or the update held back is sent last, if there is one and room for
\* it within five seconds; then the channel is closed.
CompleteProgress(c) ==
  LET last == call[c].failed \/ stream[c].pending IN
  /\ call[c].pc = "complete"
  /\ last => stream[c].buffered < 2
  /\ stream' = [stream EXCEPT ![c] =
       [buffered |-> IF last THEN @.buffered + 1 ELSE @.buffered,
        pending |-> FALSE, error |-> call[c].failed]]
  /\ Goto(c, "closed")
  /\ UNCHANGED <<tables, bounds, history>>

\* Mutant: an error is waited with for ever.
CompleteWaits(c) ==
  /\ call[c].pc = "complete"
  /\ stream[c].buffered = 2
  /\ stream[c].pending /\ ~call[c].failed
  /\ Goto(c, "closed")
  /\ UNCHANGED <<tables, stream, bounds, history>>

CompleteTimesOut(c) ==
  /\ call[c].pc = "complete"
  /\ stream[c].buffered = 2
  /\ call[c].failed \/ stream[c].pending
  /\ Goto(c, "closed")
  /\ IF call[c].failed THEN Excuse(call[c].piece, "dropped") ELSE UNCHANGED excuses
  /\ UNCHANGED <<tables, stream, bounds, acked>>

\* The client stops at an error and takes the end of the channel for success.
ClientReceive(c) ==
  /\ stream[c].buffered > 0
  /\ IF stream[c].error /\ stream[c].buffered = 1
     THEN Return(c) /\ stream' = [stream EXCEPT ![c] = NoStream]
     ELSE UNCHANGED call /\ stream' = [stream EXCEPT ![c].buffered = @ - 1]
  /\ UNCHANGED <<tables, bounds, history>>

ClientDone(c) ==
  /\ call[c].pc = "closed"
  /\ stream[c].buffered = 0
  /\ acked' = [acked EXCEPT ![call[c].piece] = @ \cup call[c].recs]
  /\ Return(c)
  /\ stream' = [stream EXCEPT ![c] = NoStream]
  /\ UNCHANGED <<tables, bounds, excuses>>

-----------------------------------------------------------------------------
(* The removals.                                                           *)

RemoveDealForPiece(c) ==
  /\ \E d \in Deals : Begin(c, "removeDeal", DealPiece[d], d, {}, "deleteDeal")
  /\ UNCHANGED <<stream, acked>>

DeleteDeal(c) ==
  LET p == call[c].piece
      left == dealRows \ {call[c].deal}
  IN
  /\ call[c].pc = "deleteDeal"
  /\ dealRows' = left
  /\ acked' = IF \E d \in left : DealPiece[d] = p THEN acked
              ELSE [acked EXCEPT ![p] = {}]
  /\ Goto(c, "remaining")
  /\ UNCHANGED <<metadata, hashRows, records, stream, bounds, excuses>>

\* Mutant: the last deal is not told from the others.
RemainingIgnored(c) ==
  /\ call[c].pc = "remaining"
  /\ Goto(c, "known")
  /\ UNCHANGED <<tables, stream, bounds, history>>

\* GetPieceDeals: when there are none, a second statement looks for the piece.
Remaining(c) ==
  /\ call[c].pc = "remaining"
  /\ IF GetPieceDeals(call[c].piece) # {} THEN Return(c) ELSE Goto(c, "known")
  /\ UNCHANGED <<tables, stream, bounds, history>>

Known(c) ==
  /\ call[c].pc = "known"
  /\ IF getPieceMetadata(call[c].piece) = None THEN Return(c) ELSE Goto(c, "scan")
  /\ UNCHANGED <<tables, stream, bounds, history>>

RemoveIndexes(c) ==
  /\ \E p \in Pieces :
       /\ Begin(c, "removeIndexes", p, None, {}, "scan")
       /\ acked' = [acked EXCEPT ![p] = {}]
  /\ UNCHANGED stream

\* GetIndex: it waits until a record has been scanned or the scan has ended.
Scan(c) ==
  LET R == GetIndex(call[c].piece) IN
  /\ call[c].pc = "scan"
  /\ IF R = {} THEN Goto(c, "scanKnown")
     ELSE call' = [call EXCEPT ![c].pc = "drain", ![c].todo = R, ![c].scanning = TRUE,
                               ![c].threads = Threads]
  /\ UNCHANGED <<tables, stream, bounds, history>>

AfterRemoval(c) ==
  IF call[c].op = "removeDeal"
  THEN call' = [call EXCEPT ![c] = [NoCall EXCEPT !.op = "removeDeal", !.piece = call[c].piece,
                                                  !.pc = "deleteMetadata"]]
  ELSE Return(c)

ScanKnown(c) ==
  /\ call[c].pc = "scanKnown"
  /\ IF getPieceMetadata(call[c].piece) = None THEN Return(c) ELSE AfterRemoval(c)
  /\ UNCHANGED <<tables, stream, bounds, history>>

\* The query fails before its first record: the goroutine that scans blocks on
\* sending the error, and GetIndex waits for that goroutine until its context ends.
ScanStuck(c) ==
  /\ call[c].pc = "scan"
  /\ Fault
  /\ Goto(c, "scanStuck")
  /\ UNCHANGED <<tables, stream, calls, history>>

ContextEnds(c) ==
  /\ call[c].pc = "scanStuck"
  /\ Return(c)
  /\ UNCHANGED <<tables, stream, bounds, history>>

\* Mutant: the record is deleted before the multihash row, which stays if the thread
\* fails in between.
DeleteRecordFirst(c, h) ==
  LET p == call[c].piece IN
  /\ call[c].pc = "drain"
  /\ call[c].scanning
  /\ Cardinality(call[c].hand) < call[c].threads
  /\ h \in (call[c].todo \cup records[p]) \ call[c].seen
  /\ records' = [records EXCEPT ![p] = @ \ {h}]
  /\ \/ hashRows' = hashRows
     \/ hashRows' = hashRows \ {<<h, p>>}
  /\ call' = [call EXCEPT ![c].seen = @ \cup {h}, ![c].hand = @ \cup {h}]
  /\ UNCHANGED <<metadata, dealRows, stream, bounds, history>>

\* A free thread takes a row and deletes its multihash row first.  The scan reads
\* pages, so it may give a row that was inserted after it began.
DeleteHash(c, h) ==
  LET p == call[c].piece IN
  /\ call[c].pc = "drain"
  /\ call[c].scanning
  /\ Cardinality(call[c].hand) < call[c].threads
  /\ h \in (call[c].todo \cup records[p]) \ call[c].seen
  /\ hashRows' = hashRows \ {<<h, p>>}
  /\ call' = [call EXCEPT ![c].seen = @ \cup {h}, ![c].hand = @ \cup {h}]
  /\ UNCHANGED <<metadata, dealRows, records, stream, bounds, history>>

DeleteRecord(c, h) ==
  /\ h \in call[c].hand
  /\ records' = [records EXCEPT ![call[c].piece] = @ \ {h}]
  /\ call' = [call EXCEPT ![c].hand = @ \ {h}]
  /\ UNCHANGED <<metadata, dealRows, hashRows, stream, bounds, history>>

\* Mutant: the thread's row stays in its hand.
ThreadFailsHolding(c, h) ==
  /\ call[c].pc = "drain"
  /\ h \in call[c].hand \/ (h \in call[c].todo \ call[c].seen /\ call[c].scanning
                           /\ Cardinality(call[c].hand) < call[c].threads)
  /\ Fault
  /\ call' = [call EXCEPT ![c].seen = @ \cup {h}, ![c].threads = @ - 1,
                          ![c].failed = TRUE]
  /\ UNCHANGED <<tables, stream, calls, history>>

\* An error ends the thread; the others go on.  With none left the error is returned
\* and nobody receives from the scan any more.
ThreadFails(c, h) ==
  /\ call[c].pc = "drain"
  /\ h \in call[c].hand \/ (h \in call[c].todo \ call[c].seen /\ call[c].scanning
                           /\ Cardinality(call[c].hand) < call[c].threads)
  /\ Fault
  /\ call' = [call EXCEPT ![c].seen = @ \cup {h}, ![c].hand = @ \ {h},
                          ![c].threads = @ - 1, ![c].failed = TRUE]
  /\ UNCHANGED <<tables, stream, calls, history>>

\* A later page fails: the error comes as a record, whose error RemoveIndexes does not
\* look at, and the channel is closed.  The thread deletes the rows of an empty
\* multihash, which the database may refuse.
ScanFails(c) ==
  /\ call[c].pc = "drain"
  /\ call[c].scanning
  /\ call[c].seen # {}
  /\ Cardinality(call[c].hand) < call[c].threads
  /\ Fault
  /\ \/ call' = [call EXCEPT ![c].scanning = FALSE]
     \/ call' = [call EXCEPT ![c].scanning = FALSE, ![c].threads = @ - 1, ![c].failed = TRUE]
  /\ Excuse(call[c].piece, "scan")
  /\ UNCHANGED <<tables, stream, calls, acked>>

ScanEnds(c) ==
  /\ call[c].pc = "drain"
  /\ call[c].scanning
  /\ call[c].threads > 0
  /\ call[c].todo \cap records[call[c].piece] \subseteq call[c].seen
  /\ call' = [call EXCEPT ![c].scanning = FALSE]
  /\ UNCHANGED <<tables, stream, bounds, history>>

\* Mutant: the error of a thread is not returned.
DrainedAnyway(c) ==
  /\ call[c].pc = "drain"
  /\ call[c].hand = {}
  /\ ~call[c].scanning \/ call[c].threads = 0
  /\ AfterRemoval(c)
  /\ UNCHANGED <<tables, stream, bounds, history>>

\* The errgroup waits for every thread.
Drained(c) ==
  /\ call[c].pc = "drain"
  /\ call[c].hand = {}
  /\ ~call[c].scanning \/ call[c].threads = 0
  /\ IF call[c].failed THEN Return(c) ELSE AfterRemoval(c)
  /\ UNCHANGED <<tables, stream, bounds, history>>

RemovePieceMetadata(c) ==
  /\ \E p \in Pieces :
       /\ Begin(c, "removeMetadata", p, None, {}, "deleteMetadata")
       /\ acked' = [acked EXCEPT ![p] = {}]
  /\ UNCHANGED stream

DeleteMetadata(c) ==
  LET p == call[c].piece IN
  /\ call[c].pc = "deleteMetadata"
  /\ metadata' = [metadata EXCEPT ![p] = None]
  /\ Return(c)
  /\ IF call[c].op = "removeMetadata" THEN Excuse(p, "byHand") ELSE UNCHANGED excuses
  /\ UNCHANGED <<dealRows, hashRows, records, stream, bounds, acked>>

\* Any other statement fails: the caller gets the error.
CallFails(c) ==
  /\ call[c].pc \in {"createMetadata", "insertDeal", "deleteDeal", "remaining", "known",
                     "scanKnown", "deleteMetadata"}
  /\ call[c].op # "addIndex"
  /\ Fault
  /\ Return(c)
  /\ UNCHANGED <<tables, stream, calls, history>>

\* The service stops, with all calls, and starts again; the tables are what is left.
Start ==
  /\ Fault
  /\ call' = [c \in Callers |-> NoCall]
  /\ stream' = [c \in Callers |-> NoStream]
  /\ excuses' = [p \in Pieces |-> IF Running(p, {"addIndex"}) THEN excuses[p] \cup {"cut"}
                                 ELSE excuses[p]]
  /\ UNCHANGED <<tables, calls, acked>>

-----------------------------------------------------------------------------
Step(c) ==
  \/ CreateMetadata(c) \/ InsertDeal(c)
  \/ \E h \in Hashes : addMultihashesToPieces(c, h) \/ addPieceInfos(c, h)
  \/ SetIndexedAt(c) \/ CompleteProgress(c) \/ CompleteTimesOut(c)
  \/ DeleteDeal(c) \/ Remaining(c) \/ Known(c)
  \/ Scan(c) \/ ScanKnown(c)
  \/ \E h \in Hashes : DeleteHash(c, h) \/ DeleteRecord(c, h)
  \/ ScanEnds(c) \/ Drained(c) \/ DeleteMetadata(c)

Faulty(c) ==
  \/ AddIndexFails(c) \/ CallFails(c) \/ ScanStuck(c) \/ ScanFails(c)
  \/ \E h \in Hashes : ThreadFails(c, h)

Next ==
  \/ Start
  \/ \E c \in Callers :
       \/ AddDealForPiece(c) \/ AddIndex(c) \/ RemoveDealForPiece(c)
       \/ RemoveIndexes(c) \/ RemovePieceMetadata(c)
       \/ Step(c) \/ Faulty(c) \/ ContextEnds(c) \/ ClientReceive(c) \/ ClientDone(c)

Spec == Init /\ [][Next]_vars /\ \A c \in Callers : WF_vars(Step(c))

-----------------------------------------------------------------------------
(* Properties.                                                             *)

Excused(p, E) == excuses[p] \cap E # {}

\* The metadata goes last (service.go 831-843) and comes before the deal
\* (158-167): as long as additions to a piece do not overlap removals from it,
\* nobody removes metadata by hand and no scan is cut, a piece that ListPieces
\* does not give has no deals and, but for an AddIndex that is not through, no
\* records.  Otherwise RemoveDealForPiece could not be tried again: it asks for the
\* metadata first.
MetadataOutlives ==
  \A p \in Pieces \ ListPieces :
    ~Excused(p, {"overlap", "byHand", "scan"}) =>
      /\ GetPieceDeals(p) = {}
      /\ GetIndex(p) # {} => Excused(p, {"cut"}) \/ Running(p, {"addIndex"})

\* RemoveIndexes finds the multihash rows of a piece through its records, so a
\* multihash row without a record is never removed.  Deleting the multihash row first
\* (service.go 913-922) keeps that from happening, whichever statement fails; only an
\* AddIndex cut short, or one that ran during a removal, leaves such rows.
HashesReachable ==
  \A p \in Pieces :
    ~Excused(p, {"overlap", "cut"}) /\ ~Running(p, {"addIndex"}) =>
      \A h \in Hashes : p \in PiecesContainingMultihash(h) => GetOffsetSize(p)[h]

\* What AddIndex acknowledged to the client is indexed, readable and found by
\* multihash until the last deal of the piece is removed or its index or metadata is,
\* whatever fails in between and whatever other deals come and go.
AckedIndexKept ==
  \A p \in Pieces :
    ~Excused(p, {"overlap", "dropped"}) =>
      \A h \in acked[p] :
        GetOffsetSize(p)[h] /\ p \in PiecesContainingMultihash(h) /\ IsIndexed(p)

\* The store is done with every call in the end, whatever fails and even if the client
\* stops reading the progress of AddIndex (service.go 474-495).  The exception is a scan
\* that fails before its first record: that call waits for its context to end.
CallsServed ==
  \A c \in Callers :
    call[c].pc # "idle" ~> call[c].pc \in {"idle", "closed", "scanStuck"}

=============================================================================
