------------------------------ MODULE LdbStore ------------------------------
(***************************************************************************)
(* The LevelDB local index directory: lib/boostd-data/ldb.                 *)
(*                                                                         *)
(* One mutex serialises every operation that writes.  An operation that    *)
(* writes the database more than once is one action per write, because a   *)
(* returned error or a crash can leave only a prefix of the writes behind, *)
(* and because GetPieceMetadata, IsCompleteIndex and ListPieces read       *)
(* without taking the mutex.  `op' is the operation that holds the mutex.  *)
(*                                                                         *)
(* AddIndex answers on a channel of capacity 1 and sends while it holds    *)
(* the mutex, without a context or a timeout, so the receiving loop of     *)
(* client.AddIndex is part of the model, and that it may go away.          *)
(*                                                                         *)
(* A deal may come before or after the index of its piece.  `leaked' is a  *)
(* history variable: no action reads it.                                   *)
(*                                                                         *)
(* Abstractions: a record's offset is the piece whose CAR it points into,  *)
(* and its size only says whether it is known; IndexedAt is a BOOLEAN; the *)
(* order of a metadata entry's deals is dropped (the code never adds an    *)
(* equal deal twice).                                                      *)
(***************************************************************************)
EXTENDS Naturals, FiniteSets

CONSTANTS
  Pieces,      \* piece CIDs
  Hashes,      \* multihashes of the blocks in the pieces
  Deals,       \* model.DealInfo values
  Uuids,       \* deal UUIDs
  UuidOf,      \* the DealUuid field of each deal
  MaxCursor,   \* bound: no cursor is allocated from here on
  MaxFaults,   \* bound on the errors, crashes and lost clients of a behaviour
  None         \* no metadata, no operation

FirstCursor == 100

Metadata ==
  [deals: SUBSET Deals, indexedAt: BOOLEAN, completeIndex: BOOLEAN, cursor: Nat]

Record == [cursor: Nat, mh: Hashes, of: Pieces, sized: BOOLEAN]

SendPCs == {"send45", "send90", "send95", "send100", "sendErr"}
PCs == {"hashes", "cursor", "records", "metadata", "sync",
        "batch", "unindex", "delete"} \cup SendPCs

\* next: where a removal goes after its batch; todo: records not yet put.
Operation ==
  [pc: PCs, piece: Pieces, next: {"", "unindex", "delete"},
   recs: SUBSET Hashes, todo: SUBSET Hashes, complete: BOOLEAN, md: Metadata]

ASSUME ConstantsAssumption ==
  /\ UuidOf \in [Deals -> Uuids]
  /\ MaxCursor \in Nat
  /\ MaxFaults \in Nat
  /\ None \notin Metadata
  /\ None \notin Operation

VARIABLES
  nextCursor,   \* next free cursor
  metadata,     \* piece CID -> LeveldbMetadata
  hashPieces,   \* multihash -> piece CIDs
  records,      \* (cursor, multihash) -> offset and size
  op,           \* the operation holding Store.Mutex, None when it is free
  progress,     \* contents of the AddIndex progress channel
  client,       \* the client.AddIndex that receives from it
  leaked,       \* history: the entries of hashPieces left without a record
  faults        \* errors, crashes and lost clients so far (bounds the model)

vars == <<nextCursor, metadata, hashPieces, records, op, progress, client, leaked, faults>>
db == <<nextCursor, metadata, hashPieces, records>>
chan == <<progress, client>>

TypeOK ==
  /\ nextCursor \in Nat
  /\ metadata \in [Pieces -> Metadata \cup {None}]
  /\ hashPieces \in [Hashes -> SUBSET Pieces]
  /\ records \in SUBSET Record
  /\ op \in Operation \cup {None}
  /\ progress \in {"empty", "progress", "error"}
  /\ client \in {"receiving", "returned", "gone"}
  /\ leaked \in SUBSET (Hashes \X Pieces)
  /\ faults \in Nat

newLeveldbMetadata ==
  [deals |-> {}, indexedAt |-> FALSE, completeIndex |-> FALSE, cursor |-> 0]

Known(p) == metadata[p] # None

\* GetIndex and GetOffsetSize: everything stored under the piece's cursor.
GetIndex(p) ==
  IF Known(p) THEN {r \in records : r.cursor = metadata[p].cursor} ELSE {}

Readable(p, h) == \E r \in GetIndex(p) : r.mh = h

Init ==
  /\ nextCursor = FirstCursor
  /\ metadata = [p \in Pieces |-> None]
  /\ hashPieces = [h \in Hashes |-> {}]
  /\ records = {}
  /\ op = None
  /\ progress = "empty"
  /\ client = "returned"
  /\ leaked = {}
  /\ faults = 0

-----------------------------------------------------------------------------
(* Operations that write once. *)

\* Mutant: AddDealForPiece that forgets to take the mutex.
AddDealUnlocked(p, d) ==
  /\ LET md == IF Known(p) THEN metadata[p] ELSE newLeveldbMetadata
     IN  metadata' = [metadata EXCEPT ![p] = [md EXCEPT !.deals = @ \cup {d}]]
  /\ UNCHANGED <<nextCursor, hashPieces, records, op, chan, leaked, faults>>

AddDealForPiece(p, d) ==
  /\ op = None
  /\ LET md == IF Known(p) THEN metadata[p] ELSE newLeveldbMetadata
     IN  metadata' = [metadata EXCEPT ![p] = [md EXCEPT !.deals = @ \cup {d}]]
  /\ UNCHANGED <<nextCursor, hashPieces, records, op, chan, leaked, faults>>

\* What RemoveDealForPiece leaves of a deal list: one matching deal goes.
Remaining(deals, u) ==
  IF \E d \in deals : UuidOf[d] = u
  THEN {deals \ {d} : d \in {e \in deals : UuidOf[e] = u}}
  ELSE {deals}

NewOp(p, pc, next) ==
  [pc |-> pc, piece |-> p, next |-> next, recs |-> {}, todo |-> {},
   complete |-> FALSE, md |-> metadata[p]]

\* The removal of the last deal is a RemovePieceMetadata under the same lock.
RemoveDealForPiece(p, u) ==
  /\ op = None
  /\ Known(p)
  /\ \E rest \in Remaining(metadata[p].deals, u) :
       IF rest = {}
       THEN /\ op' = NewOp(p, "batch", "delete")
            /\ UNCHANGED metadata
       ELSE /\ metadata' = [metadata EXCEPT ![p].deals = rest]
            /\ UNCHANGED op
  /\ UNCHANGED <<nextCursor, hashPieces, records, chan, leaked, faults>>

\* Removing a deal of a piece without metadata succeeds and does nothing.
RemoveDealOfUnknown(p) ==
  /\ op = None
  /\ ~Known(p)
  /\ UNCHANGED vars

-----------------------------------------------------------------------------
(* AddIndex, one action per database write or channel send. *)

BeginAddIndex(p, recs, complete) ==
  /\ op = None
  /\ Known(p) \/ nextCursor < MaxCursor
  /\ op' = [pc |-> "hashes", piece |-> p, next |-> "", recs |-> recs,
            todo |-> recs, complete |-> complete, md |-> newLeveldbMetadata]
  /\ progress' = "empty"
  /\ client' = "receiving"
  /\ UNCHANGED <<db, leaked, faults>>

SetMultihashesToPieceCid ==
  /\ op # None /\ op.pc = "hashes"
  /\ hashPieces' = [h \in Hashes |->
       IF h \in op.recs THEN hashPieces[h] \cup {op.piece} ELSE hashPieces[h]]
  /\ op' = [op EXCEPT !.pc = "send45"]
  /\ UNCHANGED <<nextCursor, metadata, records, chan, leaked, faults>>

\* A piece with metadata keeps its cursor; otherwise one is allocated.
UseCursor ==
  /\ op # None /\ op.pc = "cursor"
  /\ Known(op.piece)
  /\ op' = [op EXCEPT !.pc = "records", !.md = metadata[op.piece]]
  /\ UNCHANGED <<db, chan, leaked, faults>>

\* Mutant: the next cursor is not written back.
AllocateCursorNotSaved ==
  /\ op # None /\ op.pc = "cursor"
  /\ ~Known(op.piece)
  /\ op' = [op EXCEPT !.pc = "records",
              !.md = [newLeveldbMetadata EXCEPT !.cursor = nextCursor,
                                                !.completeIndex = op.complete]]
  /\ UNCHANGED <<db, chan, leaked, faults>>

AllocateCursor ==
  /\ op # None /\ op.pc = "cursor"
  /\ ~Known(op.piece)
  /\ nextCursor' = nextCursor + 1
  /\ op' = [op EXCEPT !.pc = "records",
              !.md = [newLeveldbMetadata EXCEPT !.cursor = nextCursor,
                                                !.completeIndex = op.complete]]
  /\ UNCHANGED <<metadata, hashPieces, records, chan, leaked, faults>>

AddIndexRecord(h) ==
  /\ op # None /\ op.pc = "records"
  /\ h \in op.todo
  /\ records' =
       {r \in records : r.cursor # op.md.cursor \/ r.mh # h}
         \cup {[cursor |-> op.md.cursor, mh |-> h, of |-> op.piece, sized |-> op.complete]}
  /\ op' = [op EXCEPT !.todo = @ \ {h}]
  /\ UNCHANGED <<nextCursor, metadata, hashPieces, chan, leaked, faults>>

\* Mutant: the records are put in the background and not waited for.
RecordsNotAwaited ==
  /\ op # None /\ op.pc = "records"
  /\ op' = [op EXCEPT !.pc = "send90"]
  /\ UNCHANGED <<db, chan, leaked, faults>>

RecordsDone ==
  /\ op # None /\ op.pc = "records"
  /\ op.todo = {}
  /\ op' = [op EXCEPT !.pc = "send90"]
  /\ UNCHANGED <<db, chan, leaked, faults>>

SetIndexedAt ==
  /\ op # None /\ op.pc = "metadata"
  /\ metadata' = [metadata EXCEPT ![op.piece] = [op.md EXCEPT !.indexedAt = TRUE]]
  /\ op' = [op EXCEPT !.pc = "send95"]
  /\ leaked' = leaked \ (op.recs \X {op.piece})
  /\ UNCHANGED <<nextCursor, hashPieces, records, chan, faults>>

Sync ==
  /\ op # None /\ op.pc = "sync"
  /\ op' = [op EXCEPT !.pc = "send100"]
  /\ UNCHANGED <<db, chan, leaked, faults>>

\* A send on the channel of capacity 1, the mutex held; the last one, and
\* the one that reports an error, is followed by the deferred Unlock.
AfterSend == [send45 |-> "cursor", send90 |-> "metadata", send95 |-> "sync"]

SendProgress ==
  /\ op # None /\ op.pc \in SendPCs
  /\ progress = "empty"
  /\ progress' = IF op.pc = "sendErr" THEN "error" ELSE "progress"
  /\ op' = IF op.pc \in DOMAIN AfterSend
           THEN [op EXCEPT !.pc = AfterSend[op.pc]]
           ELSE None
  /\ UNCHANGED <<db, client, leaked, faults>>

\* The entries of an AddIndex in flight that lead to no record (yet).
Unread ==
  {<<h, op.piece>> : h \in
     {x \in op.recs : op.piece \in hashPieces[x] /\ ~Readable(op.piece, x)}}

\* A write, or the sync that follows the batch of multihashes, fails.
AddIndexFails ==
  /\ op # None
  /\ op.pc \in {"hashes", "send45", "cursor", "records", "metadata", "sync"}
  /\ faults < MaxFaults
  /\ op' = [op EXCEPT !.pc = "sendErr"]
  /\ leaked' = leaked \cup Unread
  /\ faults' = faults + 1
  /\ UNCHANGED <<db, chan>>

\* Mutant: the client takes one answer and returns.
ClientReceiveOnce ==
  /\ client = "receiving"
  /\ progress # "empty"
  /\ client' = "returned"
  /\ progress' = "empty"
  /\ UNCHANGED <<db, op, leaked, faults>>

Adding == op # None /\ op.pc \notin {"batch", "unindex", "delete"}

\* client.AddIndex: the loop over the channel ends at the first error, or when
\* the channel is empty and AddIndex, which closes it, has returned.
ClientReceive ==
  /\ client = "receiving"
  /\ progress # "empty"
  /\ client' = IF progress = "error" \/ ~Adding THEN "returned" ELSE client
  /\ progress' = "empty"
  /\ UNCHANGED <<db, op, leaked, faults>>

\* The client, its connection or its context goes away and the store lives:
\* nothing receives from the channel any more.  (After the last send nothing
\* depends on the client.)
ClientGone ==
  /\ Adding
  /\ client = "receiving"
  /\ faults < MaxFaults
  /\ client' = "gone"
  /\ faults' = faults + 1
  /\ UNCHANGED <<db, op, progress, leaked>>

-----------------------------------------------------------------------------
(* Removals: a batch over everything under the cursor, then the metadata. *)

\* Mutant: the metadata is deleted and the index left behind.
RemoveMetadataOnly(p) ==
  /\ op = None
  /\ Known(p)
  /\ op' = NewOp(p, "delete", "")
  /\ UNCHANGED <<db, chan, leaked, faults>>

RemovePieceMetadata(p) ==
  /\ op = None
  /\ Known(p)
  /\ op' = NewOp(p, "batch", "delete")
  /\ UNCHANGED <<db, chan, leaked, faults>>

RemoveIndexes(p) ==
  /\ op = None
  /\ Known(p)
  /\ op' = NewOp(p, "batch", "unindex")
  /\ UNCHANGED <<db, chan, leaked, faults>>

HashesUnder(c) == {r.mh : r \in {s \in records : s.cursor = c}}

\* The entries of the other pieces of a shared cursor: the batch takes their
\* records and leaves them in the multihash table.
LeftBehind(p, c) ==
  {e \in HashesUnder(c) \X (Pieces \ {p}) :
     /\ e[2] \in hashPieces[e[1]]
     /\ Known(e[2]) /\ metadata[e[2]].cursor = c}

\* Mutant: the batch takes the multihashes and keeps the records.
RemoveHashesOnly ==
  /\ op # None /\ op.pc = "batch"
  /\ hashPieces' = [h \in Hashes |->
       IF h \in HashesUnder(op.md.cursor) THEN hashPieces[h] \ {op.piece}
                                          ELSE hashPieces[h]]
  /\ op' = [op EXCEPT !.pc = op.next]
  /\ UNCHANGED <<nextCursor, metadata, records, chan, leaked, faults>>

\* DB.RemoveIndexes: one atomic batch.
RemoveRecords ==
  /\ op # None /\ op.pc = "batch"
  /\ hashPieces' = [h \in Hashes |->
       IF h \in HashesUnder(op.md.cursor) THEN hashPieces[h] \ {op.piece}
                                          ELSE hashPieces[h]]
  /\ records' = {r \in records : r.cursor # op.md.cursor}
  /\ op' = [op EXCEPT !.pc = op.next]
  /\ leaked' = (leaked \ (HashesUnder(op.md.cursor) \X {op.piece}))
                 \cup LeftBehind(op.piece, op.md.cursor)
  /\ UNCHANGED <<nextCursor, metadata, chan, faults>>

ClearIndexedAt ==
  /\ op # None /\ op.pc = "unindex"
  /\ metadata' = [metadata EXCEPT ![op.piece] = [op.md EXCEPT !.indexedAt = FALSE]]
  /\ op' = None
  /\ UNCHANGED <<nextCursor, hashPieces, records, chan, leaked, faults>>

DeleteMetadata ==
  /\ op # None /\ op.pc = "delete"
  /\ metadata' = [metadata EXCEPT ![op.piece] = None]
  /\ op' = None
  /\ UNCHANGED <<nextCursor, hashPieces, records, chan, leaked, faults>>

\* The process dies and restarts, or a removal returns the error of its next
\* write: the writes made so far stay, the rest never happens.
Interrupt ==
  /\ op # None
  /\ faults < MaxFaults
  /\ op' = None
  /\ progress' = "empty"
  /\ client' = "returned"
  /\ leaked' = leaked \cup Unread
  /\ faults' = faults + 1
  /\ UNCHANGED db

-----------------------------------------------------------------------------
OpStep ==
  \/ SetMultihashesToPieceCid
  \/ UseCursor
  \/ AllocateCursor
  \/ \E h \in Hashes : AddIndexRecord(h)
  \/ RecordsDone
  \/ SetIndexedAt
  \/ Sync
  \/ SendProgress
  \/ RemoveRecords
  \/ ClearIndexedAt
  \/ DeleteMetadata

Next ==
  \/ \E p \in Pieces, d \in Deals : AddDealForPiece(p, d)
  \/ \E p \in Pieces, u \in Uuids : RemoveDealForPiece(p, u)
  \/ \E p \in Pieces : RemoveDealOfUnknown(p)
  \/ \E p \in Pieces, recs \in SUBSET Hashes, complete \in BOOLEAN :
       BeginAddIndex(p, recs, complete)
  \/ \E p \in Pieces : RemovePieceMetadata(p)
  \/ \E p \in Pieces : RemoveIndexes(p)
  \/ OpStep
  \/ ClientReceive
  \/ ClientGone
  \/ AddIndexFails
  \/ Interrupt

Spec == Init /\ [][Next]_vars

\* A goroutine that can run does run, and a receive loop that is still there
\* keeps receiving; nothing says that it stays.
FairSpec == Spec /\ WF_vars(OpStep) /\ WF_vars(ClientReceive)

-----------------------------------------------------------------------------
(* Safety. *)

\* The cursors in use: those in the metadata table and the one an AddIndex
\* in flight is writing under.
Writing == op # None /\ op.pc \in {"records", "send90", "metadata"}

\* Two pieces never write under the same cursor, except cursor 0, which
\* AddDealForPiece gives to every piece whose metadata it creates; and every
\* other cursor came from the allocator.  (The allocation in AddIndex,
\* ldb/service.go:389-410.)
CursorOwnership ==
  /\ \A p \in Pieces : Known(p) =>
       /\ metadata[p].cursor \in {0} \cup FirstCursor..(nextCursor - 1)
       /\ \A q \in Pieces :
            Known(q) /\ p # q /\ metadata[p].cursor = metadata[q].cursor
              => metadata[p].cursor = 0
  /\ Writing /\ op.md.cursor # 0 =>
       /\ op.md.cursor \in FirstCursor..(nextCursor - 1)
       /\ \A q \in Pieces \ {op.piece} : Known(q) => metadata[q].cursor # op.md.cursor

\* A piece whose cursor was allocated never reads an offset into the CAR of
\* another piece, even while indexes are added, removed, cut short and
\* redone.  (GetIndex, GetOffsetSize: ldb/service.go:141-293.)
IndexIsOwn ==
  \A p \in Pieces : Known(p) /\ metadata[p].cursor # 0 =>
    \A r \in GetIndex(p) : r.of = p

\* Every record a piece can read of its own is also found by multihash: the
\* multihash table is written before the records and in the same batch as
\* their removal.  (PiecesContainingMultihash, ldb/service.go:227-251.)
RecordsLocatable ==
  \A p \in Pieces : \A r \in GetIndex(p) : r.of = p => p \in hashPieces[r.mh]

\* In an idle store every entry of the multihash table leads to a piece with
\* metadata and a record, whatever failed before and whichever came first, the
\* deal or the index, but for the entries of an AddIndex that was cut short and
\* was not repeated, and those of a piece whose shared cursor 0 was emptied by
\* the removal of another one.  (AddIndex and RemoveIndexes,
\* ldb/service.go:358-442, 786-831.)
DanglingExplained ==
  op = None =>
    \A h \in Hashes : \A p \in hashPieces[h] : Readable(p, h) \/ <<h, p>> \in leaked

\* Once AddIndex has set IndexedAt, and until it answers, all the records it
\* was given can be read and located.  (ldb/service.go:422-438.)
AckedIndexReadable ==
  op # None /\ op.pc \in {"send95", "sync", "send100"} =>
    /\ Known(op.piece)
    /\ \A h \in op.recs :
         /\ op.piece \in hashPieces[h]
         /\ [cursor |-> metadata[op.piece].cursor, mh |-> h, of |-> op.piece,
             sized |-> op.complete] \in GetIndex(op.piece)

-----------------------------------------------------------------------------
(* Refinement of what the store promises. *)

DealsOf == [p \in Pieces |-> IF Known(p) THEN metadata[p].deals ELSE {}]
IndexOf == [p \in Pieces |-> {[mh |-> r.mh, of |-> r.of] : r \in GetIndex(p)}]
Sharing == {p \in Pieces : Known(p) /\ metadata[p].cursor = 0}

PI == INSTANCE PieceIndex WITH dealsOf <- DealsOf, indexOf <- IndexOf, sharing <- Sharing

\* Through every interleaving, error and crash, and in every order of deals and
\* indexes: no operation on a piece changes the deals of another one, nor the
\* readable index of another one unless a deal made both known; the deals and
\* the index of a piece do not change in one step, except when a deal makes it
\* known; and a piece is never forgotten before its index is gone.
ImplementsPieceIndex == PI!PISpec

-----------------------------------------------------------------------------
(* Liveness. *)

\* AddIndex waits, the mutex held, for room in the channel of a client that
\* went away.
Abandoned ==
  op # None /\ op.pc \in SendPCs /\ progress # "empty" /\ client = "gone"

\* An operation that took the mutex gives it back, although AddIndex sends
\* four times on a channel of capacity 1 while holding it, unless its client
\* went away: the sends at ldb/service.go:374, 420, 430 and 437 have neither a
\* context nor a timeout.
MutexReleased == (op # None) ~> (op = None \/ Abandoned)

=============================================================================
