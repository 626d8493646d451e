--------------------------- MODULE LdbStoreProofs ---------------------------
(***************************************************************************)
(* Theorems about LdbStore, for every set of pieces, hashes and deals, any *)
(* number of errors and crashes, and deals before or after the indexes of  *)
(* their pieces.                                                           *)
(*                                                                         *)
(* IInv is the inductive invariant.  Its parts say what the operation that *)
(* holds the mutex may rely on between two of its writes (OpConsistent),   *)
(* where records may lie (RecordPlaces), and that the records under a      *)
(* cursor belong to whoever uses that cursor (RecordOwners) and can be     *)
(* located (RecordHashes).                                                 *)
(***************************************************************************)
EXTENDS LdbStore, TLAPS

Removing == op # None /\ op.pc \in {"batch", "unindex", "delete"}

AfterHashes ==
  op # None /\ op.pc \in {"send45", "cursor", "records", "send90", "metadata",
                          "send95", "sync", "send100"}

\* The metadata an operation read under the mutex is still what the table
\* holds, and a removal past its batch has left no record under the cursor.
OpConsistent ==
  /\ Removing => op.md = metadata[op.piece]
  /\ op # None /\ op.pc = "batch" => op.next \in {"unindex", "delete"}
  /\ op # None /\ op.pc \in {"unindex", "delete"} =>
       \A r \in records : r.cursor # op.md.cursor
  /\ Writing /\ Known(op.piece) => op.md = metadata[op.piece]
  /\ Writing /\ ~Known(op.piece) => op.md.cursor # 0
  /\ op # None => op.todo \subseteq op.recs

RecordPlaces ==
  /\ nextCursor >= FirstCursor
  /\ \A r \in records : r.cursor \in {0} \cup FirstCursor..(nextCursor - 1)
  /\ \A r \in records : r.cursor = 0 => Known(r.of) /\ metadata[r.of].cursor = 0

RecordOwners ==
  \A r \in records : r.cursor # 0 =>
    /\ \A p \in Pieces : Known(p) /\ metadata[p].cursor = r.cursor => r.of = p
    /\ Writing /\ op.md.cursor = r.cursor => r.of = op.piece

RecordHashes ==
  /\ AfterHashes => \A h \in op.recs : op.piece \in hashPieces[h]
  /\ \A r \in records :
       /\ Known(r.of) /\ metadata[r.of].cursor = r.cursor => r.of \in hashPieces[r.mh]
       /\ Writing /\ op.md.cursor = r.cursor /\ r.of = op.piece
            => op.piece \in hashPieces[r.mh]

IInv ==
  /\ TypeOK
  /\ CursorOwnership
  /\ OpConsistent
  /\ RecordPlaces
  /\ RecordOwners
  /\ RecordHashes

-----------------------------------------------------------------------------
(* Two lemmas that most steps are an instance of. *)

\* A step that writes nothing to the database: the operation moves on, ends,
\* or begins.
LEMMA OpMoved ==
  ASSUME IInv, TypeOK', OpConsistent', UNCHANGED db,
         Writing' => \/ Writing /\ op'.piece = op.piece /\ op'.md = op.md
                     \/ Known(op'.piece) /\ op'.md = metadata[op'.piece],
         AfterHashes' => AfterHashes /\ op'.piece = op.piece /\ op'.recs = op.recs
  PROVE  IInv'
<1>1. UNCHANGED <<nextCursor, metadata, hashPieces, records>>
  BY DEF db
<1>2. Writing' => op'.piece \in Pieces
  BY DEF TypeOK, Operation, Writing
<1>3. CursorOwnership'
  BY <1>1, <1>2 DEF IInv, CursorOwnership, Known
<1>4. RecordPlaces'
  BY <1>1 DEF IInv, RecordPlaces, Known
<1>5. RecordOwners'
  BY <1>1, <1>2 DEF IInv, RecordOwners, Known
<1>6. RecordHashes'
  <2>1. (AfterHashes => \A h \in op.recs : op.piece \in hashPieces[h])'
    BY <1>1 DEF IInv, RecordHashes
  <2>2. ASSUME NEW r \in records
        PROVE  (/\ Known(r.of) /\ metadata[r.of].cursor = r.cursor => r.of \in hashPieces[r.mh]
                /\ Writing /\ op.md.cursor = r.cursor /\ r.of = op.piece
                     => op.piece \in hashPieces[r.mh])'
    BY <1>1 DEF IInv, RecordHashes, Known
  <2>3. QED
    BY <1>1, <2>1, <2>2 DEF RecordHashes
<1>7. QED
  BY <1>3, <1>4, <1>5, <1>6 DEF IInv

\* A step that rewrites the metadata of one piece while the mutex is free or
\* about to be: the piece keeps its cursor, or gets cursor 0 if it is new.
LEMMA MetadataRewritten ==
  ASSUME IInv, TypeOK', op' = None, UNCHANGED <<nextCursor, hashPieces, records>>,
         NEW p \in Pieces,
         \A q \in Pieces \ {p} : metadata'[q] = metadata[q],
         metadata'[p] # None,
         metadata'[p].cursor = IF Known(p) THEN metadata[p].cursor ELSE 0
  PROVE  IInv'
<1>1. ~Writing' /\ ~AfterHashes'
  BY DEF Writing, AfterHashes
<1>2. records \in SUBSET Record
  BY DEF IInv, TypeOK
<1>3. \A r \in records : r.of \in Pieces
  BY <1>2 DEF Record
<1>4. CursorOwnership'
  BY <1>1 DEF IInv, CursorOwnership, Known
<1>5. OpConsistent'
  BY <1>1 DEF OpConsistent, Removing
<1>6. RecordPlaces'
  BY <1>3 DEF IInv, RecordPlaces, Known
<1>7. RecordOwners'
  <2>1. ASSUME NEW r \in records, r.cursor # 0,
               NEW q \in Pieces, Known(q)', metadata'[q].cursor = r.cursor
        PROVE  r.of = q
    BY <2>1 DEF IInv, RecordOwners, Known
  <2>2. QED
    BY <1>1, <2>1 DEF RecordOwners
<1>8. RecordHashes'
  <2>1. ASSUME NEW r \in records, Known(r.of)', metadata'[r.of].cursor = r.cursor
        PROVE  r.of \in hashPieces[r.mh]
    BY <1>3, <2>1 DEF IInv, RecordHashes, RecordPlaces, Known
  <2>2. QED
    BY <1>1, <2>1 DEF RecordHashes
<1>9. QED
  BY <1>4, <1>5, <1>6, <1>7, <1>8 DEF IInv

-----------------------------------------------------------------------------
(* Steps that only move the operation. *)

LEMMA OperationFields ==
  op \in Operation =>
    /\ op.piece \in Pieces /\ op.recs \in SUBSET Hashes /\ op.todo \in SUBSET Hashes
    /\ op.complete \in BOOLEAN /\ op.md \in Metadata
    /\ op.next \in {"", "unindex", "delete"} /\ op.pc \in PCs /\ op # None
  BY ConstantsAssumption DEF Operation

LEMMA BeginAddIndexStep ==
  ASSUME IInv, NEW p \in Pieces, NEW recs \in SUBSET Hashes, NEW complete \in BOOLEAN,
         BeginAddIndex(p, recs, complete)
  PROVE  IInv'
<1>1. newLeveldbMetadata \in Metadata
  BY DEF newLeveldbMetadata, Metadata
<1>2. op' \in Operation /\ op'.pc = "hashes" /\ op'.todo = op'.recs
  BY <1>1 DEF BeginAddIndex, Operation, PCs
<1>3. TypeOK'
  BY <1>2 DEF IInv, TypeOK, BeginAddIndex, db
<1>4. OpConsistent' /\ ~Writing' /\ ~AfterHashes'
  BY <1>2 DEF OpConsistent, Removing, Writing, AfterHashes
<1>5. QED
  BY <1>3, <1>4, OpMoved DEF BeginAddIndex

\* Beginning a removal, whichever operation asks for it.
LEMMA BeginRemoval ==
  ASSUME IInv, NEW p \in Pieces, Known(p), NEW next \in {"unindex", "delete"},
         op' = NewOp(p, "batch", next), UNCHANGED <<db, chan, leaked, faults>>
  PROVE  IInv'
<1>1. metadata[p] \in Metadata
  BY DEF IInv, TypeOK, Known
<1>2. op' \in Operation /\ op'.pc = "batch" /\ op'.next = next /\ op'.todo = op'.recs
      /\ op'.md = metadata[op'.piece]
  BY <1>1 DEF NewOp, Operation, PCs
<1>3. TypeOK'
  BY <1>2 DEF IInv, TypeOK, db, chan
<1>4. OpConsistent' /\ ~Writing' /\ ~AfterHashes'
  BY <1>2 DEF OpConsistent, Removing, Writing, AfterHashes, db
<1>5. QED
  BY <1>3, <1>4, OpMoved

\* The program counter moves and nothing an invariant reads changes with it.
LEMMA PCMoved ==
  ASSUME IInv, op \in Operation, NEW pc \in PCs, op' = [op EXCEPT !.pc = pc],
         UNCHANGED db, TypeOK',
         pc \notin {"batch", "unindex", "delete"},
         pc \in {"records", "send90", "metadata"} => Writing,
         pc \in {"send45", "cursor", "records", "send90", "metadata",
                 "send95", "sync", "send100"} => AfterHashes
  PROVE  IInv'
<1>1. op' # None /\ op'.pc = pc /\ op'.piece = op.piece /\ op'.md = op.md
      /\ op'.recs = op.recs /\ op'.todo = op.todo /\ op'.next = op.next
  BY ConstantsAssumption DEF Operation
<1>2. op # None
  BY ConstantsAssumption
<1>3. OpConsistent'
  BY <1>1, <1>2 DEF IInv, OpConsistent, Removing, Writing, db, Known
<1>4. QED
  BY <1>1, <1>3, OpMoved DEF Writing, AfterHashes

LEMMA OperationEnded ==
  ASSUME IInv, op' = None, UNCHANGED db, TypeOK'
  PROVE  IInv'
<1>1. OpConsistent' /\ ~Writing' /\ ~AfterHashes'
  BY DEF OpConsistent, Removing, Writing, AfterHashes
<1>2. QED
  BY <1>1, OpMoved

LEMMA UseCursorStep ==
  ASSUME IInv, UseCursor
  PROVE  IInv'
<1>1. op \in Operation
  BY DEF IInv, TypeOK, UseCursor
<1>2. metadata[op.piece] \in Metadata
  BY <1>1, OperationFields DEF IInv, TypeOK, UseCursor, Known
<1>3. op' \in Operation /\ op'.pc = "records" /\ op'.md = metadata[op.piece]
      /\ op'.piece = op.piece /\ op'.recs = op.recs /\ op'.todo = op.todo
  BY <1>1, <1>2 DEF UseCursor, Operation, PCs
<1>4. TypeOK'
  BY <1>3 DEF IInv, TypeOK, UseCursor, db, chan
<1>5. OpConsistent'
  BY <1>3 DEF IInv, OpConsistent, UseCursor, Removing, Writing, Known, db
<1>6. QED
  BY <1>3, <1>4, <1>5, OpMoved DEF UseCursor, AfterHashes

LEMMA SendProgressStep ==
  ASSUME IInv, SendProgress
  PROVE  IInv'
<1>1. op \in Operation /\ op # None
  BY DEF IInv, TypeOK, SendProgress
<1>2. progress' \in {"empty", "progress", "error"} /\ UNCHANGED <<db, client, leaked, faults>>
  BY DEF SendProgress
<1>3. CASE op.pc \in DOMAIN AfterSend
  <2>1. op.pc \in {"send45", "send90", "send95"}
    BY <1>3 DEF AfterSend
  <2>2. PICK pc \in {"cursor", "metadata", "sync"} :
          op' = [op EXCEPT !.pc = pc] /\ (pc = "metadata" => op.pc = "send90")
    BY <1>3, <2>1 DEF SendProgress, AfterSend
  <2>3. TypeOK'
    BY <1>1, <1>2, <2>2 DEF IInv, TypeOK, Operation, PCs, db
  <2>4. QED
    BY <1>1, <1>2, <2>1, <2>2, <2>3, PCMoved DEF PCs, Writing, AfterHashes
<1>4. CASE op.pc \notin DOMAIN AfterSend
  <2>1. op' = None
    BY <1>4 DEF SendProgress
  <2>2. QED
    BY <1>2, <2>1, OperationEnded DEF IInv, TypeOK, db
<1>5. QED
  BY <1>3, <1>4

LEMMA RecordsDoneStep ==
  ASSUME IInv, RecordsDone
  PROVE  IInv'
<1>1. op \in Operation /\ UNCHANGED <<db, chan, leaked, faults>>
  BY DEF IInv, TypeOK, RecordsDone
<1>2. TypeOK'
  BY <1>1 DEF RecordsDone, IInv, TypeOK, Operation, PCs, SendPCs, db, chan
<1>3. QED
  BY <1>1, <1>2, PCMoved DEF RecordsDone, PCs, SendPCs, Writing, AfterHashes

LEMMA SyncStep ==
  ASSUME IInv, Sync
  PROVE  IInv'
<1>1. op \in Operation /\ UNCHANGED <<db, chan, leaked, faults>>
  BY DEF IInv, TypeOK, Sync
<1>2. TypeOK'
  BY <1>1 DEF Sync, IInv, TypeOK, Operation, PCs, SendPCs, db, chan
<1>3. QED
  BY <1>1, <1>2, PCMoved DEF Sync, PCs, SendPCs, AfterHashes

LEMMA UnreadType ==
  ASSUME op \in Operation
  PROVE  Unread \in SUBSET (Hashes \X Pieces)
<1>1. op.piece \in Pieces /\ op.recs \in SUBSET Hashes
  BY OperationFields
<1>2. Unread \subseteq {<<h, op.piece>> : h \in op.recs}
  BY DEF Unread
<1>3. QED
  BY <1>1, <1>2

LEMMA AddIndexFailsStep ==
  ASSUME IInv, AddIndexFails
  PROVE  IInv'
<1>1. op \in Operation /\ UNCHANGED <<db, chan>> /\ op' = [op EXCEPT !.pc = "sendErr"]
  BY DEF IInv, TypeOK, AddIndexFails
<1>2. op' \in Operation
  BY <1>1 DEF Operation, PCs, SendPCs
<1>3. leaked' \in SUBSET (Hashes \X Pieces)
  BY <1>1, UnreadType DEF AddIndexFails, IInv, TypeOK
<1>4. TypeOK'
  BY <1>1, <1>2, <1>3 DEF AddIndexFails, IInv, TypeOK, db, chan
<1>5. QED
  BY <1>1, <1>4, PCMoved DEF PCs, SendPCs

LEMMA InterruptStep ==
  ASSUME IInv, Interrupt
  PROVE  IInv'
<1>1. faults' \in Nat
  BY DEF Interrupt, IInv, TypeOK
<1>2. client' \in {"receiving", "returned", "gone"} /\ progress' \in {"empty", "progress", "error"}
  BY DEF Interrupt
<1>3. leaked' \in SUBSET (Hashes \X Pieces)
  BY UnreadType DEF Interrupt, IInv, TypeOK
<1>4. TypeOK'
  BY <1>1, <1>2, <1>3 DEF Interrupt, IInv, TypeOK, db
<1>5. QED
  BY <1>4, OperationEnded DEF Interrupt

LEMMA OpUntouched ==
  ASSUME IInv, UNCHANGED <<db, op>>, TypeOK'
  PROVE  IInv'
<1>1. OpConsistent' /\ (Writing' <=> Writing) /\ (AfterHashes' <=> AfterHashes)
  BY DEF IInv, OpConsistent, Removing, Writing, AfterHashes, Known, db
<1>2. QED
  BY <1>1, OpMoved

-----------------------------------------------------------------------------
(* Steps that write the database. *)

LEMMA AddDealForPieceStep ==
  ASSUME IInv, NEW p \in Pieces, NEW d \in Deals, AddDealForPiece(p, d)
  PROVE  IInv'
<1> DEFINE md == IF Known(p) THEN metadata[p] ELSE newLeveldbMetadata
           new == [md EXCEPT !.deals = @ \cup {d}]
<1>1. md \in Metadata /\ md.cursor = IF Known(p) THEN metadata[p].cursor ELSE 0
  BY DEF IInv, TypeOK, Known, newLeveldbMetadata, Metadata
<1>2. metadata' = [metadata EXCEPT ![p] = new]
  BY DEF AddDealForPiece
<1> HIDE DEF md
<1>3. new \in Metadata /\ new.cursor = md.cursor
  BY <1>1 DEF Metadata
<1> HIDE DEF new
<1>4. TypeOK'
  BY <1>2, <1>3 DEF IInv, TypeOK, AddDealForPiece, chan
<1>5. metadata'[p] = new /\ \A q \in Pieces \ {p} : metadata'[q] = metadata[q]
  BY <1>2 DEF IInv, TypeOK
<1>6. new.cursor = IF Known(p) THEN metadata[p].cursor ELSE 0
  BY <1>1, <1>3
<1>7. QED
  BY <1>3, <1>4, <1>5, <1>6, MetadataRewritten, ConstantsAssumption DEF AddDealForPiece

LEMMA RemoveDealForPieceStep ==
  ASSUME IInv, NEW p \in Pieces, NEW u \in Uuids, RemoveDealForPiece(p, u)
  PROVE  IInv'
<1>1. op = None /\ Known(p) /\ UNCHANGED <<nextCursor, hashPieces, records, chan, leaked, faults>>
  BY DEF RemoveDealForPiece
<1>2. metadata[p] \in Metadata
  BY <1>1 DEF IInv, TypeOK, Known
<1>3. PICK rest \in Remaining(metadata[p].deals, u) :
        IF rest = {}
        THEN op' = NewOp(p, "batch", "delete") /\ UNCHANGED metadata
        ELSE metadata' = [metadata EXCEPT ![p].deals = rest] /\ UNCHANGED op
  BY DEF RemoveDealForPiece
<1>4. rest \in SUBSET Deals
  BY <1>2 DEF Remaining, Metadata
<1>5. CASE rest = {}
  <2>1. op' = NewOp(p, "batch", "delete") /\ UNCHANGED <<db, chan, leaked, faults>>
    BY <1>1, <1>3, <1>5 DEF db
  <2>2. QED
    BY <1>1, <2>1, BeginRemoval
<1>6. CASE rest # {}
  <2> DEFINE new == [metadata[p] EXCEPT !.deals = rest]
  <2>1. new \in Metadata /\ new.cursor = metadata[p].cursor
    BY <1>2, <1>4 DEF Metadata
  <2>2. metadata' = [metadata EXCEPT ![p] = new] /\ UNCHANGED op
    BY <1>3, <1>6
  <2> HIDE DEF new
  <2>3. TypeOK'
    BY <1>1, <2>1, <2>2 DEF IInv, TypeOK, chan
  <2>4. metadata'[p] = new /\ \A q \in Pieces \ {p} : metadata'[q] = metadata[q]
    BY <2>2 DEF IInv, TypeOK
  <2>5. QED
    BY <1>1, <2>1, <2>2, <2>3, <2>4, MetadataRewritten, ConstantsAssumption
<1>7. QED
  BY <1>5, <1>6

LEMMA ClearIndexedAtStep ==
  ASSUME IInv, ClearIndexedAt
  PROVE  IInv'
<1> DEFINE p == op.piece
           new == [op.md EXCEPT !.indexedAt = FALSE]
<1>1. op \in Operation /\ op # None /\ op.pc = "unindex"
  BY DEF IInv, TypeOK, ClearIndexedAt
<1>2. p \in Pieces /\ op.md \in Metadata /\ op.md = metadata[p]
  BY <1>1, OperationFields DEF IInv, OpConsistent, Removing
<1>3. new \in Metadata /\ new.cursor = metadata[p].cursor /\ Known(p)
  BY <1>2, ConstantsAssumption DEF Metadata, Known
<1>4. metadata' = [metadata EXCEPT ![p] = new]
      /\ op' = None /\ UNCHANGED <<nextCursor, hashPieces, records, chan, leaked, faults>>
  BY DEF ClearIndexedAt
<1> HIDE DEF p, new
<1>5. TypeOK'
  BY <1>3, <1>4 DEF IInv, TypeOK, chan
<1>6. metadata'[p] = new /\ \A q \in Pieces \ {p} : metadata'[q] = metadata[q]
  BY <1>2, <1>4 DEF IInv, TypeOK
<1>7. QED
  BY <1>2, <1>3, <1>4, <1>5, <1>6, MetadataRewritten, ConstantsAssumption

LEMMA SetMultihashesStep ==
  ASSUME IInv, SetMultihashesToPieceCid
  PROVE  IInv'
<1>1. op \in Operation /\ op.pc = "hashes"
      /\ op.piece \in Pieces /\ op.recs \in SUBSET Hashes
  BY OperationFields DEF IInv, TypeOK, SetMultihashesToPieceCid
<1>2. op' \in Operation /\ op'.pc = "send45" /\ op'.piece = op.piece /\ op'.recs = op.recs
      /\ op'.todo = op.todo /\ op'.md = op.md
  BY <1>1 DEF SetMultihashesToPieceCid, Operation, PCs, SendPCs
<1>3. UNCHANGED <<nextCursor, metadata, records>>
  BY DEF SetMultihashesToPieceCid
<1>4. /\ \A h \in Hashes : hashPieces[h] \subseteq hashPieces'[h]
      /\ \A h \in op.recs : op.piece \in hashPieces'[h]
      /\ hashPieces' \in [Hashes -> SUBSET Pieces]
  BY <1>1 DEF IInv, TypeOK, SetMultihashesToPieceCid
<1>5. TypeOK'
  BY <1>2, <1>3, <1>4 DEF IInv, TypeOK, SetMultihashesToPieceCid, chan
<1>6. ~Writing' /\ ~Removing'
  BY <1>2 DEF Writing, Removing
<1>7. op # None
  BY DEF SetMultihashesToPieceCid
<1>8. CursorOwnership' /\ OpConsistent' /\ RecordPlaces' /\ RecordOwners'
  BY <1>2, <1>3, <1>6, <1>7 DEF IInv, CursorOwnership, OpConsistent, RecordPlaces, RecordOwners, Known
<1>9. \A r \in records : r.mh \in Hashes
  BY DEF IInv, TypeOK, Record
<1>10. RecordHashes'
  BY <1>2, <1>3, <1>4, <1>6, <1>9 DEF IInv, RecordHashes, Known
<1>11. QED
  BY <1>5, <1>8, <1>10 DEF IInv

LEMMA AllocateCursorStep ==
  ASSUME IInv, AllocateCursor
  PROVE  IInv'
<1> DEFINE new == [newLeveldbMetadata EXCEPT !.cursor = nextCursor,
                                             !.completeIndex = op.complete]
<1>1. /\ op \in Operation /\ op # None /\ op.pc = "cursor"
      /\ nextCursor \in Nat /\ records \in SUBSET Record
  BY DEF IInv, TypeOK, AllocateCursor
<1>2. new \in Metadata /\ new.cursor = nextCursor
  BY <1>1, OperationFields DEF newLeveldbMetadata, Metadata
<1>3. op' = [op EXCEPT !.pc = "records", !.md = new]
  BY DEF AllocateCursor
<1> HIDE DEF new
<1>4. op' \in Operation /\ op'.pc = "records" /\ op'.piece = op.piece /\ op'.recs = op.recs
      /\ op'.todo = op.todo /\ op'.md.cursor = nextCursor
  BY <1>1, <1>2, <1>3 DEF Operation, PCs
<1>5. nextCursor' = nextCursor + 1 /\ ~Known(op.piece)
      /\ UNCHANGED <<metadata, hashPieces, records, chan, leaked, faults>>
  BY DEF AllocateCursor
<1>6. TypeOK'
  BY <1>1, <1>4, <1>5 DEF IInv, TypeOK, chan
<1>7. Writing' /\ ~Removing' /\ nextCursor >= FirstCursor /\ FirstCursor \in Nat \ {0}
  BY <1>4, ConstantsAssumption DEF Writing, Removing, IInv, RecordPlaces, FirstCursor
<1>8. \A q \in Pieces : Known(q) => metadata[q].cursor # nextCursor
  BY <1>1, <1>7 DEF IInv, CursorOwnership
<1>9. \A r \in records : r.cursor # nextCursor
  BY <1>1, <1>7 DEF IInv, RecordPlaces
<1>10. CursorOwnership'
  <2>1. ASSUME NEW p \in Pieces, Known(p)
        PROVE  metadata[p].cursor \in {0} \cup FirstCursor..(nextCursor' - 1)
    BY <1>1, <1>5, <1>7, <2>1 DEF IInv, CursorOwnership
  <2>2. nextCursor \in FirstCursor..(nextCursor' - 1)
    BY <1>1, <1>5, <1>7
  <2>3. QED
    BY <1>4, <1>5, <1>8, <2>1, <2>2 DEF IInv, CursorOwnership, Known
<1>11. OpConsistent'
  BY <1>1, <1>4, <1>5, <1>7 DEF IInv, OpConsistent, Known
<1>12. RecordPlaces'
  BY <1>1, <1>5, <1>7 DEF IInv, RecordPlaces, Known
<1>13. RecordOwners'
  BY <1>4, <1>5, <1>9 DEF IInv, RecordOwners, Known
<1>14. RecordHashes'
  BY <1>1, <1>4, <1>5, <1>9 DEF IInv, RecordHashes, Known, AfterHashes
<1>15. QED
  BY <1>6, <1>10, <1>11, <1>12, <1>13, <1>14 DEF IInv

LEMMA AddIndexRecordStep ==
  ASSUME IInv, NEW h \in Hashes, AddIndexRecord(h)
  PROVE  IInv'
<1> DEFINE new == [cursor |-> op.md.cursor, mh |-> h, of |-> op.piece, sized |-> op.complete]
<1>1. op \in Operation /\ op # None /\ op.pc = "records" /\ h \in op.todo
  BY DEF IInv, TypeOK, AddIndexRecord
<1>2. op.piece \in Pieces /\ op.md \in Metadata /\ op.complete \in BOOLEAN /\ op.md.cursor \in Nat
  BY <1>1, OperationFields DEF Metadata
<1>3. new \in Record /\ new.cursor = op.md.cursor /\ new.mh = h /\ new.of = op.piece
  BY <1>2 DEF Record
<1>4. records' \subseteq records \cup {new}
  BY DEF AddIndexRecord
<1> HIDE DEF new
<1>5. UNCHANGED <<nextCursor, metadata, hashPieces, chan, leaked, faults>>
      /\ op' = [op EXCEPT !.todo = @ \ {h}]
  BY DEF AddIndexRecord
<1>6. op' \in Operation /\ op'.pc = "records" /\ op'.piece = op.piece /\ op'.md = op.md
      /\ op'.recs = op.recs /\ op'.todo \subseteq op.todo
  BY <1>1, <1>5 DEF Operation
<1>7. TypeOK'
  BY <1>3, <1>4, <1>5, <1>6 DEF IInv, TypeOK, chan
<1>8. Writing /\ Writing' /\ ~Removing' /\ AfterHashes /\ op' # None
  BY <1>1, <1>6, ConstantsAssumption DEF Writing, Removing, AfterHashes
<1>9. CursorOwnership'
  BY <1>5, <1>6, <1>8 DEF IInv, CursorOwnership, Known
<1>10. OpConsistent'
  BY <1>1, <1>5, <1>6, <1>8 DEF IInv, OpConsistent, Known
<1>11. RecordPlaces'
  <2>1. new.cursor \in {0} \cup FirstCursor..(nextCursor - 1)
    BY <1>3, <1>8 DEF IInv, CursorOwnership
  <2>2. new.cursor = 0 => Known(new.of) /\ metadata[new.of].cursor = 0
    BY <1>3, <1>8 DEF IInv, OpConsistent
  <2>3. QED
    BY <1>4, <1>5, <2>1, <2>2 DEF IInv, RecordPlaces, Known
<1>12. RecordOwners'
  <2>1. ASSUME new.cursor # 0, NEW p \in Pieces, Known(p), metadata[p].cursor = new.cursor
        PROVE  p = op.piece
    BY <1>3, <1>8, <2>1 DEF IInv, CursorOwnership
  <2>2. QED
    BY <1>3, <1>4, <1>5, <1>6, <1>8, <2>1 DEF IInv, RecordOwners, Known
<1>13. RecordHashes'
  <2>1. op.piece \in hashPieces[h]
    BY <1>1, <1>8 DEF IInv, OpConsistent, RecordHashes
  <2>2. QED
    BY <1>3, <1>4, <1>5, <1>6, <1>8, <2>1 DEF IInv, RecordHashes, Known
<1>14. QED
  BY <1>7, <1>9, <1>10, <1>11, <1>12, <1>13 DEF IInv

LEMMA SetIndexedAtStep ==
  ASSUME IInv, SetIndexedAt
  PROVE  IInv'
<1> DEFINE p == op.piece
           new == [op.md EXCEPT !.indexedAt = TRUE]
<1>1. op \in Operation /\ op # None /\ op.pc = "metadata" /\ Writing /\ AfterHashes
  BY DEF IInv, TypeOK, SetIndexedAt, Writing, AfterHashes
<1>2. p \in Pieces /\ op.md \in Metadata
  BY <1>1, OperationFields
<1>3. new \in Metadata /\ new.cursor = op.md.cursor /\ new # None
  BY <1>2, ConstantsAssumption DEF Metadata
<1>4. metadata' = [metadata EXCEPT ![p] = new] /\ op' = [op EXCEPT !.pc = "send95"]
      /\ UNCHANGED <<nextCursor, hashPieces, records, chan, faults>> /\ leaked' \subseteq leaked
  BY DEF SetIndexedAt
<1> HIDE DEF new
<1>5. op' \in Operation /\ op'.pc = "send95" /\ op'.piece = op.piece /\ op'.recs = op.recs
      /\ op'.todo = op.todo
  BY <1>1, <1>4 DEF Operation, PCs, SendPCs
<1>6. TypeOK'
  BY <1>2, <1>3, <1>4, <1>5 DEF IInv, TypeOK, chan
<1>7. metadata'[p] = new /\ \A q \in Pieces \ {p} : metadata'[q] = metadata[q]
  BY <1>2, <1>4 DEF IInv, TypeOK
<1>8. ~Writing' /\ ~Removing'
  BY <1>5 DEF Writing, Removing
<1>9. \A r \in records : r.of \in Pieces
  BY DEF IInv, TypeOK, Record
<1>10. CursorOwnership'
  <2>1. new.cursor \in {0} \cup FirstCursor..(nextCursor - 1)
    BY <1>1, <1>3 DEF IInv, CursorOwnership
  <2>2. ASSUME NEW q \in Pieces \ {p}, Known(q), metadata[q].cursor = new.cursor
        PROVE  new.cursor = 0
    BY <1>1, <1>3, <2>2 DEF IInv, CursorOwnership
  <2>3. QED
    BY <1>2, <1>4, <1>7, <1>8, <2>1, <2>2 DEF IInv, CursorOwnership, Known
<1>11. OpConsistent'
  BY <1>1, <1>5, <1>8 DEF IInv, OpConsistent
<1>12. RecordPlaces'
  <2>1. ASSUME NEW r \in records, r.cursor = 0, r.of = p
        PROVE  new.cursor = 0
    BY <1>1, <1>3, <2>1 DEF IInv, RecordPlaces, OpConsistent
  <2>2. QED
    BY <1>3, <1>4, <1>7, <1>9, <2>1 DEF IInv, RecordPlaces, Known
<1>13. RecordOwners'
  <2>1. ASSUME NEW r \in records, r.cursor # 0, new.cursor = r.cursor
        PROVE  r.of = p
    BY <1>1, <1>3, <2>1 DEF IInv, RecordOwners
  <2>2. QED
    BY <1>4, <1>7, <1>8, <2>1 DEF IInv, RecordOwners, Known
<1>14. RecordHashes'
  <2>1. ASSUME NEW r \in records, r.of = p, new.cursor = r.cursor
        PROVE  p \in hashPieces[r.mh]
    BY <1>1, <1>3, <2>1 DEF IInv, RecordHashes
  <2>2. QED
    BY <1>1, <1>4, <1>5, <1>7, <1>8, <1>9, <2>1 DEF IInv, RecordHashes, Known
<1>15. QED
  BY <1>6, <1>10, <1>11, <1>12, <1>13, <1>14 DEF IInv

LEMMA RemoveRecordsStep ==
  ASSUME IInv, RemoveRecords
  PROVE  IInv'
<1>1. op \in Operation /\ op # None /\ op.pc = "batch" /\ op.next \in {"unindex", "delete"}
  BY DEF IInv, TypeOK, RemoveRecords, OpConsistent
<1>2. UNCHANGED <<nextCursor, metadata, chan, faults>> /\ op' = [op EXCEPT !.pc = op.next]
      /\ leaked' \subseteq leaked \cup (Hashes \X Pieces)
      /\ records' = {r \in records : r.cursor # op.md.cursor}
  BY DEF RemoveRecords, LeftBehind, HashesUnder, IInv, TypeOK, Record
<1>3. op' \in Operation /\ op'.pc \in {"unindex", "delete"} /\ op'.piece = op.piece
      /\ op'.md = op.md /\ op'.recs = op.recs /\ op'.todo = op.todo
  BY <1>1, <1>2 DEF Operation, PCs
<1>4. hashPieces' \in [Hashes -> SUBSET Pieces]
  BY DEF IInv, TypeOK, RemoveRecords
<1>5. TypeOK'
  BY <1>2, <1>3, <1>4 DEF IInv, TypeOK, chan
<1>6. Removing /\ ~Writing' /\ ~AfterHashes'
  BY <1>1, <1>3 DEF Removing, Writing, AfterHashes
<1>7. CursorOwnership' /\ RecordPlaces' /\ RecordOwners'
  BY <1>2, <1>6 DEF IInv, CursorOwnership, RecordPlaces, RecordOwners, Known
<1>8. OpConsistent'
  BY <1>1, <1>2, <1>3, <1>6 DEF IInv, OpConsistent, Removing
<1>9. RecordHashes'
  <2>1. ASSUME NEW r \in records', Known(r.of), metadata[r.of].cursor = r.cursor
        PROVE  r.of \in hashPieces'[r.mh]
    <3>1. r \in records /\ r.cursor # op.md.cursor /\ r.mh \in Hashes
      BY <1>2 DEF IInv, TypeOK, Record
    <3>2. r.of # op.piece
      BY <1>6, <2>1, <3>1 DEF IInv, OpConsistent
    <3>3. r.of \in hashPieces[r.mh]
      BY <2>1, <3>1 DEF IInv, RecordHashes
    <3>4. QED
      BY <3>1, <3>2, <3>3 DEF RemoveRecords
  <2>2. QED
    BY <1>2, <1>6, <2>1 DEF RecordHashes, Known
<1>10. QED
  BY <1>5, <1>7, <1>8, <1>9 DEF IInv

LEMMA DeleteMetadataStep ==
  ASSUME IInv, DeleteMetadata
  PROVE  IInv'
<1>1. op \in Operation /\ op # None /\ op.pc = "delete"
  BY DEF IInv, TypeOK, DeleteMetadata
<1>2. op.piece \in Pieces /\ op.md = metadata[op.piece]
      /\ \A r \in records : r.cursor # op.md.cursor
  BY <1>1, OperationFields DEF IInv, OpConsistent, Removing
<1>3. op' = None /\ UNCHANGED <<nextCursor, hashPieces, records, chan, leaked, faults>>
      /\ metadata' = [metadata EXCEPT ![op.piece] = None]
  BY DEF DeleteMetadata
<1>4. TypeOK'
  BY <1>3 DEF IInv, TypeOK, chan
<1>5. metadata'[op.piece] = None /\ \A q \in Pieces \ {op.piece} : metadata'[q] = metadata[q]
  BY <1>2, <1>3 DEF IInv, TypeOK
<1>6. \A r \in records : r.of \in Pieces
  BY DEF IInv, TypeOK, Record
<1>7. ~Writing' /\ ~Removing' /\ ~AfterHashes'
  BY <1>3 DEF Writing, Removing, AfterHashes
<1>8. CursorOwnership' /\ OpConsistent'
  BY <1>3, <1>5, <1>7 DEF IInv, CursorOwnership, OpConsistent, Known
<1>9. RecordPlaces'
  BY <1>2, <1>3, <1>5, <1>6 DEF IInv, RecordPlaces, Known
<1>10. RecordOwners' /\ RecordHashes'
  BY <1>3, <1>5, <1>6, <1>7 DEF IInv, RecordOwners, RecordHashes, Known
<1>11. QED
  BY <1>4, <1>8, <1>9, <1>10 DEF IInv

-----------------------------------------------------------------------------
(* The theorems. *)

LEMMA InitIInv == Init => IInv
<1> SUFFICES ASSUME Init PROVE IInv
  OBVIOUS
<1>1. TypeOK
  BY DEF Init, TypeOK, FirstCursor
<1>2. CursorOwnership /\ OpConsistent /\ RecordPlaces /\ RecordOwners /\ RecordHashes
  BY DEF Init, CursorOwnership, OpConsistent, RecordPlaces, RecordOwners, RecordHashes,
         Removing, Writing, AfterHashes, Known, FirstCursor
<1>3. QED
  BY <1>1, <1>2 DEF IInv

LEMMA NextIInv == IInv /\ [Next]_vars => IInv'
<1> SUFFICES ASSUME IInv, [Next]_vars PROVE IInv'
  OBVIOUS
<1>1. ASSUME NEW p \in Pieces, RemovePieceMetadata(p) PROVE IInv'
  BY <1>1, BeginRemoval DEF RemovePieceMetadata
<1>2. ASSUME NEW p \in Pieces, RemoveIndexes(p) PROVE IInv'
  BY <1>2, BeginRemoval DEF RemoveIndexes
<1>3. CASE ClientReceive \/ ClientGone
  <2>1. TypeOK'
    BY <1>3 DEF ClientReceive, ClientGone, IInv, TypeOK, db
  <2>2. QED
    BY <1>3, <2>1, OpUntouched DEF ClientReceive, ClientGone
<1>4. CASE UNCHANGED vars
  <2>1. TypeOK'
    BY <1>4 DEF vars, IInv, TypeOK
  <2>2. QED
    BY <1>4, <2>1, OpUntouched DEF vars, db
<1>5. CASE OpStep
  BY <1>5, SetMultihashesStep, UseCursorStep, AllocateCursorStep, AddIndexRecordStep,
     RecordsDoneStep, SetIndexedAtStep, SyncStep, SendProgressStep, RemoveRecordsStep,
     ClearIndexedAtStep, DeleteMetadataStep DEF OpStep
<1>6. QED
  BY <1>1, <1>2, <1>3, <1>4, <1>5, AddDealForPieceStep, RemoveDealForPieceStep,
     BeginAddIndexStep, AddIndexFailsStep, InterruptStep
  DEF Next, RemoveDealOfUnknown

\* Every reachable state satisfies the inductive invariant.
THEOREM Invariance == Spec => []IInv
<1>1. QED
  BY InitIInv, NextIInv, PTL DEF Spec

\* The variables keep their types.
THEOREM TypeCorrect == Spec => []TypeOK
<1>1. IInv => TypeOK
  BY DEF IInv
<1>2. QED
  BY <1>1, Invariance, PTL

\* An allocated cursor belongs to one piece, whatever fails or crashes
\* between the allocation and the write of the metadata.
THEOREM CursorsOwned == Spec => []CursorOwnership
<1>1. IInv => CursorOwnership
  BY DEF IInv
<1>2. QED
  BY <1>1, Invariance, PTL

\* The index of a piece with an allocated cursor never holds an offset into
\* another piece.
THEOREM IndexesOwn == Spec => []IndexIsOwn
<1>1. IInv => IndexIsOwn
  BY DEF IInv, RecordOwners, IndexIsOwn, GetIndex
<1>2. QED
  BY <1>1, Invariance, PTL

\* Whatever a piece can read of its own is found by multihash as well.
THEOREM Locatable == Spec => []RecordsLocatable
<1>1. IInv => RecordsLocatable
  BY DEF IInv, RecordHashes, RecordsLocatable, GetIndex
<1>2. QED
  BY <1>1, Invariance, PTL

-----------------------------------------------------------------------------
(* What AddIndex acknowledges. *)

\* The record AddIndex writes for h.
OwnRecord(h) ==
  [cursor |-> op.md.cursor, mh |-> h, of |-> op.piece, sized |-> op.complete]

\* How much of its index an AddIndex in flight has written.
AckProgress ==
  /\ op # None /\ op.pc \in {"hashes", "send45", "cursor"} => op.todo = op.recs
  /\ op # None /\ op.pc = "records" =>
       \A h \in op.recs \ op.todo : OwnRecord(h) \in records
  /\ op # None /\ op.pc \in {"send90", "metadata", "send95", "sync", "send100"} =>
       \A h \in op.recs : OwnRecord(h) \in records
  /\ op # None /\ op.pc \in {"send95", "sync", "send100"} =>
       Known(op.piece) /\ metadata[op.piece].cursor = op.md.cursor

\* Before its records, and in a removal, an operation has nothing to show.
LEMMA NothingToShow ==
  ASSUME \/ op' = None
         \/ op'.pc \in {"batch", "unindex", "delete", "sendErr"}
         \/ op'.pc \in {"hashes", "send45", "cursor", "records"} /\ op'.todo = op'.recs
  PROVE  AckProgress'
  BY DEF AckProgress

\* A step past the records that keeps what the operation has to show.
LEMMA ShownKept ==
  ASSUME IInv, AckProgress, op \in Operation, NEW pc \in PCs, op' = [op EXCEPT !.pc = pc],
         records' = records, metadata' = metadata,
         op.pc \in {"send90", "send95", "sync"}, pc \in {"metadata", "sync", "send100"},
         pc = "metadata" <=> op.pc = "send90"
  PROVE  AckProgress'
<1>1. op # None /\ op' # None /\ op'.pc = pc /\ op'.piece = op.piece /\ op'.md = op.md
      /\ op'.recs = op.recs /\ op'.complete = op.complete
  BY ConstantsAssumption DEF Operation
<1>2. QED
  BY <1>1 DEF AckProgress, OwnRecord, Known

LEMMA AckOpStep ==
  ASSUME IInv, AckProgress, OpStep
  PROVE  AckProgress'
<1>1. op \in Operation /\ op # None
  BY DEF IInv, TypeOK, OpStep, SetMultihashesToPieceCid, UseCursor, AllocateCursor,
         AddIndexRecord, RecordsDone, SetIndexedAt, Sync, SendProgress, RemoveRecords,
         ClearIndexedAt, DeleteMetadata
<1>2. CASE SetMultihashesToPieceCid
  <2>1. op.pc = "hashes" /\ op'.pc = "send45" /\ op'.todo = op.todo /\ op'.recs = op.recs
    BY <1>1, <1>2 DEF SetMultihashesToPieceCid, Operation
  <2>2. QED
    BY <1>1, <2>1, NothingToShow DEF AckProgress
<1>3. ASSUME UseCursor \/ AllocateCursor PROVE AckProgress'
  <2>1. op.pc = "cursor" /\ op'.pc = "records" /\ op'.todo = op.todo /\ op'.recs = op.recs
    BY <1>1, <1>3 DEF UseCursor, AllocateCursor, Operation
  <2>2. QED
    BY <1>1, <2>1, NothingToShow DEF AckProgress
<1>4. ASSUME NEW h \in Hashes, AddIndexRecord(h) PROVE AckProgress'
  <2>1. op.pc = "records" /\ op'.pc = "records" /\ op'.md = op.md /\ op'.piece = op.piece
        /\ op'.recs = op.recs /\ op'.complete = op.complete /\ op'.todo = op.todo \ {h}
    BY <1>1, <1>4 DEF AddIndexRecord, Operation
  <2>2. \A g \in Hashes : OwnRecord(g).mh = g /\ OwnRecord(g)' = OwnRecord(g)
    BY <2>1 DEF OwnRecord
  <2>3. records' = {r \in records : r.cursor # op.md.cursor \/ r.mh # h} \cup {OwnRecord(h)}
    BY <1>4 DEF AddIndexRecord, OwnRecord
  <2>4. ASSUME NEW g \in op.recs \ op'.todo PROVE OwnRecord(g) \in records'
    <3>1. g \in Hashes
      BY <1>1, OperationFields
    <3>2. CASE g = h
      BY <2>3, <3>2
    <3>3. CASE g # h
      <4>1. OwnRecord(g) \in records
        BY <1>1, <2>1, <3>3 DEF AckProgress
      <4>2. QED
        BY <2>2, <2>3, <3>1, <3>3, <4>1
    <3>4. QED
      BY <3>2, <3>3
  <2>5. \A g \in op'.recs \ op'.todo : OwnRecord(g)' \in records'
    <3>1. op.recs \subseteq Hashes
      BY <1>1, OperationFields
    <3>2. QED
      BY <2>1, <2>2, <2>4, <3>1
  <2>6. QED
    BY <2>1, <2>5 DEF AckProgress
<1>5. CASE RecordsDone
  <2>1. op.pc = "records" /\ op.todo = {} /\ records' = records /\ metadata' = metadata
        /\ op'.pc = "send90" /\ op'.md = op.md /\ op'.piece = op.piece
        /\ op'.recs = op.recs /\ op'.complete = op.complete
    BY <1>1, <1>5 DEF RecordsDone, Operation, db
  <2>2. QED
    BY <1>1, <2>1 DEF AckProgress, OwnRecord
<1>6. CASE SetIndexedAt
  <2>1. op.pc = "metadata" /\ op'.pc = "send95" /\ records' = records
        /\ op'.md = op.md /\ op'.piece = op.piece
        /\ op'.recs = op.recs /\ op'.complete = op.complete
    BY <1>1, <1>6 DEF SetIndexedAt, Operation
  <2>2. op.piece \in Pieces /\ op.md \in Metadata /\ metadata \in [Pieces -> Metadata \cup {None}]
    BY <1>1, OperationFields DEF IInv, TypeOK
  <2>3. [op.md EXCEPT !.indexedAt = TRUE] \in Metadata
        /\ [op.md EXCEPT !.indexedAt = TRUE].cursor = op.md.cursor
    BY <2>2 DEF Metadata
  <2>4. metadata'[op.piece] = [op.md EXCEPT !.indexedAt = TRUE]
    BY <1>6, <2>2 DEF SetIndexedAt
  <2>5. metadata'[op.piece] # None /\ metadata'[op.piece].cursor = op.md.cursor
    BY <2>3, <2>4, ConstantsAssumption
  <2>6. QED
    BY <1>1, <2>1, <2>5 DEF AckProgress, OwnRecord, Known
<1>7. CASE Sync
  <2>1. op' = [op EXCEPT !.pc = "send100"] /\ op.pc = "sync"
        /\ records' = records /\ metadata' = metadata
    BY <1>7 DEF Sync, db
  <2>2. QED
    BY <1>1, <2>1, ShownKept DEF PCs, SendPCs
<1>8. CASE SendProgress
  <2>1. records' = records /\ metadata' = metadata
    BY <1>8 DEF SendProgress, db
  <2>2. CASE op.pc = "send45"
    <3>1. op' = [op EXCEPT !.pc = "cursor"]
      BY <1>8, <2>2 DEF SendProgress, AfterSend
    <3>2. op'.pc = "cursor" /\ op'.todo = op.todo /\ op'.recs = op.recs
      BY <1>1, <3>1 DEF Operation
    <3>3. QED
      BY <1>1, <2>2, <3>2, NothingToShow DEF AckProgress
  <2>3. CASE op.pc = "send90"
    <3>1. op' = [op EXCEPT !.pc = "metadata"]
      BY <1>8, <2>3 DEF SendProgress, AfterSend
    <3>2. QED
      BY <1>1, <2>1, <2>3, <3>1, ShownKept DEF PCs
  <2>4. CASE op.pc = "send95"
    <3>1. op' = [op EXCEPT !.pc = "sync"]
      BY <1>8, <2>4 DEF SendProgress, AfterSend
    <3>2. QED
      BY <1>1, <2>1, <2>4, <3>1, ShownKept DEF PCs
  <2>5. CASE op.pc \in {"send100", "sendErr"}
    <3>1. op.pc \notin DOMAIN AfterSend
      BY <2>5 DEF AfterSend
    <3>2. op' = None
      BY <1>8, <3>1 DEF SendProgress
    <3>3. QED
      BY <3>2, NothingToShow
  <2>6. QED
    BY <1>8, <2>2, <2>3, <2>4, <2>5 DEF SendProgress, SendPCs
<1>9. CASE RemoveRecords
  <2>1. op'.pc = op.next /\ op.next \in {"unindex", "delete"}
    BY <1>1, <1>9 DEF RemoveRecords, Operation, IInv, OpConsistent
  <2>2. QED
    BY <2>1, NothingToShow
<1>10. CASE ClearIndexedAt \/ DeleteMetadata
  BY <1>10, NothingToShow DEF ClearIndexedAt, DeleteMetadata
<1>11. QED
  BY <1>2, <1>3, <1>4, <1>5, <1>6, <1>7, <1>8, <1>9, <1>10 DEF OpStep

LEMMA AckNext == IInv /\ AckProgress /\ [Next]_vars => AckProgress'
<1> SUFFICES ASSUME IInv, AckProgress, [Next]_vars PROVE AckProgress'
  OBVIOUS
<1>1. ASSUME UNCHANGED <<db, op>> PROVE AckProgress'
  BY <1>1 DEF AckProgress, OwnRecord, Known, db
<1>2. ASSUME NEW p \in Pieces, NEW d \in Deals, AddDealForPiece(p, d) PROVE AckProgress'
  BY <1>2, NothingToShow DEF AddDealForPiece
<1>3. ASSUME NEW p \in Pieces, NEW u \in Uuids, RemoveDealForPiece(p, u) PROVE AckProgress'
  <2>1. op' = None \/ op' = NewOp(p, "batch", "delete")
    BY <1>3 DEF RemoveDealForPiece
  <2>2. QED
    BY <2>1, NothingToShow DEF NewOp
<1>4. ASSUME NEW p \in Pieces, NEW recs \in SUBSET Hashes, NEW complete \in BOOLEAN,
             BeginAddIndex(p, recs, complete)
      PROVE  AckProgress'
  BY <1>4, NothingToShow DEF BeginAddIndex
<1>5. ASSUME NEW p \in Pieces, RemovePieceMetadata(p) \/ RemoveIndexes(p) PROVE AckProgress'
  BY <1>5, NothingToShow DEF RemovePieceMetadata, RemoveIndexes, NewOp
<1>6. CASE AddIndexFails
  <2>1. op' = [op EXCEPT !.pc = "sendErr"] /\ op \in Operation
    BY <1>6 DEF AddIndexFails, IInv, TypeOK
  <2>2. QED
    BY <2>1, NothingToShow DEF Operation
<1>7. CASE Interrupt
  BY <1>7, NothingToShow DEF Interrupt
<1>8. CASE OpStep
  BY <1>8, AckOpStep
<1>9. CASE UNCHANGED vars \/ ClientReceive \/ ClientGone
  BY <1>1, <1>9 DEF vars, ClientReceive, ClientGone, db
<1>10. QED
  BY <1>2, <1>3, <1>4, <1>5, <1>6, <1>7, <1>8, <1>9 DEF Next, RemoveDealOfUnknown

\* From the write of IndexedAt to the answer, every record AddIndex was given
\* can be read under the cursor of the piece and found by its multihash.
THEOREM AckedReadable == Spec => []AckedIndexReadable
<1>1. Init => AckProgress
  BY DEF Init, AckProgress
<1>2. IInv /\ AckProgress => AckedIndexReadable
  <2> SUFFICES ASSUME IInv, AckProgress, op # None, op.pc \in {"send95", "sync", "send100"}
               PROVE  /\ Known(op.piece)
                      /\ \A h \in op.recs :
                           /\ op.piece \in hashPieces[h]
                           /\ [cursor |-> metadata[op.piece].cursor, mh |-> h,
                               of |-> op.piece, sized |-> op.complete] \in GetIndex(op.piece)
    BY DEF AckedIndexReadable
  <2>1. Known(op.piece) /\ metadata[op.piece].cursor = op.md.cursor
    BY DEF AckProgress
  <2>2. ASSUME NEW h \in op.recs
        PROVE  op.piece \in hashPieces[h] /\ OwnRecord(h) \in GetIndex(op.piece)
    <3>1. op.piece \in hashPieces[h]
      BY DEF IInv, RecordHashes, AfterHashes
    <3>2. OwnRecord(h) \in records /\ OwnRecord(h).cursor = op.md.cursor
      BY DEF AckProgress, OwnRecord
    <3>3. QED
      BY <2>1, <3>1, <3>2 DEF GetIndex
  <2>3. QED
    BY <2>1, <2>2 DEF OwnRecord
<1>3. QED
  BY <1>1, <1>2, Invariance, AckNext, PTL DEF Spec

-----------------------------------------------------------------------------
(* LdbStore implements PieceIndex.  The refinement reads a piece's index   *)
(* through its cursor, and IInv says who else reads through it: the pieces *)
(* that share cursor 0, and nobody under an allocated one.  One more fact  *)
(* is needed: the metadata AddIndex is about to write for a new piece has  *)
(* no deals (NewHasNoDeals).  Each step is then one step of PieceIndex, or *)
(* leaves all of its variables alone.                                      *)

NewHasNoDeals == Writing /\ ~Known(op.piece) => op.md.deals = {}

RInv == IInv /\ NewHasNoDeals

-----------------------------------------------------------------------------
(* The strengthened invariant. *)

LEMMA NewHasNoDealsStep ==
  ASSUME RInv, [Next]_vars
  PROVE  NewHasNoDeals'
<1> USE DEF NewHasNoDeals, Writing, Known
<1>1. ASSUME UNCHANGED <<metadata, op>> PROVE NewHasNoDeals'
  BY <1>1 DEF RInv
<1>2. ASSUME op' = None \/ op'.pc \notin {"records", "send90", "metadata"}
      PROVE  NewHasNoDeals'
  BY <1>2

\* A write that keeps the operation's metadata.
<1>3. ASSUME UNCHANGED metadata, op \in Operation, op.pc \in {"records", "send90", "metadata"},
             op'.md = op.md, op'.piece = op.piece
      PROVE  NewHasNoDeals'
  BY <1>3, ConstantsAssumption DEF RInv
<1>4. op # None => op \in Operation
  BY DEF RInv, IInv, TypeOK
<1>5. ASSUME NEW p \in Pieces, NEW d \in Deals, AddDealForPiece(p, d) PROVE NewHasNoDeals'
  BY <1>2, <1>5 DEF AddDealForPiece
<1>6. ASSUME NEW p \in Pieces, NEW u \in Uuids, RemoveDealForPiece(p, u)
      PROVE  NewHasNoDeals'
  <2>1. op' = NewOp(p, "batch", "delete") \/ op' = None
    BY <1>6 DEF RemoveDealForPiece
  <2>2. QED
    BY <1>2, <2>1 DEF NewOp
<1>7. ASSUME NEW p \in Pieces, NEW recs \in SUBSET Hashes, NEW complete \in BOOLEAN,
             BeginAddIndex(p, recs, complete)
      PROVE  NewHasNoDeals'
  BY <1>2, <1>7 DEF BeginAddIndex
<1>8. ASSUME NEW p \in Pieces, RemovePieceMetadata(p) \/ RemoveIndexes(p)
      PROVE  NewHasNoDeals'
  BY <1>2, <1>8 DEF RemovePieceMetadata, RemoveIndexes, NewOp
<1>9. CASE SetMultihashesToPieceCid \/ SetIndexedAt \/ Sync \/ AddIndexFails \/ Interrupt
  BY <1>2, <1>4, <1>9
  DEF SetMultihashesToPieceCid, SetIndexedAt, Sync, AddIndexFails, Interrupt, Operation
<1>10. CASE UseCursor
  <2>1. op' = [op EXCEPT !.pc = "records", !.md = metadata[op.piece]] /\ op \in Operation
        /\ metadata[op.piece] # None /\ UNCHANGED metadata
    BY <1>4, <1>10 DEF UseCursor, db
  <2>2. op'.piece = op.piece
    BY <2>1 DEF Operation
  <2>3. QED
    BY <2>1, <2>2
<1>11. CASE AllocateCursor
  <2>1. op \in Operation
    BY <1>4, <1>11 DEF AllocateCursor
  <2>2. op'.md = [newLeveldbMetadata EXCEPT !.cursor = nextCursor,
                                           !.completeIndex = op.complete]
    BY <1>11, <2>1 DEF AllocateCursor, Operation
  <2>3. op'.md.deals = {}
    BY <2>2 DEF newLeveldbMetadata
  <2>4. QED
    BY <2>3
<1>12. ASSUME NEW h \in Hashes, AddIndexRecord(h) PROVE NewHasNoDeals'
  BY <1>3, <1>4, <1>12 DEF AddIndexRecord, Operation
<1>13. CASE RecordsDone
  BY <1>3, <1>4, <1>13 DEF RecordsDone, Operation, db
<1>14. CASE SendProgress
  <2>1. UNCHANGED metadata /\ op \in Operation
    BY <1>4, <1>14 DEF SendProgress, db
  <2>2. CASE op.pc \in {"send45", "send95"}
    <3>1. PICK pc \in {"cursor", "sync"} : op' = [op EXCEPT !.pc = pc]
      BY <1>14, <2>2 DEF SendProgress, AfterSend
    <3>2. op'.pc = pc
      BY <2>1, <3>1 DEF Operation
    <3>3. QED
      BY <1>2, <3>2
  <2>3. CASE op.pc = "send90"
    <3>1. op'.md = op.md /\ op'.piece = op.piece
      BY <1>14, <2>1, <2>3 DEF SendProgress, AfterSend, Operation
    <3>2. QED
      BY <1>3, <2>1, <2>3, <3>1
  <2>4. CASE op.pc \in {"send100", "sendErr"}
    <3>1. op.pc \notin DOMAIN AfterSend
      BY <2>4 DEF AfterSend
    <3>2. op' = None
      BY <1>14, <3>1 DEF SendProgress
    <3>3. QED
      BY <1>2, <3>2
  <2>5. QED
    BY <1>14, <2>2, <2>3, <2>4 DEF SendProgress, SendPCs
<1>15. CASE RemoveRecords
  <2>1. op'.pc \in {"unindex", "delete"}
    BY <1>4, <1>15 DEF RemoveRecords, Operation, RInv, IInv, OpConsistent
  <2>2. QED
    BY <1>2, <2>1
<1>16. CASE ClearIndexedAt \/ DeleteMetadata
  BY <1>2, <1>16 DEF ClearIndexedAt, DeleteMetadata
<1>17. CASE ClientReceive \/ ClientGone \/ UNCHANGED vars
  BY <1>1, <1>17 DEF ClientReceive, ClientGone, db, vars
<1>18. CASE OpStep
  BY <1>9, <1>10, <1>11, <1>12, <1>13, <1>14, <1>15, <1>16, <1>18 DEF OpStep
<1>19. ASSUME NEW p \in Pieces, RemoveDealOfUnknown(p) PROVE NewHasNoDeals'
  BY <1>17, <1>19 DEF RemoveDealOfUnknown
<1>20. QED
  BY <1>5, <1>6, <1>7, <1>8, <1>9, <1>17, <1>18, <1>19 DEF Next

LEMMA StrongInvariance == Spec => []RInv
<1>1. Init => RInv
  <2>1. Init => NewHasNoDeals
    BY DEF Init, NewHasNoDeals, Writing
  <2>2. QED
    BY <2>1, InitIInv DEF RInv
<1>2. RInv /\ [Next]_vars => RInv'
  BY NewHasNoDealsStep, NextIInv DEF RInv
<1>3. QED
  BY <1>1, <1>2, PTL DEF Spec

-----------------------------------------------------------------------------
(* What a step does to the variables of PieceIndex. *)

LEMMA NothingRead ==
  ASSUME UNCHANGED <<metadata, records>>
  PROVE  UNCHANGED <<DealsOf, IndexOf, Sharing>>
  BY DEF DealsOf, IndexOf, Sharing, GetIndex, Known

\* Rewriting metadata without its cursor leaves every index alone.
LEMMA CursorKept ==
  ASSUME NEW p \in Pieces, Known(p), IInv, NEW new \in Metadata,
         new.cursor = metadata[p].cursor,
         metadata' = [metadata EXCEPT ![p] = new], records' = records
  PROVE  /\ IndexOf' = IndexOf /\ Sharing' = Sharing
         /\ DealsOf' = [DealsOf EXCEPT ![p] = new.deals]
<1>1. metadata \in [Pieces -> Metadata \cup {None}] /\ new # None
  BY ConstantsAssumption DEF IInv, TypeOK
<1>2. \A q \in Pieces : GetIndex(q)' = GetIndex(q)
  BY <1>1 DEF GetIndex, Known
<1>3. \A q \in Pieces : DealsOf'[q] = IF q = p THEN new.deals ELSE DealsOf[q]
  BY <1>1 DEF DealsOf, Known
<1>4. DealsOf' = [DealsOf EXCEPT ![p] = new.deals]
  BY <1>3 DEF DealsOf
<1>5. Sharing' = Sharing
  BY <1>1 DEF Sharing, Known
<1>6. QED
  BY <1>2, <1>4, <1>5 DEF IndexOf

\* The pieces that share an index are those that share a cursor.
LEMMA GroupHasCursor ==
  ASSUME IInv, NEW p \in Pieces, Known(p), NEW q \in Pieces
  PROVE  q \in PI!Group(p) <=> Known(q) /\ metadata[q].cursor = metadata[p].cursor
  BY DEF IInv, CursorOwnership, Sharing, PI!Group

\* Everything under cursor 0 is read by some piece, if there is anything.
LEMMA SharedIndex ==
  ASSUME IInv
  PROVE  UNION {IndexOf[q] : q \in Sharing}
           = {[mh |-> r.mh, of |-> r.of] : r \in {s \in records : s.cursor = 0}}
<1> DEFINE Zero == {[mh |-> r.mh, of |-> r.of] : r \in {s \in records : s.cursor = 0}}
<1>1. \A q \in Sharing : IndexOf[q] = Zero
  BY DEF IndexOf, Sharing, GetIndex
<1>2. \A r \in records : r.cursor = 0 => r.of \in Sharing
  BY DEF IInv, RecordPlaces, TypeOK, Record, Sharing
<1>3. Zero # {} => Sharing # {}
  BY <1>2
<1> HIDE DEF Zero
<1>4. UNION {IndexOf[q] : q \in Sharing} = Zero
  BY <1>1, <1>3
<1>5. QED
  BY <1>4 DEF Zero

\* A deal of a piece the store does not know makes it join those of cursor 0.
LEMMA AddDealRefines ==
  ASSUME RInv, NEW p \in Pieces, NEW d \in Deals, AddDealForPiece(p, d)
  PROVE  PI!RecordDeal(p) \/ PI!JoinShared(p)
<1>1. records' = records /\ metadata \in [Pieces -> Metadata \cup {None}]
  BY DEF AddDealForPiece, RInv, IInv, TypeOK
<1>2. CASE Known(p)
  <2> DEFINE new == [metadata[p] EXCEPT !.deals = @ \cup {d}]
  <2>1. metadata' = [metadata EXCEPT ![p] = new]
    BY <1>2 DEF AddDealForPiece
  <2>2. metadata[p] \in Metadata
    BY <1>1, <1>2 DEF Known
  <2>3. new \in Metadata /\ new.cursor = metadata[p].cursor
        /\ new.deals = metadata[p].deals \cup {d}
    BY <2>2 DEF Metadata
  <2> HIDE DEF new
  <2>4. IndexOf' = IndexOf /\ Sharing' = Sharing
        /\ DealsOf' = [DealsOf EXCEPT ![p] = metadata[p].deals \cup {d}]
    BY <1>1, <1>2, <2>1, <2>3, CursorKept DEF RInv
  <2>5. DealsOf[p] = metadata[p].deals
    BY <1>2 DEF DealsOf
  <2>6. QED
    BY <2>4, <2>5 DEF PI!RecordDeal
<1>3. CASE ~Known(p)
  <2> DEFINE new == [newLeveldbMetadata EXCEPT !.deals = @ \cup {d}]
  <2>1. metadata' = [metadata EXCEPT ![p] = new]
    BY <1>3 DEF AddDealForPiece
  <2>2. new \in Metadata /\ new.cursor = 0 /\ new.deals = {d}
    BY DEF newLeveldbMetadata, Metadata
  <2> HIDE DEF new
  <2>3. new # None
    BY <2>2, ConstantsAssumption
  <2>4. metadata'[p] = new /\ \A q \in Pieces \ {p} : metadata'[q] = metadata[q]
    BY <1>1, <2>1
  <2>5. p \notin Sharing /\ DealsOf[p] = {} /\ IndexOf[p] = {}
    BY <1>3 DEF Sharing, DealsOf, IndexOf, GetIndex
  <2>6. Sharing' = Sharing \cup {p}
    BY <2>2, <2>3, <2>4 DEF Sharing, Known
  <2>7. DealsOf' = [DealsOf EXCEPT ![p] = {d}]
    BY <2>2, <2>3, <2>4 DEF DealsOf, Known
  <2>8. GetIndex(p)' = {s \in records : s.cursor = 0}
    BY <1>1, <2>2, <2>3, <2>4 DEF GetIndex, Known
  <2>9. \A q \in Pieces \ {p} : GetIndex(q)' = GetIndex(q)
    BY <1>1, <2>4 DEF GetIndex, Known
  <2>10. IndexOf'[p] = UNION {IndexOf[q] : q \in Sharing}
    BY <2>8, SharedIndex DEF IndexOf, RInv
  <2>11. IndexOf' = [IndexOf EXCEPT ![p] = UNION {IndexOf[q] : q \in Sharing}]
    BY <2>9, <2>10 DEF IndexOf
  <2>12. QED
    BY <2>5, <2>6, <2>7, <2>11 DEF PI!JoinShared
<1>4. QED
  BY <1>2, <1>3

LEMMA RemoveDealRefines ==
  ASSUME RInv, NEW p \in Pieces, NEW u \in Uuids, RemoveDealForPiece(p, u)
  PROVE  PI!ForgetDeal(p) \/ UNCHANGED <<DealsOf, IndexOf, Sharing>>
<1>1. Known(p) /\ metadata[p] \in Metadata /\ records' = records
  BY DEF RemoveDealForPiece, RInv, IInv, TypeOK, Known
<1>2. PICK rest \in Remaining(metadata[p].deals, u) :
        IF rest = {}
        THEN UNCHANGED metadata
        ELSE metadata' = [metadata EXCEPT ![p].deals = rest]
  BY DEF RemoveDealForPiece
<1>3. CASE UNCHANGED metadata
  BY <1>1, <1>3, NothingRead
<1>4. CASE metadata' = [metadata EXCEPT ![p].deals = rest]
  <2> DEFINE new == [metadata[p] EXCEPT !.deals = rest]
  <2>1. rest = metadata[p].deals
        \/ \E d \in metadata[p].deals : rest = metadata[p].deals \ {d}
    BY DEF Remaining
  <2>2. rest \in SUBSET Deals
    BY <1>1, <2>1 DEF Metadata
  <2>3. new \in Metadata /\ new.cursor = metadata[p].cursor /\ new.deals = rest
    BY <1>1, <2>2 DEF Metadata
  <2>4. metadata' = [metadata EXCEPT ![p] = new]
    BY <1>4
  <2> HIDE DEF new
  <2>5. IndexOf' = IndexOf /\ Sharing' = Sharing /\ DealsOf' = [DealsOf EXCEPT ![p] = rest]
    BY <1>1, <2>3, <2>4, CursorKept DEF RInv
  <2>6. DealsOf[p] = metadata[p].deals /\ DealsOf = [q \in Pieces |-> DealsOf[q]]
    BY <1>1 DEF DealsOf
  <2>7. CASE rest = metadata[p].deals
    BY <2>5, <2>6, <2>7
  <2>8. CASE \E d \in metadata[p].deals : rest = metadata[p].deals \ {d}
    BY <2>5, <2>6, <2>8 DEF PI!ForgetDeal
  <2>9. QED
    BY <2>1, <2>7, <2>8
<1>5. QED
  BY <1>2, <1>3, <1>4

\* A record put under the cursor of a piece with metadata extends its index,
\* and that of the pieces it shares it with; under a new cursor nobody reads
\* it yet.
LEMMA AddIndexRecordRefines ==
  ASSUME RInv, NEW h \in Hashes, AddIndexRecord(h)
  PROVE  (\E p \in Pieces : PI!ExtendIndex(p)) \/ UNCHANGED <<DealsOf, IndexOf, Sharing>>
<1>0. PICK p \in Pieces : p = op.piece
  BY OperationFields DEF AddIndexRecord, RInv, IInv, TypeOK
<1> DEFINE new == [cursor |-> op.md.cursor, mh |-> h, of |-> op.piece, sized |-> op.complete]
<1>1. op \in Operation /\ Writing /\ UNCHANGED metadata
  BY DEF AddIndexRecord, RInv, IInv, TypeOK, Writing
<1>2. records' = {r \in records : r.cursor # op.md.cursor \/ r.mh # h} \cup {new}
  BY DEF AddIndexRecord
<1>3. new.cursor = op.md.cursor /\ new.mh = h /\ new.of = p
  BY <1>0
<1> HIDE DEF new
<1>4. UNCHANGED <<DealsOf, Sharing>>
  BY <1>1 DEF DealsOf, Sharing, Known
<1>5. ASSUME NEW q \in Pieces, ~(Known(q) /\ metadata[q].cursor = op.md.cursor)
      PROVE  GetIndex(q)' = GetIndex(q)
  BY <1>1, <1>2, <1>3, <1>5 DEF GetIndex, Known
<1>6. CASE Known(p)
  <2>1. metadata[p].cursor = op.md.cursor
    BY <1>0, <1>1, <1>6 DEF RInv, IInv, OpConsistent
  <2>2. ASSUME NEW q \in Pieces, q \in PI!Group(p)
        PROVE  IndexOf'[q] = {e \in IndexOf[q] : e.mh \notin {h}} \cup [mh: {h}, of: {p}]
    <3>1. Known(q) /\ metadata[q].cursor = op.md.cursor
      BY <1>6, <2>1, <2>2, GroupHasCursor DEF RInv
    <3>2. GetIndex(q)' = {r \in GetIndex(q) : r.mh # h} \cup {new}
      BY <1>1, <1>2, <1>3, <3>1 DEF GetIndex, Known
    <3>3. [mh: {h}, of: {p}] = {[mh |-> new.mh, of |-> new.of]}
      <4>1. \A e \in [mh: {h}, of: {p}] : e = [mh |-> h, of |-> p]
        OBVIOUS
      <4>2. [mh |-> h, of |-> p] \in [mh: {h}, of: {p}]
        OBVIOUS
      <4>3. QED
        BY <1>3, <4>1, <4>2
    <3>4. QED
      BY <1>3, <3>2, <3>3 DEF IndexOf
  <2>3. ASSUME NEW q \in Pieces, q \notin PI!Group(p) PROVE IndexOf'[q] = IndexOf[q]
    <3>1. ~(Known(q) /\ metadata[q].cursor = op.md.cursor)
      BY <1>6, <2>1, <2>3, GroupHasCursor DEF RInv
    <3>2. GetIndex(q)' = GetIndex(q)
      BY <1>5, <3>1
    <3>3. QED
      BY <3>2 DEF IndexOf
  <2>4. IndexOf' = [q \in Pieces |->
          IF q \in PI!Group(p)
          THEN {e \in IndexOf[q] : e.mh \notin {h}} \cup [mh: {h}, of: {p}]
          ELSE IndexOf[q]]
    BY <2>2, <2>3 DEF IndexOf
  <2>5. PI!ExtendIndex(p)
    BY <1>4, <2>4 DEF PI!ExtendIndex
  <2>6. QED
    BY <2>5
<1>7. CASE ~Known(p)
  <2>1. op.md.cursor # 0
    BY <1>0, <1>1, <1>7 DEF RInv, IInv, OpConsistent
  <2>2. \A q \in Pieces : ~(Known(q) /\ metadata[q].cursor = op.md.cursor)
    BY <1>0, <1>1, <1>7, <2>1 DEF RInv, IInv, CursorOwnership
  <2>3. \A q \in Pieces : GetIndex(q)' = GetIndex(q)
    BY <1>5, <2>2
  <2>4. IndexOf' = IndexOf
    BY <2>3 DEF IndexOf
  <2>5. QED
    BY <1>4, <2>4
<1>8. QED
  BY <1>6, <1>7

\* The write of IndexedAt makes the index of a new piece readable at once, and
\* gives it a cursor that no other piece reads through.
LEMMA SetIndexedAtRefines ==
  ASSUME RInv, SetIndexedAt
  PROVE  (\E p \in Pieces : PI!ExtendIndex(p)) \/ UNCHANGED <<DealsOf, IndexOf, Sharing>>
<1>0. PICK p \in Pieces : p = op.piece
  BY OperationFields DEF SetIndexedAt, RInv, IInv, TypeOK
<1> DEFINE new == [op.md EXCEPT !.indexedAt = TRUE]
<1>1. op \in Operation /\ Writing /\ records' = records
      /\ metadata' = [metadata EXCEPT ![p] = new]
      /\ metadata \in [Pieces -> Metadata \cup {None}]
  BY <1>0 DEF SetIndexedAt, RInv, IInv, TypeOK, Writing
<1>2. op.md \in Metadata
  BY <1>0, <1>1, OperationFields
<1>3. new \in Metadata /\ new.cursor = op.md.cursor /\ new.deals = op.md.deals
  BY <1>2 DEF Metadata
<1>4. CASE Known(p)
  <2>1. op.md = metadata[p]
    BY <1>0, <1>1, <1>4 DEF RInv, IInv, OpConsistent
  <2> HIDE DEF new
  <2>2. IndexOf' = IndexOf /\ Sharing' = Sharing
        /\ DealsOf' = [DealsOf EXCEPT ![p] = new.deals]
    BY <1>1, <1>3, <1>4, <2>1, CursorKept DEF RInv
  <2>3. DealsOf[p] = new.deals /\ DealsOf = [q \in Pieces |-> DealsOf[q]]
    BY <1>3, <1>4, <2>1 DEF DealsOf
  <2>4. QED
    BY <2>2, <2>3
<1>5. CASE ~Known(p)
  <2>1. new.deals = {} /\ new.cursor # 0
    BY <1>0, <1>1, <1>3, <1>5 DEF RInv, NewHasNoDeals, IInv, OpConsistent
  <2>2. \A r \in records : r.cursor = new.cursor => r.of = p /\ r.mh \in Hashes
    BY <1>0, <1>1, <1>3, <2>1 DEF RInv, IInv, RecordOwners, TypeOK, Record
  <2> HIDE DEF new
  <2>3. new # None
    BY <1>3, ConstantsAssumption
  <2>4. metadata'[p] = new /\ \A q \in Pieces \ {p} : metadata'[q] = metadata[q]
    BY <1>1
  <2>5. \A q \in Pieces \ {p} : GetIndex(q)' = GetIndex(q) /\ DealsOf'[q] = DealsOf[q]
    BY <1>1, <2>4 DEF GetIndex, Known, DealsOf
  <2>6. GetIndex(p) = {} /\ GetIndex(p)' = {r \in records : r.cursor = new.cursor}
    BY <1>1, <1>5, <2>3, <2>4 DEF GetIndex, Known
  <2>7. UNCHANGED DealsOf
    <3>1. DealsOf'[p] = {} /\ DealsOf[p] = {}
      BY <1>5, <2>1, <2>3, <2>4 DEF DealsOf, Known
    <3>2. QED
      BY <2>5, <3>1 DEF DealsOf
  <2>8. UNCHANGED Sharing /\ p \notin Sharing
    BY <1>5, <2>1, <2>4 DEF Sharing, Known
  <2> DEFINE H == {r.mh : r \in {s \in records : s.cursor = new.cursor}}
             E == {[mh |-> r.mh, of |-> r.of] : r \in {s \in records : s.cursor = new.cursor}}
  <2>9. H \in SUBSET Hashes /\ E = [mh: H, of: {p}]
    <3>1. H \in SUBSET Hashes
      BY <2>2
    <3>2. E \subseteq [mh: H, of: {p}]
      BY <2>2
    <3>3. ASSUME NEW e \in [mh: H, of: {p}] PROVE e \in E
      <4>1. e = [mh |-> e.mh, of |-> p] /\ e.mh \in H
        OBVIOUS
      <4>2. PICK r \in records : r.cursor = new.cursor /\ r.mh = e.mh
        BY <4>1
      <4>3. r.of = p
        BY <2>2, <4>2
      <4>4. QED
        BY <4>1, <4>2, <4>3
    <3>4. QED
      BY <3>1, <3>2, <3>3
  <2>10. IndexOf[p] = {} /\ IndexOf'[p] = E
    BY <2>6 DEF IndexOf
  <2> HIDE DEF E, H
  <2>11. \A q \in Pieces \ {p} : IndexOf'[q] = IndexOf[q]
    BY <2>5 DEF IndexOf
  <2>12. IndexOf' = [q \in Pieces |->
           IF q \in PI!Group(p)
           THEN {e \in IndexOf[q] : e.mh \notin H} \cup [mh: H, of: {p}]
           ELSE IndexOf[q]]
    <3>1. PI!Group(p) = {p}
      BY <2>8 DEF PI!Group
    <3>2. IndexOf'[p] = {e \in IndexOf[p] : e.mh \notin H} \cup [mh: H, of: {p}]
      BY <2>9, <2>10
    <3>3. QED
      BY <2>11, <3>1, <3>2 DEF IndexOf
  <2>13. PI!ExtendIndex(p)
    BY <2>7, <2>8, <2>9, <2>12 DEF PI!ExtendIndex
  <2>14. QED
    BY <2>13
<1>6. QED
  BY <1>4, <1>5

\* The batch of a removal empties the index of its piece, and of the pieces it
\* shares it with.
LEMMA RemoveRecordsRefines ==
  ASSUME RInv, RemoveRecords
  PROVE  \E p \in Pieces : PI!ClearIndex(p)
<1>0. PICK p \in Pieces : p = op.piece
  BY OperationFields DEF RemoveRecords, RInv, IInv, TypeOK
<1>1. op \in Operation /\ Removing /\ UNCHANGED metadata
      /\ records' = {r \in records : r.cursor # op.md.cursor}
  BY DEF RemoveRecords, RInv, IInv, TypeOK, Removing
<1>2. op.md = metadata[p] /\ op.md \in Metadata
  BY <1>0, <1>1, OperationFields DEF RInv, IInv, OpConsistent
<1>3. Known(p)
  BY <1>2, ConstantsAssumption DEF Known
<1>4. ASSUME NEW q \in Pieces
      PROVE  IndexOf'[q] = IF q \in PI!Group(p) THEN {} ELSE IndexOf[q]
  <2>1. q \in PI!Group(p) <=> Known(q) /\ metadata[q].cursor = op.md.cursor
    BY <1>2, <1>3, GroupHasCursor DEF RInv
  <2>2. GetIndex(q)' = IF q \in PI!Group(p) THEN {} ELSE GetIndex(q)
    BY <1>1, <2>1 DEF GetIndex, Known
  <2>3. QED
    BY <2>2 DEF IndexOf
<1>5. IndexOf' = [q \in Pieces |-> IF q \in PI!Group(p) THEN {} ELSE IndexOf[q]]
  BY <1>4 DEF IndexOf
<1>6. UNCHANGED <<DealsOf, Sharing>>
  BY <1>1 DEF DealsOf, Sharing, Known
<1>7. QED
  BY <1>5, <1>6 DEF PI!ClearIndex

LEMMA ClearIndexedAtRefines ==
  ASSUME RInv, ClearIndexedAt
  PROVE  UNCHANGED <<DealsOf, IndexOf, Sharing>>
<1>0. PICK p \in Pieces : p = op.piece
  BY OperationFields DEF ClearIndexedAt, RInv, IInv, TypeOK
<1> DEFINE new == [op.md EXCEPT !.indexedAt = FALSE]
<1>1. op \in Operation /\ Removing /\ records' = records
      /\ metadata' = [metadata EXCEPT ![p] = new]
  BY <1>0 DEF ClearIndexedAt, RInv, IInv, TypeOK, Removing
<1>2. op.md = metadata[p] /\ op.md \in Metadata
  BY <1>0, <1>1, OperationFields DEF RInv, IInv, OpConsistent
<1>3. new \in Metadata /\ new.cursor = metadata[p].cursor /\ new.deals = metadata[p].deals
  BY <1>2 DEF Metadata
<1> HIDE DEF new
<1>4. Known(p)
  BY <1>2, ConstantsAssumption DEF Known
<1>5. IndexOf' = IndexOf /\ Sharing' = Sharing /\ DealsOf' = [DealsOf EXCEPT ![p] = new.deals]
  BY <1>1, <1>3, <1>4, CursorKept DEF RInv
<1>6. DealsOf[p] = new.deals /\ DealsOf = [q \in Pieces |-> DealsOf[q]]
  BY <1>3, <1>4 DEF DealsOf
<1>7. QED
  BY <1>5, <1>6

\* Metadata is deleted only after the index it leads to.
LEMMA DeleteMetadataRefines ==
  ASSUME RInv, DeleteMetadata
  PROVE  \E p \in Pieces : PI!ForgetPiece(p)
<1>0. PICK p \in Pieces : p = op.piece
  BY OperationFields DEF DeleteMetadata, RInv, IInv, TypeOK
<1>1. op \in Operation /\ op # None /\ op.pc = "delete" /\ records' = records
      /\ metadata' = [metadata EXCEPT ![p] = None]
      /\ metadata \in [Pieces -> Metadata \cup {None}]
  BY <1>0 DEF DeleteMetadata, RInv, IInv, TypeOK
<1>2. op.md = metadata[p] /\ \A r \in records : r.cursor # op.md.cursor
  BY <1>0, <1>1, OperationFields DEF RInv, IInv, OpConsistent, Removing
<1>3. GetIndex(p) = {} /\ GetIndex(p)' = {} /\ DealsOf'[p] = {}
  BY <1>1, <1>2 DEF GetIndex, Known, DealsOf
<1>4. \A q \in Pieces \ {p} : GetIndex(q)' = GetIndex(q) /\ DealsOf'[q] = DealsOf[q]
  BY <1>1 DEF GetIndex, Known, DealsOf
<1>5. IndexOf[p] = {} /\ UNCHANGED IndexOf
  BY <1>3, <1>4 DEF IndexOf
<1>6. DealsOf' = [DealsOf EXCEPT ![p] = {}]
  BY <1>3, <1>4 DEF DealsOf
<1>7. Sharing' = Sharing \ {p}
  BY <1>1 DEF Sharing, Known
<1>8. QED
  BY <1>5, <1>6, <1>7 DEF PI!ForgetPiece

-----------------------------------------------------------------------------
(* The refinement. *)

LEMMA NextRefines ==
  ASSUME RInv, [Next]_vars
  PROVE  [PI!PINext]_(PI!piVars)
<1> SUFFICES PI!PINext \/ UNCHANGED <<DealsOf, IndexOf, Sharing>>
  BY DEF PI!piVars
<1>1. ASSUME NEW p \in Pieces, NEW d \in Deals, AddDealForPiece(p, d) PROVE PI!PINext
  BY <1>1, AddDealRefines DEF PI!PINext
<1>2. ASSUME NEW p \in Pieces, NEW u \in Uuids, RemoveDealForPiece(p, u)
      PROVE  PI!PINext \/ UNCHANGED <<DealsOf, IndexOf, Sharing>>
  BY <1>2, RemoveDealRefines DEF PI!PINext
<1>3. ASSUME NEW p \in Pieces, NEW recs \in SUBSET Hashes, NEW complete \in BOOLEAN,
             BeginAddIndex(p, recs, complete)
      PROVE  UNCHANGED <<DealsOf, IndexOf, Sharing>>
  BY <1>3, NothingRead DEF BeginAddIndex, db
<1>4. ASSUME NEW p \in Pieces,
             RemovePieceMetadata(p) \/ RemoveIndexes(p) \/ RemoveDealOfUnknown(p)
      PROVE  UNCHANGED <<DealsOf, IndexOf, Sharing>>
  BY <1>4, NothingRead DEF RemovePieceMetadata, RemoveIndexes, RemoveDealOfUnknown, db, vars
<1>5. CASE ClientReceive \/ ClientGone \/ AddIndexFails \/ Interrupt \/ UNCHANGED vars
  BY <1>5, NothingRead DEF ClientReceive, ClientGone, AddIndexFails, Interrupt, db, vars
<1>6. CASE SetMultihashesToPieceCid \/ UseCursor \/ AllocateCursor
  BY <1>6, NothingRead DEF SetMultihashesToPieceCid, UseCursor, AllocateCursor, db
<1>7. CASE RecordsDone \/ Sync \/ SendProgress
  BY <1>7, NothingRead DEF RecordsDone, Sync, SendProgress, db
<1>8. CASE \E h \in Hashes : AddIndexRecord(h)
  BY <1>8, AddIndexRecordRefines DEF PI!PINext
<1>9. CASE SetIndexedAt
  BY <1>9, SetIndexedAtRefines DEF PI!PINext
<1>10. CASE RemoveRecords
  BY <1>10, RemoveRecordsRefines DEF PI!PINext
<1>11. CASE ClearIndexedAt
  BY <1>11, ClearIndexedAtRefines
<1>12. CASE DeleteMetadata
  BY <1>12, DeleteMetadataRefines DEF PI!PINext
<1>13. CASE OpStep
  BY <1>6, <1>7, <1>8, <1>9, <1>10, <1>11, <1>12, <1>13 DEF OpStep
<1>14. QED
  BY <1>1, <1>2, <1>3, <1>4, <1>5, <1>13 DEF Next

\* Every behaviour of the store is one the promise PieceIndex makes allows,
\* whatever fails, whenever the process dies, and whichever comes first of a
\* piece, its deals or its index.
THEOREM Refinement == Spec => ImplementsPieceIndex
<1>1. Init => PI!PIInit
  BY DEF Init, PI!PIInit, DealsOf, IndexOf, Sharing, GetIndex, Known
<1>2. RInv /\ [Next]_vars => [PI!PINext]_(PI!piVars)
  BY NextRefines
<1>3. QED
  BY <1>1, <1>2, StrongInvariance, PTL DEF Spec, ImplementsPieceIndex, PI!PISpec

-----------------------------------------------------------------------------
(* Entries of the multihash table that lead nowhere. *)

\* The AddIndex in flight has entered h for p, and will have the metadata of p
\* lead to the record of h before it ends.
Awaited(p, h) ==
  /\ op # None /\ op.pc \in {"send45", "cursor", "records", "send90", "metadata"}
  /\ op.piece = p
  /\ h \in op.recs

\* The multihash table is never ahead of the records by more than the AddIndex
\* in flight and the entries that were left behind.
EntriesLead ==
  \A p \in Pieces, h \in Hashes :
    p \in hashPieces[h] => Readable(p, h) \/ Awaited(p, h) \/ <<h, p>> \in leaked

\* A step that enters nothing and takes no record away.
LEMMA EntriesKept ==
  ASSUME EntriesLead, leaked \subseteq leaked', hashPieces' = hashPieces,
         \A p \in Pieces, h \in Hashes : Readable(p, h) => Readable(p, h)',
         \A p \in Pieces, h \in Hashes : Awaited(p, h) => Readable(p, h)' \/ Awaited(p, h)'
  PROVE  EntriesLead'
  BY DEF EntriesLead

LEMMA ReadableKept ==
  ASSUME UNCHANGED <<metadata, records>>, NEW p \in Pieces, NEW h \in Hashes, Readable(p, h)
  PROVE  Readable(p, h)'
  BY DEF Readable, GetIndex, Known

\* Rewriting the metadata of a piece without its cursor.
LEMMA RewriteKeepsReadable ==
  ASSUME RInv, NEW p \in Pieces, Known(p), NEW new \in Metadata,
         new.cursor = metadata[p].cursor,
         metadata' = [metadata EXCEPT ![p] = new], records' = records,
         NEW q \in Pieces, NEW h \in Hashes, Readable(q, h)
  PROVE  Readable(q, h)'
<1>1. metadata \in [Pieces -> Metadata \cup {None}] /\ new # None
  BY ConstantsAssumption DEF RInv, IInv, TypeOK
<1>2. QED
  BY <1>1 DEF Readable, GetIndex, Known

\* The program counter moves on and no index changes.
LEMMA EntriesKeptByMove ==
  ASSUME EntriesLead, op \in Operation, UNCHANGED <<leaked, hashPieces, metadata, records>>,
         op'.piece = op.piece, op'.recs = op.recs, op' # None,
         op.pc \in {"send45", "cursor", "records", "send90", "metadata"} =>
           op'.pc \in {"send45", "cursor", "records", "send90", "metadata"}
  PROVE  EntriesLead'
<1>1. \A p \in Pieces, h \in Hashes : Readable(p, h) => Readable(p, h)'
  BY ReadableKept
<1>2. \A p \in Pieces, h \in Hashes : Awaited(p, h) => Awaited(p, h)'
  BY DEF Awaited
<1>3. QED
  BY <1>1, <1>2, EntriesKept

\* Nobody waits for a record when the mutex is free, or for a removal.
LEMMA EntriesWithoutAdd ==
  ASSUME EntriesLead, UNCHANGED <<leaked, hashPieces, metadata, records>>,
         op = None \/ op.pc \in {"send100", "sendErr"}
  PROVE  EntriesLead'
<1>1. \A p \in Pieces, h \in Hashes : Readable(p, h) => Readable(p, h)'
  BY ReadableKept
<1>2. \A p \in Pieces, h \in Hashes : ~Awaited(p, h)
  BY DEF Awaited
<1>3. QED
  BY <1>1, <1>2, EntriesKept

LEMMA EntriesDealSteps ==
  ASSUME RInv, EntriesLead, NEW p \in Pieces,
         \/ \E d \in Deals : AddDealForPiece(p, d)
         \/ \E u \in Uuids : RemoveDealForPiece(p, u)
  PROVE  EntriesLead'
<1>1. ASSUME NEW deals \in SUBSET Deals, Known(p), op = None,
             metadata' = [metadata EXCEPT ![p] = [metadata[p] EXCEPT !.deals = deals]],
             UNCHANGED <<leaked, hashPieces, records>>
      PROVE  EntriesLead'
  <2> DEFINE new == [metadata[p] EXCEPT !.deals = deals]
  <2>1. metadata[p] \in Metadata
    BY <1>1 DEF RInv, IInv, TypeOK, Known
  <2>2. new \in Metadata /\ new.cursor = metadata[p].cursor
    BY <2>1 DEF Metadata
  <2>3. metadata' = [metadata EXCEPT ![p] = new]
    BY <1>1
  <2> HIDE DEF new
  <2>4. \A q \in Pieces, h \in Hashes : Readable(q, h) => Readable(q, h)'
    BY <1>1, <2>2, <2>3, RewriteKeepsReadable
  <2>5. \A q \in Pieces, h \in Hashes : ~Awaited(q, h)
    BY <1>1 DEF Awaited
  <2>6. QED
    BY <1>1, <2>4, <2>5, EntriesKept
<1>2. op = None /\ UNCHANGED <<leaked, hashPieces, records>>
      /\ metadata \in [Pieces -> Metadata \cup {None}]
  BY DEF AddDealForPiece, RemoveDealForPiece, RInv, IInv, TypeOK
<1>3. Known(p) => metadata[p] \in Metadata
  BY <1>2 DEF Known
<1>4. ASSUME NEW d \in Deals, AddDealForPiece(p, d) PROVE EntriesLead'
  <2>1. CASE Known(p)
    <3>1. metadata' = [metadata EXCEPT ![p] = [metadata[p] EXCEPT !.deals = @ \cup {d}]]
      BY <1>4, <2>1 DEF AddDealForPiece
    <3>2. metadata[p].deals \cup {d} \in SUBSET Deals
      BY <1>3, <2>1 DEF Metadata
    <3>3. QED
      BY <1>1, <1>2, <2>1, <3>1, <3>2
  <2>2. CASE ~Known(p)
    <3>1. \A q \in Pieces \ {p} : metadata'[q] = metadata[q]
      BY <1>2, <1>4 DEF AddDealForPiece
    <3>2. \A q \in Pieces, h \in Hashes : Readable(q, h) => Readable(q, h)'
      BY <1>2, <2>2, <3>1 DEF Readable, GetIndex, Known
    <3>3. \A q \in Pieces, h \in Hashes : ~Awaited(q, h)
      BY <1>2 DEF Awaited
    <3>4. QED
      BY <1>2, <3>2, <3>3, EntriesKept
  <2>3. QED
    BY <2>1, <2>2
<1>5. ASSUME NEW u \in Uuids, RemoveDealForPiece(p, u) PROVE EntriesLead'
  <2>1. PICK rest \in Remaining(metadata[p].deals, u) :
          IF rest = {}
          THEN UNCHANGED metadata
          ELSE metadata' = [metadata EXCEPT ![p].deals = rest]
    BY <1>5 DEF RemoveDealForPiece
  <2>2. Known(p) /\ rest \in SUBSET Deals
    BY <1>3, <1>5 DEF RemoveDealForPiece, Remaining, Metadata
  <2>3. CASE UNCHANGED metadata
    BY <1>2, <2>3, EntriesWithoutAdd
  <2>4. CASE metadata' = [metadata EXCEPT ![p].deals = rest]
    BY <1>1, <1>2, <2>2, <2>4
  <2>5. QED
    BY <2>1, <2>3, <2>4
<1>6. QED
  BY <1>4, <1>5

\* What AddIndex enters is awaited from then on.
LEMMA EntriesSetMultihashes ==
  ASSUME RInv, EntriesLead, SetMultihashesToPieceCid
  PROVE  EntriesLead'
<1>1. op \in Operation /\ op.pc = "hashes" /\ UNCHANGED <<leaked, metadata, records>>
      /\ hashPieces' = [h \in Hashes |->
           IF h \in op.recs THEN hashPieces[h] \cup {op.piece} ELSE hashPieces[h]]
  BY DEF SetMultihashesToPieceCid, RInv, IInv, TypeOK
<1>2. op'.pc = "send45" /\ op'.piece = op.piece /\ op'.recs = op.recs
  BY <1>1 DEF SetMultihashesToPieceCid, Operation
<1>3. op' # None
  BY <1>1, ConstantsAssumption DEF SetMultihashesToPieceCid, Operation, PCs, SendPCs
<1>4. ASSUME NEW p \in Pieces, NEW h \in Hashes, p \in hashPieces'[h]
      PROVE  Readable(p, h)' \/ Awaited(p, h)' \/ <<h, p>> \in leaked'
  <2>1. CASE p \in hashPieces[h]
    <3>1. ~Awaited(p, h)
      BY <1>1 DEF Awaited
    <3>2. QED
      BY <1>1, <1>4, <2>1, <3>1, ReadableKept DEF EntriesLead
  <2>2. CASE p \notin hashPieces[h]
    <3>1. h \in op.recs /\ p = op.piece
      BY <1>1, <1>4, <2>2
    <3>2. QED
      BY <1>2, <1>3, <3>1 DEF Awaited
  <2>3. QED
    BY <2>1, <2>2
<1>5. QED
  BY <1>1, <1>4 DEF EntriesLead

\* A record replaced is one of the same multihash.
LEMMA EntriesAddRecord ==
  ASSUME RInv, EntriesLead, NEW g \in Hashes, AddIndexRecord(g)
  PROVE  EntriesLead'
<1> DEFINE new == [cursor |-> op.md.cursor, mh |-> g, of |-> op.piece, sized |-> op.complete]
<1>1. op \in Operation /\ op # None /\ op.pc = "records"
      /\ UNCHANGED <<leaked, hashPieces, metadata>>
      /\ records' = {r \in records : r.cursor # op.md.cursor \/ r.mh # g} \cup {new}
  BY DEF AddIndexRecord, RInv, IInv, TypeOK
<1>2. op'.pc = "records" /\ op'.piece = op.piece /\ op'.recs = op.recs
  BY <1>1 DEF AddIndexRecord, Operation
<1>3. op' # None
  BY <1>1, ConstantsAssumption DEF AddIndexRecord, Operation
<1>4. new.cursor = op.md.cursor /\ new.mh = g
  OBVIOUS
<1> HIDE DEF new
<1>5. \A p \in Pieces, h \in Hashes : Readable(p, h) => Readable(p, h)'
  BY <1>1, <1>4 DEF Readable, GetIndex, Known
<1>6. \A p \in Pieces, h \in Hashes : Awaited(p, h) => Awaited(p, h)'
  BY <1>1, <1>2, <1>3 DEF Awaited
<1>7. QED
  BY <1>1, <1>5, <1>6, EntriesKept

\* With the metadata, what AddIndex entered is read under its cursor, and so is
\* what an earlier one had left behind of it.
LEMMA EntriesSetIndexedAt ==
  ASSUME RInv, AckProgress, EntriesLead, SetIndexedAt
  PROVE  EntriesLead'
<1>0. PICK p \in Pieces : p = op.piece
  BY OperationFields DEF SetIndexedAt, RInv, IInv, TypeOK
<1> DEFINE new == [op.md EXCEPT !.indexedAt = TRUE]
<1>1. op \in Operation /\ op # None /\ op.pc = "metadata" /\ Writing
      /\ UNCHANGED <<hashPieces, records>> /\ leaked' = leaked \ (op.recs \X {p})
      /\ metadata' = [metadata EXCEPT ![p] = new]
      /\ metadata \in [Pieces -> Metadata \cup {None}]
  BY <1>0 DEF SetIndexedAt, RInv, IInv, TypeOK, Writing
<1>2. op.md \in Metadata
  BY <1>1, OperationFields
<1>3. new \in Metadata /\ new.cursor = op.md.cursor
  BY <1>2 DEF Metadata
<1> HIDE DEF new
<1>4. new # None
  BY <1>3, ConstantsAssumption
<1>5. ASSUME NEW h \in Hashes, h \in op.recs PROVE Readable(p, h)'
  <2>1. OwnRecord(h) \in records
    BY <1>1, <1>5 DEF AckProgress
  <2>2. OwnRecord(h).cursor = op.md.cursor /\ OwnRecord(h).mh = h
    BY DEF OwnRecord
  <2>3. Known(p)' /\ metadata'[p].cursor = op.md.cursor
    BY <1>1, <1>3, <1>4 DEF Known
  <2>4. QED
    BY <1>1, <2>1, <2>2, <2>3 DEF Readable, GetIndex
<1>6. ASSUME NEW q \in Pieces, NEW h \in Hashes, Readable(q, h) PROVE Readable(q, h)'
  <2>1. Known(p) => op.md = metadata[p]
    BY <1>0, <1>1 DEF RInv, IInv, OpConsistent
  <2>2. QED
    BY <1>1, <1>3, <1>4, <1>6, <2>1 DEF Readable, GetIndex, Known
<1>7. ASSUME NEW q \in Pieces, NEW h \in Hashes, q \in hashPieces'[h]
      PROVE  Readable(q, h)' \/ Awaited(q, h)' \/ <<h, q>> \in leaked'
  <2>1. CASE Readable(q, h)
    BY <1>6, <2>1
  <2>2. CASE q = p /\ h \in op.recs
    BY <1>5, <2>2
  <2>3. CASE ~Readable(q, h) /\ ~(q = p /\ h \in op.recs)
    <3>1. <<h, q>> \in leaked
      BY <1>0, <1>1, <1>7, <2>3 DEF EntriesLead, Awaited
    <3>2. QED
      BY <1>1, <2>3, <3>1
  <2>4. QED
    BY <2>1, <2>2, <2>3
<1>8. QED
  BY <1>7 DEF EntriesLead

\* The batch takes the entries of the piece with the records.  Those that stay
\* lead to records of another cursor, or belong to a piece that shares this one.
LEMMA EntriesRemoveRecords ==
  ASSUME RInv, EntriesLead, RemoveRecords
  PROVE  EntriesLead'
<1>0. PICK p \in Pieces : p = op.piece
  BY OperationFields DEF RemoveRecords, RInv, IInv, TypeOK
<1> DEFINE c == op.md.cursor
<1>1. op \in Operation /\ op.pc = "batch" /\ UNCHANGED metadata
      /\ records' = {r \in records : r.cursor # c}
      /\ hashPieces' = [h \in Hashes |->
           IF h \in HashesUnder(c) THEN hashPieces[h] \ {p} ELSE hashPieces[h]]
      /\ leaked' = (leaked \ (HashesUnder(c) \X {p})) \cup LeftBehind(p, c)
  BY <1>0 DEF RemoveRecords, RInv, IInv, TypeOK
<1>2. \A q \in Pieces, h \in Hashes : ~Awaited(q, h)
  BY <1>1 DEF Awaited
<1>3. ASSUME NEW q \in Pieces, NEW h \in Hashes, q \in hashPieces'[h]
      PROVE  Readable(q, h)' \/ <<h, q>> \in leaked'
  <2>1. q \in hashPieces[h] /\ (h \in HashesUnder(c) => q # p)
    BY <1>1, <1>3
  <2>2. CASE Readable(q, h)
    <3>1. PICK r \in records : Known(q) /\ r.cursor = metadata[q].cursor /\ r.mh = h
      BY <2>2 DEF Readable, GetIndex
    <3>2. CASE r.cursor # c
      BY <1>1, <3>1, <3>2 DEF Readable, GetIndex, Known
    <3>3. CASE r.cursor = c
      <4>1. h \in HashesUnder(c)
        BY <3>1, <3>3 DEF HashesUnder
      <4>2. <<h, q>> \in LeftBehind(p, c)
        BY <2>1, <3>1, <3>3, <4>1 DEF LeftBehind
      <4>3. QED
        BY <1>1, <4>2
    <3>4. QED
      BY <3>2, <3>3
  <2>3. CASE <<h, q>> \in leaked
    BY <1>1, <2>1, <2>3
  <2>4. QED
    BY <1>2, <2>1, <2>2, <2>3 DEF EntriesLead
<1>4. QED
  BY <1>3 DEF EntriesLead

LEMMA EntriesEndRemoval ==
  ASSUME RInv, EntriesLead, ClearIndexedAt \/ DeleteMetadata
  PROVE  EntriesLead'
<1>0. PICK p \in Pieces : p = op.piece
  BY OperationFields DEF ClearIndexedAt, DeleteMetadata, RInv, IInv, TypeOK
<1>1. op \in Operation /\ op.pc \in {"unindex", "delete"} /\ Removing
      /\ UNCHANGED <<leaked, hashPieces, records>>
      /\ metadata \in [Pieces -> Metadata \cup {None}]
  BY DEF ClearIndexedAt, DeleteMetadata, RInv, IInv, TypeOK, Removing
<1>2. op.md = metadata[p] /\ op.md \in Metadata
      /\ \A r \in records : r.cursor # op.md.cursor
  BY <1>0, <1>1, OperationFields DEF RInv, IInv, OpConsistent
<1>3. \A q \in Pieces \ {p} : metadata'[q] = metadata[q]
  BY <1>0, <1>1 DEF ClearIndexedAt, DeleteMetadata
<1>4. \A h \in Hashes : ~Readable(p, h)
  BY <1>2 DEF Readable, GetIndex
<1>5. \A q \in Pieces, h \in Hashes : Readable(q, h) => Readable(q, h)'
  BY <1>1, <1>3, <1>4 DEF Readable, GetIndex, Known
<1>6. \A q \in Pieces, h \in Hashes : ~Awaited(q, h)
  BY <1>1 DEF Awaited
<1>7. QED
  BY <1>1, <1>5, <1>6, EntriesKept

\* What a failing or dying AddIndex has entered and not written is left behind.
LEMMA EntriesCut ==
  ASSUME RInv, EntriesLead, AddIndexFails \/ Interrupt
  PROVE  EntriesLead'
<1>1. UNCHANGED <<hashPieces, metadata, records>> /\ leaked' = leaked \cup Unread
  BY DEF AddIndexFails, Interrupt, db
<1>2. ASSUME NEW p \in Pieces, NEW h \in Hashes, p \in hashPieces[h]
      PROVE  Readable(p, h)' \/ <<h, p>> \in leaked'
  <2>1. CASE Readable(p, h)
    BY <1>1, <2>1, ReadableKept
  <2>2. CASE ~Readable(p, h) /\ Awaited(p, h)
    <3>1. <<h, p>> \in Unread
      BY <1>2, <2>2 DEF Unread, Awaited
    <3>2. QED
      BY <1>1, <3>1
  <2>3. QED
    BY <1>1, <1>2, <2>1, <2>2 DEF EntriesLead
<1>3. QED
  BY <1>1, <1>2 DEF EntriesLead

LEMMA EntriesNext ==
  ASSUME RInv, AckProgress, EntriesLead, [Next]_vars
  PROVE  EntriesLead'
<1>1. op # None => op \in Operation
  BY DEF RInv, IInv, TypeOK
<1>2. ASSUME NEW p \in Pieces,
             \/ \E recs \in SUBSET Hashes, complete \in BOOLEAN : BeginAddIndex(p, recs, complete)
             \/ RemovePieceMetadata(p) \/ RemoveIndexes(p)
      PROVE  EntriesLead'
  BY <1>2, EntriesWithoutAdd DEF BeginAddIndex, RemovePieceMetadata, RemoveIndexes, db
<1>3. CASE AddIndexFails \/ Interrupt
  BY <1>3, EntriesCut
<1>4. CASE UseCursor \/ AllocateCursor
  <2>1. op \in Operation /\ op.pc = "cursor"
        /\ UNCHANGED <<leaked, hashPieces, metadata, records>>
    BY <1>1, <1>4 DEF UseCursor, AllocateCursor, db
  <2>2. PICK md \in Metadata : op' = [op EXCEPT !.pc = "records", !.md = md]
    <3>1. CASE UseCursor
      BY <2>1, <3>1, OperationFields DEF UseCursor, Known, RInv, IInv, TypeOK
    <3>2. CASE AllocateCursor
      <4>1. [newLeveldbMetadata EXCEPT !.cursor = nextCursor,
                                       !.completeIndex = op.complete] \in Metadata
        BY <2>1, OperationFields DEF newLeveldbMetadata, Metadata, RInv, IInv, TypeOK
      <4>2. QED
        BY <3>2, <4>1 DEF AllocateCursor
    <3>3. QED
      BY <1>4, <3>1, <3>2
  <2>3. op'.pc = "records" /\ op'.piece = op.piece /\ op'.recs = op.recs /\ op' # None
    BY <2>1, <2>2, ConstantsAssumption DEF Operation, PCs
  <2>4. QED
    BY <2>1, <2>3, EntriesKeptByMove
<1>5. CASE RecordsDone \/ Sync
  <2>1. op \in Operation /\ UNCHANGED <<leaked, hashPieces, metadata, records>>
    BY <1>1, <1>5 DEF RecordsDone, Sync, db
  <2>2. PICK pc \in {"send90", "send100"} :
          op' = [op EXCEPT !.pc = pc] /\ op.pc = (IF pc = "send90" THEN "records" ELSE "sync")
    BY <1>5 DEF RecordsDone, Sync
  <2>3. op'.pc = pc /\ op'.piece = op.piece /\ op'.recs = op.recs /\ op' # None
    BY <2>1, <2>2, ConstantsAssumption DEF Operation, PCs, SendPCs
  <2>4. QED
    BY <2>1, <2>2, <2>3, EntriesKeptByMove
<1>6. CASE SendProgress
  <2>1. op \in Operation /\ UNCHANGED <<leaked, hashPieces, metadata, records>>
    BY <1>1, <1>6 DEF SendProgress, db
  <2>2. CASE op.pc \in {"send45", "send90", "send95"}
    <3>1. PICK pc \in {"cursor", "metadata", "sync"} :
            op' = [op EXCEPT !.pc = pc] /\ (op.pc # "send95" => pc # "sync")
      BY <1>6, <2>2 DEF SendProgress, AfterSend
    <3>2. op'.pc = pc /\ op'.piece = op.piece /\ op'.recs = op.recs /\ op' # None
      BY <2>1, <3>1, ConstantsAssumption DEF Operation, PCs
    <3>3. QED
      BY <2>1, <2>2, <3>1, <3>2, EntriesKeptByMove
  <2>3. CASE op.pc \in {"send100", "sendErr"}
    BY <2>1, <2>3, EntriesWithoutAdd
  <2>4. QED
    BY <1>6, <2>2, <2>3 DEF SendProgress, SendPCs
<1>7. CASE ClientReceive \/ ClientGone \/ UNCHANGED vars
  <2>1. UNCHANGED <<leaked, hashPieces, metadata, records, op>>
    BY <1>7 DEF ClientReceive, ClientGone, db, vars
  <2>2. QED
    BY <2>1 DEF EntriesLead, Readable, Awaited, GetIndex, Known
<1>8. CASE OpStep
  BY <1>4, <1>5, <1>6, <1>8, EntriesSetMultihashes, EntriesAddRecord, EntriesSetIndexedAt,
     EntriesRemoveRecords, EntriesEndRemoval DEF OpStep
<1>9. QED
  BY <1>2, <1>3, <1>7, <1>8, EntriesDealSteps DEF Next, RemoveDealOfUnknown

\* Whatever fails and whichever comes first of a piece, its deals or its index,
\* an entry of the multihash table of an idle store leads to a record its piece
\* can read, or is one that a cut AddIndex or the removal of a piece with the
\* same shared cursor left behind and that nothing has repaired since.
THEOREM NothingDangles == Spec => []DanglingExplained
<1>1. Init => AckProgress /\ EntriesLead
  BY DEF Init, AckProgress, EntriesLead
<1>2. RInv /\ AckProgress /\ EntriesLead /\ [Next]_vars => AckProgress' /\ EntriesLead'
  BY AckNext, EntriesNext DEF RInv
<1>3. RInv /\ EntriesLead => DanglingExplained
  BY DEF RInv, IInv, TypeOK, EntriesLead, DanglingExplained, Awaited
<1>4. QED
  BY <1>1, <1>2, <1>3, StrongInvariance, PTL DEF Spec

=============================================================================
