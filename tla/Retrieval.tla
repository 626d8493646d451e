----------------------------- MODULE Retrieval -----------------------------
(***************************************************************************)
(* Reading blocks through the piece directory: BlockstoreGet,              *)
(* BlockstoreGetSize and GetBlockstore (lib/boost/piecedirectory), down to *)
(* the caching sector accessor (lib/boost/markets/sectoraccessor).         *)
(*                                                                         *)
(* A call tries the pieces that hold the block, and for each of them the   *)
(* deals, until one serves it.  The index and the sectors change while it  *)
(* does.  Shared readers are in SharedReader; here a piece has one, is     *)
(* getting one, or has one that failed, and it goes when nobody waits for  *)
(* it.  A byte is named by its offset in the piece; a byte that is in no   *)
(* piece is -1.                                                            *)
(***************************************************************************)
EXTENDS Integers, Sequences, FiniteSetsExt

CONSTANTS
  Callers,
  Pieces, Blocks, Deals,
  PieceOf,    \* the piece of each deal
  SectorOf,   \* the sector of each deal
  StripeOf,   \* the lock of each sector
  Registered, \* the deals of the miners that have an endpoint
  Complete,   \* the pieces whose index says it is complete
  Empty,      \* the blocks of size zero
  Identity,   \* the blocks that are in their CID
  DataOffset, \* of each piece: the offset of the payload of a CARv2, 0 for a CARv1
  HeaderLen,  \* the length of the CARv1 header of the payload
  PieceLen,   \* the length of a piece, all of it payload from DataOffset on
  None,
  MaxCalls,   \* bound: calls
  MaxEvents   \* bound: failures, and changes of index or sectors

Sectors == {SectorOf[d] : d \in Deals}
Stripes == {StripeOf[s] : s \in Sectors}

ASSUME RetrievalAssumption ==
  /\ PieceOf \in [Deals -> Pieces]
  /\ Sectors \subseteq DOMAIN StripeOf
  /\ Registered \subseteq Deals
  /\ Complete \subseteq Pieces /\ Empty \subseteq Blocks /\ Identity \subseteq Blocks
  /\ DataOffset \in [Pieces -> Nat]
  /\ HeaderLen \in Nat \ {0}
  /\ PieceLen \in Nat
  /\ \A p \in Pieces : DataOffset[p] + HeaderLen <= PieceLen
  /\ MaxCalls \in Nat /\ MaxEvents \in Nat
  /\ None \notin Callers \cup {"filling", "ok", "err"}

VARIABLES
  located,  \* the multihash table, as pairs of a block and a piece
  records,  \* the index: what is at the offset of a block, and if its size is above 0
  unsealed, \* the deals whose range of the sector is unsealed
  cache,    \* IsUnsealed of each sector, None without an entry
  lock,     \* stripedLock: who holds it
  shared,   \* the shared reader of each piece
  call,     \* what each caller is at
  calls, events,
  kept      \* history: the deals that could have served each call ever since it began

tables == <<located, records>>
sectors == <<unsealed, cache>>
vars == <<tables, sectors, lock, shared, call, calls, events, kept>>

Record == [at: Blocks, sized: BOOLEAN]

PCs == {"list", "piece", "shared", "wait", "deals", "cached", "lock", "ask", "open",
        "offset", "read", "size", "complete", "build", "sizeAgain", "index", "layout"}

\* Where a call has a deal in hand, and where it looks for a reader of its piece.
DealPCs == {"cached", "lock", "ask", "open"}
TryPCs == {"deals"} \cup DealPCs

Ops == {"get", "size", "view"}

\* pieces, deals: those still to try.
Call == [pc: PCs, op: Ops, block: Blocks \cup {None}, pieces: SUBSET Pieces,
         piece: Pieces \cup {None}, deals: SUBSET Deals, deal: Deals \cup {None},
         at: Blocks \cup {None}]

NoCall == [pc |-> "idle"]

Failed == [kind |-> "failed"]

Result == {Failed} \cup [kind: {"block"}, block: Blocks] \cup [kind: {"size"}, sized: BOOLEAN]
            \cup [kind: {"store"}]

Returned == [pc: {"returned"}, op: Ops, block: Blocks \cup {None}, piece: Pieces \cup {None},
             result: Result]

\* Every block is in every piece; the index of an incomplete piece has no sizes.
Init ==
  /\ located = Blocks \X Pieces
  /\ records = [p \in Pieces |->
                  [b \in Blocks |-> [at |-> b, sized |-> p \in Complete /\ b \notin Empty]]]
  /\ unsealed = Deals
  /\ cache = [s \in Sectors |-> None]
  /\ lock = [t \in Stripes |-> None]
  /\ shared = [p \in Pieces |-> None]
  /\ call = [c \in Callers |-> NoCall]
  /\ calls = 0
  /\ events = 0
  /\ kept = [c \in Callers |-> {}]

-----------------------------------------------------------------------------
At(c, pc) == call[c].pc = pc

Goto(c, pc) == call' = [call EXCEPT ![c].pc = pc]

Return(c, result) ==
  call' = [call EXCEPT ![c] = [pc |-> "returned", op |-> @.op, block |-> @.block,
                               piece |-> @.piece, result |-> result]]

Event == events < MaxEvents /\ events' = events + 1

CallOnly == UNCHANGED <<tables, sectors, lock, shared, calls, events>>

DealsOf(p) == {d \in Deals : PieceOf[d] = p}

\* The call goes on with the next piece; a view has no other.
PieceFails(c) ==
  IF call[c].pieces = {} THEN Return(c, Failed) ELSE Goto(c, "piece")

\* A block in its CID is needed in no piece, but only BlockstoreGet knows.
ListFails(c) ==
  LET b == call[c].block IN
  Return(c, IF b \in Identity /\ call[c].op = "get" THEN [kind |-> "block", block |-> b]
            ELSE Failed)

-----------------------------------------------------------------------------
(* The calls.                                                              *)

Begin(c, op, b, p, pc) ==
  /\ At(c, "idle")
  /\ calls < MaxCalls
  /\ calls' = calls + 1
  /\ call' = [call EXCEPT ![c] = [pc |-> pc, op |-> op, block |-> b, pieces |-> {}, piece |-> p,
                                  deals |-> {d \in Deals : PieceOf[d] = p}, deal |-> None,
                                  at |-> None]]
  /\ UNCHANGED <<tables, sectors, lock, shared, events>>

BlockstoreGet(c) == \E b \in Blocks : Begin(c, "get", b, None, "list")

BlockstoreGetSize(c) == \E b \in Blocks : Begin(c, "size", b, None, "list")

\* The reader of GetBlockstore is not shared.
GetBlockstore(c) == \E p \in Pieces : Begin(c, "view", None, p, "deals")

\* For a multihash that is in no piece the store returns an error.
PiecesContainingMultihash(c) ==
  LET P == {p \in Pieces : <<call[c].block, p>> \in located} IN
  /\ At(c, "list")
  /\ IF P # {} THEN call' = [call EXCEPT ![c].pc = "piece", ![c].pieces = P] ELSE ListFails(c)
  /\ CallOnly

NextPiece(c) ==
  /\ At(c, "piece")
  /\ \E p \in call[c].pieces :
       call' = [call EXCEPT ![c].piece = p, ![c].pieces = @ \ {p}, ![c].deals = DealsOf(p),
                            ![c].pc = IF call[c].op = "get" THEN "shared" ELSE "size"]
  /\ CallOnly

-----------------------------------------------------------------------------
(* The reader.                                                             *)

GetSharedPieceReader(c) ==
  LET p == call[c].piece IN
  /\ At(c, "shared")
  /\ IF shared[p] = None
     THEN shared' = [shared EXCEPT ![p] = "filling"] /\ Goto(c, "deals")
     ELSE Goto(c, "wait") /\ UNCHANGED shared
  /\ UNCHANGED <<tables, sectors, lock, calls, events>>

AwaitReader(c) ==
  LET p == call[c].piece IN
  /\ At(c, "wait")
  /\ shared[p] # "filling"
  /\ IF shared[p] = "err" THEN PieceFails(c) ELSE Goto(c, "offset")
  /\ CallOnly

\* The reader of a piece is there, or none of its deals gave one.
GotReader(c, ok) ==
  /\ IF call[c].op = "view" THEN UNCHANGED shared
     ELSE shared' = [shared EXCEPT ![call[c].piece] = IF ok THEN "ok" ELSE "err"]
  /\ IF ~ok THEN PieceFails(c)
     ELSE Goto(c, IF call[c].op = "view" THEN "index" ELSE "offset")

\* MultiMinerAccessor.GetReader.
GetReader(d) == IF d \in Registered THEN "cached" ELSE "deals"

TryDeal(c) ==
  /\ \E d \in call[c].deals :
       call' = [call EXCEPT ![c].deal = d, ![c].deals = @ \ {d}, ![c].pc = GetReader(d)]
  /\ UNCHANGED shared

\* Mutant: only the first deal is tried.
NextDealOnce(c) ==
  /\ At(c, "deals")
  /\ IF call[c].deals # DealsOf(call[c].piece) THEN GotReader(c, FALSE) ELSE TryDeal(c)
  /\ UNCHANGED <<tables, sectors, lock, calls, events>>

\* GetPieceReader: the next deal, until one gives a reader.
NextDeal(c) ==
  /\ At(c, "deals")
  /\ IF call[c].deals = {} THEN GotReader(c, FALSE) ELSE TryDeal(c)
  /\ UNCHANGED <<tables, sectors, lock, calls, events>>

Sector(c) == SectorOf[call[c].deal]

\* Where an answer of IsUnsealed takes GetReader.
AfterIsUnsealed(yes) == IF yes THEN "open" ELSE "deals"

\* CachingSectorAccessor.IsUnsealed: what the cache says holds for the whole sector.
IsUnsealedCached(c) ==
  LET s == Sector(c) IN
  /\ At(c, "cached")
  /\ Goto(c, IF cache[s] = None THEN "lock" ELSE AfterIsUnsealed(cache[s]))
  /\ CallOnly

\* Another caller may have filled the cache while this one waited for the lock.
TakeLock(c) ==
  LET s == Sector(c) IN
  /\ At(c, "lock")
  /\ lock[StripeOf[s]] = None
  /\ IF cache[s] # None
     THEN Goto(c, AfterIsUnsealed(cache[s])) /\ UNCHANGED lock
     ELSE Goto(c, "ask") /\ lock' = [lock EXCEPT ![StripeOf[s]] = c]
  /\ UNCHANGED <<tables, sectors, shared, calls, events>>

Unlock(c) == lock' = [lock EXCEPT ![StripeOf[Sector(c)]] = None]

\* The range of this deal's piece is asked for, and the answer kept for the sector.
IsUnsealed(c) ==
  LET yes == call[c].deal \in unsealed IN
  /\ At(c, "ask")
  /\ cache' = [cache EXCEPT ![Sector(c)] = yes]
  /\ Unlock(c)
  /\ Goto(c, AfterIsUnsealed(yes))
  /\ UNCHANGED <<tables, unsealed, shared, calls, events>>

\* Mutant: an error returns with the lock taken.
IsUnsealedFailsLocked(c) ==
  /\ At(c, "ask")
  /\ Event
  /\ Goto(c, "deals")
  /\ UNCHANGED <<tables, sectors, lock, shared, calls>>

IsUnsealedFails(c) ==
  /\ At(c, "ask")
  /\ Event
  /\ Unlock(c)
  /\ Goto(c, "deals")
  /\ UNCHANGED <<tables, sectors, shared, calls>>

\* A range that is not unsealed, though the cache says so, is unsealed for the reader, or
\* cannot be.
UnsealSectorAt(c) ==
  /\ At(c, "open")
  /\ \/ GotReader(c, TRUE)
     \/ /\ call[c].deal \notin unsealed
        /\ Goto(c, "deals") /\ UNCHANGED shared
  /\ UNCHANGED <<tables, sectors, lock, calls, events>>

-----------------------------------------------------------------------------
(* BlockstoreGet and BlockstoreGetSize, with a piece.                      *)

RecordOf(c) == records[call[c].piece][call[c].block]

GetOffsetSize(c) ==
  /\ At(c, "offset")
  /\ IF RecordOf(c) = None THEN PieceFails(c)
     ELSE call' = [call EXCEPT ![c].at = RecordOf(c).at, ![c].pc = "read"]
  /\ CallOnly

\* The block at the offset must have the multihash that was asked for.
ReadNode(c) ==
  /\ At(c, "read")
  /\ IF call[c].at = call[c].block THEN Return(c, [kind |-> "block", block |-> call[c].at])
     ELSE PieceFails(c)
  /\ CallOnly

\* Opening or reading the data fails, or its layout is not what it should be.
ReadFails(c) ==
  /\ At(c, "open") \/ At(c, "read") \/ At(c, "layout")
  /\ Event
  /\ IF At(c, "open") THEN Goto(c, "deals") ELSE PieceFails(c)
  /\ UNCHANGED <<tables, sectors, lock, shared, calls>>

SizeResult(r) == [kind |-> "size", sized |-> r.sized]

GetSize(c) ==
  /\ At(c, "size")
  /\ IF RecordOf(c) = None THEN PieceFails(c)
     ELSE IF RecordOf(c).sized THEN Return(c, SizeResult(RecordOf(c)))
     ELSE Goto(c, "complete")
  /\ CallOnly

\* In a complete index a size of zero is a size.
IsCompleteIndex(c) ==
  /\ At(c, "complete")
  /\ IF call[c].piece \in Complete THEN Return(c, [kind |-> "size", sized |-> FALSE])
     ELSE Goto(c, "build")
  /\ CallOnly

\* BuildIndexForPiece, which stores nothing (PieceDirectory).
BuildIndexForPiece(c) ==
  /\ At(c, "build")
  /\ Goto(c, "sizeAgain") \/ PieceFails(c)
  /\ CallOnly

GetSizeAgain(c) ==
  /\ At(c, "sizeAgain")
  /\ IF RecordOf(c) = None THEN PieceFails(c) ELSE Return(c, SizeResult(RecordOf(c)))
  /\ CallOnly

-----------------------------------------------------------------------------
(* GetBlockstore, with a reader.                                           *)

\* The bytes from..to-1 of the piece.
Bytes(from, to) == [i \in 1..(to - from) |-> from + i - 1]

\* The parts of the reader over a CARv2: the header of the payload, a gap up to where the
\* payload begins, and the payload after its header.  A CARv1 is read as it is.
Parts(p) ==
  LET D == DataOffset[p] IN
  IF D = 0 THEN << Bytes(0, PieceLen) >>
  ELSE << Bytes(D, D + HeaderLen), [i \in 1..D |-> -1], Bytes(D + HeaderLen, PieceLen) >>

\* NewMultiReaderAt: where each part begins.
Offset(parts) ==
  LET off[k \in DOMAIN parts] == IF k = 1 THEN 0 ELSE off[k - 1] + Len(parts[k - 1]) IN off

\* The parts that contribute to a read at off.
PartsFrom(parts, off) == {k \in DOMAIN parts : Offset(parts)[k] + Len(parts[k]) > off}

\* Mutant: what is skipped in the first part is skipped in the others, too.
ReadPartSkipping(parts, off, len, got, k) ==
  LET K    == PartsFrom(parts, off)
      skip == off - Offset(parts)[Min(K)]
      end  == Min({Len(parts[k]), skip + len - Len(got)})
  IN IF k \notin K THEN got ELSE got \o SubSeq(parts[k], skip + 1, end)

\* After got comes the rest of the first part that reaches past off, and of the parts after
\* it as much as is wanted.
ReadPart(parts, off, len, got, k) ==
  LET K    == PartsFrom(parts, off)
      skip == IF k - 1 \in K THEN 0 ELSE off - Offset(parts)[k]
      end  == Min({Len(parts[k]), skip + len - Len(got)})
  IN IF k \notin K THEN got ELSE got \o SubSeq(parts[k], skip + 1, end)

\* multiReaderAt.ReadAt, with what the first k parts give.  If the last part reports io.EOF
\* together with its last bytes (eof), ReadAt returns the error and does not count them.
ReadAt(parts, off, len, eof) ==
  LET n == Len(parts)
      got[k \in 0..n] == IF k = 0 THEN <<>> ELSE ReadPart(parts, off, len, got[k - 1], k)
  IN IF eof /\ off + len >= Offset(parts)[n] + Len(parts[n]) THEN got[n - 1] ELSE got[n]

GetIterableIndex(c) ==
  LET p == call[c].piece IN
  /\ At(c, "index")
  /\ IF \A b \in Blocks : records[p][b] = None THEN PieceFails(c) ELSE Goto(c, "layout")
  /\ CallOnly

\* The blockstore reads with ReadAt over the Parts of its piece.
NewBlockstore(c) ==
  /\ At(c, "layout")
  /\ Return(c, [kind |-> "store"])
  /\ CallOnly

-----------------------------------------------------------------------------
(* What the store does to the calls by itself: any question may fail.      *)

\* GetPieceDeals, before any deal is tried.
NoDealTried(c) == At(c, "deals") /\ call[c].deals = DealsOf(call[c].piece)

StoreFails(c) ==
  /\ Event
  /\ \/ At(c, "list") /\ ListFails(c) /\ UNCHANGED shared
     \/ NoDealTried(c) /\ GotReader(c, FALSE)
     \/ /\ call[c].pc \in {"offset", "size", "complete", "sizeAgain", "index"}
        /\ PieceFails(c) /\ UNCHANGED shared
  /\ UNCHANGED <<tables, sectors, lock, calls>>

Done(c) ==
  /\ At(c, "returned")
  /\ call' = [call EXCEPT ![c] = NoCall]
  /\ CallOnly

-----------------------------------------------------------------------------
(* What changes around the calls.                                          *)

\* The multihashes of a piece are removed before its records, and an index may be added
\* again for other data.
IndexChanges ==
  /\ Event
  /\ \E p \in Pieces, b \in Blocks :
       \/ located' = located \ {<<b, p>>} /\ UNCHANGED records
       \/ /\ records' = [records EXCEPT ![p][b] = None]
          /\ located' = located \ {<<b, p>>}
       \/ /\ \E a \in Blocks :
               records' = [records EXCEPT ![p][b] = [at |-> a, sized |-> b \notin Empty]]
          /\ UNCHANGED located
  /\ UNCHANGED <<sectors, lock, shared, call, calls>>

SectorChanges ==
  /\ Event
  /\ \E d \in Deals : unsealed' = IF d \in unsealed THEN unsealed \ {d} ELSE unsealed \cup {d}
  /\ UNCHANGED <<tables, cache, lock, shared, call, calls>>

CacheExpires(s) ==
  /\ cache[s] # None
  /\ cache' = [cache EXCEPT ![s] = None]
  /\ UNCHANGED <<tables, unsealed, lock, shared, call, calls, events>>

SharedReaderExpires(p) ==
  /\ shared[p] \in {"ok", "err"}
  /\ \A c \in Callers : At(c, "wait") => call[c].piece # p
  /\ shared' = [shared EXCEPT ![p] = None]
  /\ UNCHANGED <<tables, sectors, lock, call, calls, events>>

-----------------------------------------------------------------------------
\* Deal d can serve call k now: the index has the piece and what is asked of it, and the
\* range of the deal is unsealed, within reach and not denied by the cache.
Serves(k, d) ==
  LET p == PieceOf[d]
      r == records[p][k.block]
  IN
  /\ k.op # "size" => d \in unsealed \cap Registered /\ cache[SectorOf[d]] # FALSE
  /\ CASE k.op = "get"  -> <<k.block, p>> \in located /\ r # None /\ r.at = k.block
       [] k.op = "size" -> <<k.block, p>> \in located /\ r # None /\ (r.sized \/ p \in Complete)
       [] k.op = "view" -> p = k.piece /\ \E b \in Blocks : records[p][b] # None

\* The calls that a failure of c takes deals from, with the pieces of the deals: c itself, and
\* where it fills a shared reader every call that may wait for it.
Lost(c) ==
  LET hit == {b \in Callers : \/ b = c
                             \/ /\ call[c].pc \in TryPCs /\ call[c].op = "get"
                                /\ call[b].pc \in PCs /\ call[b].op = "get"}
  IN hit \X (IF At(c, "list") THEN Pieces ELSE {call[c].piece})

\* The history of a step in which calls lost pieces to a failure.
Keep(lost) ==
  kept' = [c \in Callers |->
    IF call'[c].pc = "idle" THEN {}
    ELSE IF At(c, "idle") THEN {d \in Deals : /\ Serves(call[c], d)'
                                              /\ shared[PieceOf[d]] \in {None, "ok"}}
    ELSE IF At(c, "returned") THEN kept[c]
    ELSE {d \in kept[c] : <<c, PieceOf[d]>> \notin lost /\ Serves(call[c], d)'}]

CallStep(c) ==
  \/ BlockstoreGet(c) \/ BlockstoreGetSize(c) \/ GetBlockstore(c) \/ Done(c)
  \/ PiecesContainingMultihash(c) \/ NextPiece(c)
  \/ GetSharedPieceReader(c) \/ AwaitReader(c) \/ NextDeal(c)
  \/ IsUnsealedCached(c) \/ TakeLock(c) \/ IsUnsealed(c) \/ UnsealSectorAt(c)
  \/ GetOffsetSize(c) \/ ReadNode(c)
  \/ GetSize(c) \/ IsCompleteIndex(c) \/ BuildIndexForPiece(c) \/ GetSizeAgain(c)
  \/ GetIterableIndex(c) \/ NewBlockstore(c)

Around ==
  \/ IndexChanges \/ SectorChanges
  \/ \E s \in Sectors : CacheExpires(s)
  \/ \E p \in Pieces : SharedReaderExpires(p)

Next ==
  \/ \E c \in Callers : CallStep(c) /\ Keep({})
  \/ \E c \in Callers : (IsUnsealedFails(c) \/ ReadFails(c) \/ StoreFails(c)) /\ Keep(Lost(c))
  \/ Around /\ Keep({})

Spec == Init /\ [][Next]_vars

-----------------------------------------------------------------------------
(* Properties.                                                             *)

\* The state is well-typed, and a caller holds a lock exactly while it asks for the state of
\* the sector: no return of IsUnsealed leaves the lock taken.
TypeOK ==
  /\ located \subseteq Blocks \X Pieces
  /\ records \in [Pieces -> [Blocks -> Record \cup {None}]]
  /\ unsealed \subseteq Deals
  /\ cache \in [Sectors -> BOOLEAN \cup {None}]
  /\ lock \in [Stripes -> Callers \cup {None}]
  /\ shared \in [Pieces -> {None, "filling", "ok", "err"}]
  /\ \A c \in Callers : call[c] \in {NoCall} \cup Returned \cup Call
  /\ \A c \in Callers : (\E t \in Stripes : lock[t] = c) <=> At(c, "ask")

\* A call fails only when no deal could have served it all along: whatever the order in
\* which pieces, deals, caches and shared readers are tried, one that can serve is found.
ServedIfPossible ==
  \A c \in Callers : At(c, "returned") /\ call[c].result = Failed => kept[c] = {}

\* What a call returns is what was asked for, though the index may be of other data: the
\* block has the multihash, and the blockstore finds each byte of the payload at the offset
\* the index has for it, and the header of the payload at the start; it gets fewer bytes than
\* there are only up to the end, with the error that goes with them.
RightBlock ==
  \A c \in Callers : At(c, "returned") =>
    LET r == call[c].result IN
    /\ r.kind = "block" => r.block = call[c].block
    /\ r.kind = "store" =>
         LET D == DataOffset[call[c].piece]
             byte(x) == IF D = 0 \/ x >= D + HeaderLen THEN x ELSE IF x < HeaderLen THEN D + x
                        ELSE -1
         IN \A off \in 0..PieceLen, len \in 1..PieceLen, eof \in {FALSE, D # 0} :
              LET read == ReadAt(Parts(call[c].piece), off, len, eof)
                  n    == Min({len, PieceLen - off})
              IN /\ read = [i \in 1..Len(read) |-> byte(off + i - 1)]
                 /\ IF eof /\ off + len >= PieceLen THEN Len(read) <= n ELSE Len(read) = n

=============================================================================
