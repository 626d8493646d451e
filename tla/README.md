# A TLA+ model of txcartool

txcartool reseals Filecoin sectors from "txcar" data and carries, under `lib/`, a trimmed copy of
the parts of Boost it uses: the local index directory (which piece has which deals, and where each
block is in a piece), the piece directory that reads pieces and builds indexes, the piece doctor,
the sector state manager and the Yugabyte/LevelDB stores. This directory holds TLA+ modules of the
stateful parts, TLC configurations that check them on small instances, and TLAPS proofs.

All paths below are relative to the repository; `lib/boostd-data/` and `lib/boost/` are written in
full where they are ambiguous.

## 1. Inventory

| Component | State | Operations | Interacts with | What is hard |
|---|---|---|---|---|
| **LevelDB store** `lib/boostd-data/ldb/{db,service}.go` | next cursor; piece CID → metadata (deals, IndexedAt, CompleteIndex, cursor); multihash → piece CIDs; cursor+multihash → offset, size; one mutex | AddDealForPiece, RemoveDealForPiece, AddIndex, RemovePieceMetadata, RemoveIndexes, the reads | client over JSON-RPC; AddIndex answers on a channel | several writes per operation, no transaction over them, readers without the mutex, a channel send under the mutex, crashes |
| **LevelDB doctor tables** (same files) | flagged pieces; in-memory `offset` and `checked` | NextPiecesToCheck, FlagPiece, UnflagPiece, UntrackPiece, the lists | doctor | the package variable `offset` is shared by miners, not locked, and used by ListFlaggedPieces |
| **Client** `lib/boostd-data/client/client.go` | none | one per store call | store, piece directory, doctor | the receive loop of AddIndex stops at the first error, and the client may go away |
| **Service** `lib/boostd-data/svc` | none | Start | client | - |
| **Yugabyte store** `lib/boostd-data/yugabyte/service.go` | the same tables in two databases | the same operations | client | no mutex: every operation is several CQL/SQL statements that interleave with others' |
| **Yugabyte tracker** `yugabyte/piecedoctor.go` | tracker rows, flag rows, per-miner lock and watermark | NextPiecesToCheck, flags | doctor | two databases, a watermark over creation times |
| **Migrations** `yugabyte/{migrator,cassmigrate,migrations}` | schema version | executeMigrations | store start | the list of Cassandra migrations is empty |
| **Piece directory: indexing** `lib/boost/piecedirectory/piecedirectory.go` | map of running index operations, throttle channel | AddDealForPiece, TxAddDealForPiece, BuildIndexForPiece | store client, piece reader | single flight, contexts that end at any time, a bounded throttle |
| **Piece directory: shared readers** (same file) | TTL cache of reference-counted readers, one mutex | GetSharedPieceReader, Close, the expiry callback | piece reader, cache goroutines | callback against users, lookup against expiry, a field written outside the mutex |
| **Piece directory: parsing** (same file) | none | parsePieceWithDataSegmentIndex, parseRecordsFromCar | third-party CAR and data segment code | entries shared out among goroutines, errors that turn into the fallback |
| **Piece directory: block retrieval** (same file) | none | BlockstoreGet, BlockstoreGetSize, GetBlockstore | store, shared readers, sector accessor | several pieces and deals to try while index and sectors change |
| **Piece doctor** `piecedirectory/doctor.go` | none between ticks | Run, checkPiece | store, sector states, chain | acts on snapshots minutes old; several doctors in parallel |
| **Sector state manager, PubSub** `lib/boost/sectorstatemgr`, `lib/boost/db/sectors.go` | SectorState table, latest update, subscribers | refreshState, checkForUpdates, Publish, Subscribe | storage and chain APIs, doctor | partial table updates, publications that skip a busy subscriber |
| **Reseal** `cmd/reseal.go` | the shared `err` variable, five throttle channels, each sector's files in two directories | lookups, addPiece, precommit1, precommit2, finalize | database, sealer, txcar | nested throttles, a racy variable, files that survive the process |
| **Other commands** `cmd/{gen,create,index}.go` | none | sequential | txcar, piece directory | - |
| **Caching sector accessor** `lib/boost/markets/sectoraccessor/cachingsa.go` | TTL cache, striped locks | IsUnsealed | sector accessor | the cached answer goes stale; it is keyed by sector only |
| **Multi reader** `lib/boost/car/multi_reader_at.go` | part offsets | ReadAt | readers of the parts | boundaries, short reads |
| **Config migration** `lib/boost/node/config/{migrate,update}.go` | config file, its versions on disk | ConfigMigrate, ConfigMigrateLatest | file system | a crash or an I/O error between or in the middle of writes |
| **Deals database** `lib/boost/db` | SQL rows | single statements | sqlite | - |
| **harmonydb** `lib/harmonydb` | SQL connection | queries; BeginTransaction with retry, which nothing calls | reseal | - |
| **Node builder, lifecycle** `node/` | none | wiring | all | - |

Generated code (`doc_gen.go`), metrics, tracing and plain type declarations have no behaviour.

What makes each part correct:

* store: no index is read under another piece's cursor; what AddIndex acknowledged can be read and
  found by multihash; removals leave nothing behind that a retry cannot remove; an operation on one
  piece leaves every other alone; the mutex is released;
* indexing: one operation per piece, every waiter gets the owner's result, no success without a
  parsed piece, no throttle slot lost, every call returns;
* shared readers: never cancelled while somebody reads, always cancelled in the end;
* reseal: only verified sectors reach storage, the unsealed file goes last, throttles are given back
  on every path, one sector's trouble stays its own, all goroutines end;
* doctor and sector states: flags and states settle on the truth once the world stops changing;
* Yugabyte store: the same promise as the LevelDB store, but for what overlapping additions and
  removals of one piece do to each other; every call is served;
* Yugabyte tracker: every piece of a miner is tracked, and no flag outlives its row;
* parsing and retrieval: all blocks of a piece are found once; a read fails only if no deal could
  serve it, and returns what was asked for;
* configuration: a version of the program finds the settings it was left with.

## 2. Modules

| Module | Models | Built on |
|---|---|---|
| `PieceIndex` | what the local index directory promises, whatever store is behind it (the abstract specification) | - |
| `LdbStore` | `lib/boostd-data/ldb`: every operation on the metadata, multihash and record tables, with the client's AddIndex loop | instances `PieceIndex` with a refinement mapping |
| `YbStore` | `lib/boostd-data/yugabyte/service.go`: the same operations as interleaved statements | - |
| `YbTracker` | `yugabyte/piecedoctor.go` and the doctor that drives it | - |
| `SectorState` | `lib/boost/sectorstatemgr` and its rows in `lib/boost/db/sectors.go` | - |
| `LdbDoctor` | `piecedirectory/doctor.go` on the doctor tables of `ldb` | extends `SectorState`: composed with the manager, the PubSub and the subscriber |
| `SharedReader` | GetSharedPieceReader, cachedSectionReader.Close, expireCallback, against the cache | - |
| `PieceData` | the parsing of a piece: data segment index, segments, CAR | - |
| `PieceDirectory` | AddDealForPiece, TxAddDealForPiece, BuildIndexForPiece, addIndexForPieceThrottled | extends `PieceData` |
| `Retrieval` | BlockstoreGet, BlockstoreGetSize, GetBlockstore, the caching sector accessor, the choice of a miner, MultiReaderAt | - |
| `ConfigMigrate` | ConfigMigrate, migrateUp, migrateDown, makeSymlink, ConfigUpdate | - |
| `Reseal` | the reseal command and the files it leaves | - |
| `MC*` | instances of the module of that name for TLC | that module |
| `LdbStoreProofs`, `YbStoreProofs`, `YbTrackerProofs`, `SharedReaderProofs`, `PieceDirectoryProofs`, `RetrievalProofs`, `ConfigMigrateProofs`, `ResealProofs` | theorems and their proofs | the module of that name, TLAPS |

`PROJECT.json` maps every definition to its source lines. Operators commented "Mutant:" are
plausible bugs of the definition next to them; no specification uses them. They are there to show
that the property named for them in `PROJECT.json` can tell the difference.

### LdbStore

`op` is the operation that holds `Store.Mutex`, or `None`; the four table variables are the
database; `progress` is the AddIndex channel and `client` the client's loop that receives from it: it
returns at an error or when the channel is closed, and it may go away at any time (`ClientGone`), after which nothing receives. An
operation with one write is one action guarded by `op = None`. AddIndex and the removals are one action per
database write or channel send, in the order of the code:

    AddIndex             hashes -> send45 -> cursor -> records* -> send90 -> metadata -> send95 -> sync -> send100
    RemovePieceMetadata  batch -> delete          (also RemoveDealForPiece of the last deal)
    RemoveIndexes        batch -> unindex

`AddIndexFails` is an error of any write of AddIndex, which is sent as the last message; `Interrupt`
is a crash and restart, or the error return of a removal. Both keep the writes made so far.
`DB.SetMultihashesToPieceCid` and `DB.RemoveIndexes` are one atomic LevelDB batch each; the records
of AddIndex are separate writes, in any order. An offset is abstracted to the piece whose CAR it
points into, a size to whether it is known, a time to whether it is set.

A deal may come before or after the index of its piece. In this repository it does come first, and such pieces
all share cursor 0. `PieceIndex` says what that means for the callers: the pieces that a deal made known
(`sharing`) have one index, which `ExtendIndex` and `ClearIndex` change for all of them, while any other piece has its own.

`leaked` is history: the entries of the multihash table that an AddIndex left without a record when it was cut
(`Unread`), or that were left when the removal of another piece emptied the shared cursor (`LeftBehind`),
until an AddIndex or a removal puts them right.

The model assumes that the process crashes, not the machine: writes without `Sync` survive.

`RemoveDealForPiece` matches on the UUID and removes one of the matching deals; the model picks
any of them. A deal list never holds the same deal twice, so it is a set.

### YbStore

The tables are `metadata`, `dealRows`, `hashRows` and `records`. Nothing guards them: `call` has the
place of each caller in its operation, and one action is one CQL statement or one step on a channel:

    AddDealForPiece       createMetadata -> insertDeal
    AddIndex              hashes* -> records* -> createMetadata -> setIndexedAt -> complete -> closed
    RemoveDealForPiece    deleteDeal -> remaining -> known -> scan -> drain -> deleteMetadata
    RemoveIndexes         scan -> drain
    RemovePieceMetadata   deleteMetadata

RemoveIndexes reads the records with a scan (`Scan`, `ScanKnown`, `ScanEnds`) that may give a row
inserted meanwhile or not, and hands them to `Threads` threads, each of which deletes the multihash
row and then the record (`hand`). `stream` is the progress channel of an AddIndex: two buffered
elements, a client that may stop reading when its context ends, and a timeout after which the last
update or an error is dropped. A failing statement ends the operation as the code does (`CallFails`,
`AddIndexFails`, `ThreadFails`, `ScanFails`, `ScanStuck`), and `Start` is a restart. A multihash is
its own key (the code keeps the last 24 bytes and takes them for unique).

`acked` and `excuses` are history: what was acknowledged, and which of five things happened to a
piece that a property must allow for: `overlap` (an addition ran at the same time as a removal),
`cut` (an AddIndex failed), `scan` (the scan of a removal failed), `dropped` (an error could not be
sent in five seconds) and `byHand` (RemovePieceMetadata with deals left).

### YbTracker

`created` and `deals` are the pieces as the other calls leave them (`StartAdding`,
`createPieceMetadata`, `InsertDeal`: the creation time is taken first, and the rows come when they
come). A doctor's round reads the latest time in `tracker` (`ReadWatermark`), scans the pieces since
(`Scan`), asks for the miners of each (`ReadMiners`), inserts the rows in any order (`InsertRow`),
all with the time of the piece that was scanned last, as the code does, takes a batch
(`TakeBatch`) and checks each piece. Whether a check finds a problem is left open here (`LdbDoctor` has that
part); a piece that is not found is unflagged and then untracked. `missed` is history: the pairs of
a miner and a piece that something has kept out: a deal that came late (`Late`: after some doctor
had read a watermark, or scanned a piece, of a later time), a round that failed while it inserted, or an
untracking of a piece that had been added again.

### SectorState and LdbDoctor

A refresh of the manager reads the storage and the table in one action (the table has no other
writer), the active sectors in a second, writes one row per action and publishes. `Publish` skips a
subscriber that is not receiving. A refresh may fail anywhere (`RefreshFails`); rows written stay.

`LdbDoctor` adds the store's pieces, the package variables `offset` and `checked` of `db.go`, and the
doctor's round: read `LatestUpdate`, the chain head, a page of pieces, the claims, and then for each
piece the metadata, the index, and the flag. All pieces of a round are checked against the update it
began with. Sectors become active or not, and deals and claims appear and go, on the chain (`ChainChanges`),
between any two steps. `Restart` loses everything that is in memory. Time is `CheckPeriodEnds`: a piece that was
checked becomes due again. One miner is modelled.

### SharedReader

One piece, since readers of different pieces only share the mutex. Each critical section of
`pieceReaderCacheMu` is one action (`Miss`, `Hit`, `Close`, `ExpireCallback`); what the creator does
without the mutex is `Fill` (the underlying reader and `cancel`) and `Announce` (closing `ready`).
`Lapse` and `Evict` are external: the cache may stop answering with an entry at any time and evicts
by key later, and the callback runs in a goroutine of its own (`callbacks`), so users run in between.
A second reader can therefore take the key of a first one that has lapsed and not been evicted.

### PieceData and PieceDirectory

`Parse` is what addIndexForPiece makes of a piece. The entries of the data segment index are
validated in chunks by up to `PodsiMaxConcurrency` goroutines, the last of which takes the rest of
the division; an entry that is not valid is left out, and any other error, or a valid segment that
cannot be parsed, makes the whole a CAR at the start of the piece. `Kept` is the loop of validateEntries, entry by
entry. `ParsedRight` is what `Parse` is checked against: the parser fails exactly when the piece is not
`Readable`, it gives the blocks of the segments in use (or of the one CAR), and each of them once. The last holds if no
two segments in use have a block at the same place (`Apart`), which this code does not check.
`Contents`, a parameter, are the contents `RecordsRight` speaks of: for TLC a small set, in the proof any.

`opByCid` is `addIdxOpByCid`, `ops` the operations created so far (`done`, `err`), `throttle` the
elements in the channel, `call` the program counter and locals of each goroutine. LoadOrStore is
`Join` or `Own`; the two selects are pairs of actions (`WaitDone`/`WaitCanceled`,
`TakeSlot`/`ThrottleCanceled`); the owner's three deferred calls are the actions `ReleaseSlot`,
`CloseDone`, `DeleteOp`. `Cancel` ends the context of a caller that is in one of the selects.
In this repository the code of addIndexForPiece that stored the records is commented out: it
reads, parses, and returns an error or nil, and the model does no more. `Indexed`, the pieces the
store says are indexed, is therefore a constant. `RemoveDealForPiece` and the other one-line methods
pass through to the store and are not repeated here.

### Retrieval

A call lists the pieces of a block and tries them, and for each the deals: `shared` is the shared
reader of a piece (`SharedReader` in one word: absent, being filled, good, failed), `cache` and `lock`
are the TTL cache and the striped locks of the sector accessor, `unsealed` what the sector accessor
answers. The cache is keyed by sector while the question is about a deal's range of it, so an
answer may be another deal's. `IndexChanges`, `SectorChanges`, expiries and failures happen between
any two steps: any question to the store may fail (`StoreFails`), and so may a sector, the opening or reading of its data,
and what GetBlockstore makes of its layout (`ReadFails` at "layout"). An index may be of other data; a block then has the wrong multihash, and a read must
find that out. `MultiReaderAt` is `ReadAt` over the `Parts` of a piece, as sequences of bytes named by
their offsets; the last part may report io.EOF together with its last bytes (`eof`), which ReadAt then does not
count. `kept` is history: the deals that could have served a call at every moment since it began.

### ConfigMigrate

`files` are the versions of the file on disk, `link` where `config.toml` points, `pc` the step of
the migration. `os.WriteFile` is two steps, since it cuts the file first; `makeSymlink` is two, since
it removes the link first. `ConfigUpdate` writes each setting as a line and comments out every
line that equals a default line, whatever its section (`Name`, `Default`). `Start` is a binary of any version;
`Edit` is the user, and `Spoil` a mistake of the user's: a setting with a value of the wrong type, or a file that is no TOML
(`parses`). `Crash` and `IOError` cut a migration short at any step, and leave any `Parts` of the file that was being written;
`IOError` is any of MkdirAll, ReadFile, WriteFile, Stat, Remove and Symlink. What the repository decides by
itself (a file that does not parse, one that is not there, a result that is not the settings) is `Fail`.

The binaries differ in `toVersion` alone. That is so in this repository, which has one `Boost` and one `DefaultBoost`:
the fields that older versions had besides are not in it, and no migration looks at them.

### Reseal

`job` is each sector's goroutine: its place, the stage it is to stop at, what its lookups gave.
`err` is the variable of `Reseal` that all goroutines assign in the two lookups and test afterwards, and `failed` (history)
says whether a lookup of this run has failed;
`CheckErr` sees what the goroutine wrote or what is there now. `slots` are the five channels: a send
is part of `Start` or `EnterStage`, the deferred receive is part of the action that leaves the stage.
`work` and `stored` are the sector's files in the sealing and the storage directory, told apart by
whether a sealed CID equal to the one on chain was computed from them. `Rerun` kills the command, or
follows its end, and starts it again with the files as they are. `mv -t` replaces a file and fails on
a directory that is there and not empty; between two file systems it copies and then deletes, so that it can be cut with a
part of the copy made or of the source deleted (`MoveCutShort`, and a `Rerun` after it for a kill). A sector is listed once in the sid-file; `--smax` and
`--p1max` are at least 1 (`ResealAssumption`): without them the channels have capacity 0 and
every goroutine blocks at its first send.

## 3. Runs

Every passing run explores all reachable states of its instance. Distinct states are rounded.

| Run | Instance | Shows |
|---|---|---|
| `ldb_store` | 2 pieces, 2 hashes, 1 deal, 2 cursors, 1 fault or lost client, symmetry; 12M states | `CursorOwnership`, `IndexIsOwn`, `RecordsLocatable`, `AckedIndexReadable`, `DanglingExplained`, in every order of deals and indexes, with an error, a crash or a lost client anywhere |
| `ldb_refinement` | 2 pieces, 1 hash, 1 deal, 2 cursors, 1 fault or lost client; 1.7M states | `ImplementsPieceIndex` (refinement), `MutexReleased` (liveness) unless the client went away |
| `yb_store` | 2 callers, 3 calls, 1 piece, 2 hashes, 2 deals, 2 threads, 1 fault | `MetadataOutlives`, `HashesReachable`, `AckedIndexKept` with their excuses, `CallsServed` (liveness) |
| `yb_tracker` | 2 miners, 2 pieces, batches of 1, 2 times, 3 changes, 1 fault, symmetry | `FlagsAreTracked`, `MissesExplained` |
| `yb_tracker_new` | 1 miner, 2 pieces, 2 changes, no fault | `NewPiecesTracked` violated (section 4) |
| `doctor` | 2 pieces, 3 deals (1 direct), 2 sectors, pages of 2, 2 events; 0.9M states | `SectorDbSettles`, `FlagsSettle` (liveness) |
| `shared_reader` | 3 goroutines, 2 readers, 4 calls | `HeldNotCancelled`, `NoNilCancel`, `CancelledWhenUnused`, `NoReaderLeaked` (liveness) |
| `piece_directory` | 3 callers, 3 calls, 2 pieces, 3 deals, 1 slot, symmetry; 4.5M states; parser on every piece with up to 5 segments, apart or overlapping | `SingleFlight`, `SlotsAccounted`, `SuccessIsReal`, `RecordsRight`, `ResultFrozen` |
| `piece_directory_liveness` | 2 callers, 2 calls, reads and the store may fail, one piece indexed; 94 thousand states | `CallsReturn` (liveness) |
| `retrieval` | 2 callers, 2 calls, 2 pieces (CARv1 and CARv2), 2 blocks, 4 deals, 2 sectors under one lock, 1 event, symmetry; 1.7M states | `ServedIfPossible`, `RightBlock`, and by the type invariant that no lock is left taken |
| `config_migrate` | versions 0 to 3, 2 settings that share a name, 3 values, 5 starts, 1 edit or mistake, 2 crashes or I/O errors; 13M states | `SettingsKept`, `OutcomeExplained` |
| `reseal` | 2 sectors, `--smax 2 --p1max 1`, 2 runs of the command; 0.5M states | `SlotsAccounted`, `OnlyVerifiedStored`, `EarlyEndExplained`, `UnsealedKeptUntilStored`, `EveryJobEnds` (liveness) |

Why the bounds are enough:

* *LdbStore, two pieces*: sharing a cursor and refinement of "the other piece is left alone" are
  about pairs. *Two hashes* make a partly written and a partly removed index; one hash is shared by
  both pieces in every run, and the refinement, which is about whole indexes, has only that one. *One deal* makes a piece known
  and its removal forgets it. *Two cursors* are one per piece; a piece removed and added again needs
  a third, which the second of two pieces leaves free, or which it does without when a deal comes first. *One fault* cuts an operation at any point, and any
  sequence of operations may precede and follow it; the proofs hold for any number.
* *YbStore, one piece*: statements about different pieces touch different rows. Two callers make
  every overlap of two operations, the third call is the retry or the observer; two hashes with two
  threads make a removal of which one thread has failed.
* *YbTracker*: the watermark is shared by miners, so there are two; two pieces and two times
  make a later piece that is seen first, and equal times; three changes are two additions and a removal.
  An untracking that lowers the watermark under a doctor which has already read it needs a
  fourth change; it is covered by the proof (and by a run with four changes and no fault, which is too long to be kept).
* *Doctor*: two pieces and pages of two make a full and a half page when a piece goes; the first
  piece has a market and a direct deal in different sectors, so that either sector can change its
  state alone. Two events are a change and a failure or restart around it; the property is about
  what comes after the last event.
* *SharedReader, three goroutines, two readers*: creator, waiter and late user of one reader, with the
  next reader created while they hold the first.
* *PieceDirectory, three calls, one slot*: an owner that has the slot, an owner of the other piece that
  waits for it and is cancelled, and a waiter of either. The first piece has a readable and an unreadable
  deal so that a build goes from one deal to the next. *Five segments* with two to three goroutines
  make fewer entries than goroutines, an even share, and a rest.
* *Retrieval*: two callers meet in the shared reader, the cache and the lock. One piece has two deals
  in two sectors, the other one of a miner without an endpoint, so the order of the deals
  matters. One event suffices for every answer that is stale when it is used, because the calls
  themselves fill the cache. Every offset and length of a piece of 5 bytes is read.
* *ConfigMigrate*: three versions make an upgrade of several steps, a downgrade and an upgrade
  again over files that exist. Five starts allow each fault to be followed by a retry; one edit makes two versions differ, and
  any number is covered by the proof.
* *Reseal, two sectors with two job slots and one pre-commit slot*: the nested throttles are contended;
  a second run meets the files of a first one cut anywhere, in the middle of a move too, with a different stage to stop at.
* `MaxCursor`, `MaxFaults`, `MaxReaders`, `MaxCalls`, `MaxRuns`, `MaxOps`, `MaxTime`, `MaxEvents`,
  `MaxEdits` and `Newest` only bound the instance: they are guards that nothing else depends on.

`CHECK_DEADLOCK FALSE` is in the configurations of the systems that really stop: calls, changes and
starts are used up, and nothing is left to do; and a LevelDB store whose client went away before the last send is stuck.

Fairness. `LdbStore`: the operation holding the mutex runs on, and a client's loop that is still there goes on receiving
(`WF`); nothing says that it stays, and calls, faults and crashes are not fair. `YbStore`: every statement returns (`WF` of each caller's
`Step`), while the client may stop reading: the timeout of the code is what is fair. `YbTracker`:
the doctor of each miner runs (`WF`). `LdbDoctor`: both loops run on timers,
the subscriber receives whenever it is not busy, and the check period ends (`WF`); failures, restarts and
changes are not fair and bounded, which is what "once nothing changes" means. `SharedReader`: callers that
hold a reader read on and close it, callbacks run, and every entry is evicted; the last because each hit
extends the TTL and only finitely many calls are made. `PieceDirectory` and `Reseal`: goroutines
run (`WF`), and a goroutine blocked on a channel send is served in the end (`SF` on `TakeSlot`, on `Start`
and `EnterStage`), since the Go runtime queues blocked senders in order. Cancellation is never fair.
`Retrieval` and `ConfigMigrate` state safety only.

## 4. Findings

*New pieces that are never tracked* (`yb_tracker_new`). `piecedoctor.go:55-57` says that new pieces of
PieceMetadata are added to PieceTracker. The scan starts at the latest creation time in the tracker.
AddDealForPiece takes the creation time and inserts the deal several statements later; a piece whose
deal comes after a later piece was tracked lies below the watermark for good.

What the code does besides, as the models have it, where the repository promises nothing else or
the properties name it as an exception:

* *LevelDB.* Pieces whose deal came before their index all use cursor 0, overwrite each other's records, read each
  other's offsets and lose their index when one of them is removed (`sharing` in `PieceIndex`; the invariants about cursors exempt
  cursor 0). AddIndex sends on its channel without a context or a timeout while it holds the mutex: if its client has gone away
  the store answers nobody any more (`Abandoned`). RemoveIndexes reaches multihashes through the records, so it leaves
  those without one (`leaked`). CompleteIndex is that of the first AddIndex.
* *Yugabyte store.* Without a mutex, an addition that overlaps a removal of the same piece can lose its
  metadata or its rows. A scan that fails before its first row leaves GetIndex and its goroutine waiting
  for each other until the context ends. RemoveIndexes ignores the error in a record it is given,
  and does not reset IndexedAt. An update of a row that was removed in between makes it again without CreatedAt.
* *Doctor.* ListFlaggedPieces pages by the package variable of NextPiecesToCheck. The flag of a piece
  that leaves the LevelDB store while it is not being checked is not cleared, which is why `FlagsSettle` is about pieces with a deal.
* *Piece directory.* A reader whose creation failed stays cached until its TTL ends.
  BuildIndexForPiece gives up all its deals when it meets an operation that is being cancelled.
  The cached state of a sector can deny a range that is unsealed until it expires.
  A last part that reports io.EOF with its last bytes makes ReadAt drop them.
* *Configuration.* A crash between the removal of the link and the new one leaves no `config.toml`, which
  no later start repairs; so does an error of Symlink. A fault while `config.toml` itself is being written leaves an empty or a
  partial file, and the next start takes the defaults for the user's settings or cannot read them (`torn`). A setting whose line is the
  default line of another section makes ConfigUpdate fail. What was edited under a newer version is
  not carried to an older one.
* *Reseal.* One sector's failed lookup can end another sector (`EarlyEndExplained` says that nothing else can). addPiece returns a nil error when the piece CIDs differ, so that only the comparison of sealed CIDs stops
  such a sector. A run that was killed after or while the cache was moved cannot be completed by running again.

## 5. Proofs

The theorems hold for all values of the constants; each module assumes only what the `ASSUME` of the module it
is about says, except where noted.

| Module | Theorem | |
|---|---|---|
| `LdbStoreProofs` | `Invariance`, `TypeCorrect` | `Spec => []IInv`, `[]TypeOK` |
| | `CursorsOwned`, `IndexesOwn`, `Locatable`, `AckedReadable` | `[]CursorOwnership`, `[]IndexIsOwn`, `[]RecordsLocatable`, `[]AckedIndexReadable` |
| | `Refinement`, `NothingDangles` | `Spec => ImplementsPieceIndex`, `[]DanglingExplained` |
| `YbStoreProofs` | `Invariance`, `TypeCorrect` | `Spec => []IInv`, `[]TypeOK` |
| | `MetadataKept`, `HashesFound`, `AckedKept` | `[]MetadataOutlives`, `[]HashesReachable`, `[]AckedIndexKept` |
| `SharedReaderProofs` | `TypeCorrect`, `HeldSafe`, `CancelAssigned`, `CancelExact` | `[]TypeOK`, `[]HeldNotCancelled`, `[]NoNilCancel`, `[]CancelledWhenUnused` |
| `PieceDirectoryProofs` | `OneFlight`, `SlotsExact`, `Frozen` | `[]SingleFlight`, `[]SlotsAccounted`, `ResultFrozen` |
| | `ParserCorrect`, `RecordsCorrect` | `ParsedRight` of any content of a piece, and `[]RecordsRight` |
| | `SuccessReal` | `[]SuccessIsReal` |
| | `TypeCorrect` | `[]TypeOK`, assuming that there are finitely many deals |
| `RetrievalProofs` | `Invariance`, `TypeCorrect`, `ServedWhenPossible` | `Spec => []IInv`, `[]TypeOK`, `[]ServedIfPossible` |
| | `RightBlockReturned` | `[]RightBlock` |
| `ResealProofs` | `TypeCorrect`, `SlotsExact`, `StoredVerified` | `[]TypeOK`, `[]SlotsAccounted`, `[]OnlyVerifiedStored` |
| | `StagesBounded` | no stage holds more goroutines than its channel's capacity |
| | `EarlyEnds`, `UnsealedKept` | `EarlyEndExplained`, `UnsealedKeptUntilStored` |
| `ConfigMigrateProofs` | `TypeCorrect`, `SettingsAlwaysKept`, `OutcomeAlwaysExplained` | `[]TypeOK`, `[]SettingsKept`, `[]OutcomeExplained` |
| `YbTrackerProofs` | `TypeCorrect`, `FlagsTracked`, `OnlyExplainedMisses` | `[]TypeOK`, `[]FlagsAreTracked`, `[]MissesExplained` |

In each module `IInv` is the inductive invariant; there is one lemma per action (or per kind of step), a lemma
that puts them together for `Next`, and the theorems follow from it by propositional temporal logic.

**LdbStore.** `IndexIsOwn` is not inductive: when an index is extended, nothing in it says that no *other* piece
will come to use the cursor. `IInv` adds to `TypeOK` and `CursorOwnership`

* `OpConsistent`: what an operation in flight remembers (metadata, cursor) is still what the table
  says, because it holds the mutex;
* `RecordPlaces`: records are stored only under cursors already handed out, or under 0, where each is a record
  of a piece that uses cursor 0 itself;
* `RecordOwners`: a record under an allocated cursor belongs to the piece that uses the cursor. This is
  what keeps the records of an index cut short, which no metadata leads to, from becoming readable;
* `RecordHashes`: every record is linked from its multihash, except those of the operation that
  is about to remove or has not finished adding them.

`AckedReadable` needs `AckProgress` as well: the records of `op.recs` that are no longer in `op.todo`
are in the table under the cursor the operation holds, and after the write of IndexedAt that cursor is the one
in the metadata. `NothingToShow` and `ShownKept` are the two patterns its steps fall into.

`Refinement` needs `RInv`, which is `IInv` with one more fact: the metadata AddIndex is about to write for a new
piece has no deals (`NewHasNoDeals`), so the write of IndexedAt cannot add or lose one. Each step is then shown to be one step
of `PieceIndex` or to leave its three variables alone: records put under a new piece's cursor are read by nobody
until the metadata is written, which extends the index at once; a record under a cursor in use is read by every piece of
its `Group`, which is what `GroupHasCursor` and `SharedIndex` say of cursor 0; a deal of a new piece is `JoinShared`; the batch
of a removal is `ClearIndex`, and the delete after it is `ForgetPiece`, whose guard is `OpConsistent`. Nothing is assumed of the
order of deals and indexes.

`DanglingExplained` speaks of an idle store; between two operations of an AddIndex the multihash table is ahead of the records.
`EntriesLead` says by how much: an entry leads to a record the piece can read, or is `Awaited`, i.e. one of the
operation in flight, which has not written its metadata yet, or was left behind (`leaked`). That the write of the metadata makes the
records readable is `AckProgress`, from which `AckedReadable` follows too; that a removal takes no record of another piece
away but those of cursor 0, which `LeftBehind` accounts for, is `CursorOwnership`.

**YbStore.** There is no mutex, so a call can rely on nothing but what the other calls on its piece leave alone.
Additions only add rows and removals only remove them, so that two additions, or two removals, do not disturb each
other: unless `overlap` is among the piece's excuses, the running calls on a piece are all of one kind (`Exclusive`), an
addition finds every row it has inserted (`AddRight`), and a removal finds none that it has passed (`RemoveRight`). The
three properties are not inductive without that. `MetadataRight`, `HashesRight` and `AckedRight` are what they say of a
piece while calls are under way: a multihash row without its record, for example, is one an AddIndex is about to write
the record of. For RemoveIndexes `RemoveRight` says where a record that is still there can be: the scan has yet to give
it, or a thread has it in hand with its multihash row deleted, or a thread has failed; so that a removal that ends well
leaves none. `ASSUME None \notin Row` says that a row of the metadata table is not the absence of one.

**SharedReader.** That a held reader is not cancelled rests on `refs` being exactly the number of callers that still
have to close it (`Counted`, by the cardinality of `Users`), and on where a reader's cache entry can be:
in the cache, queued for eviction, in a callback, or gone with `expired` set, and never in two of these (`Entry`).
`Assigned` is the argument for the field that no lock guards: `cancel` is unset exactly while its only creator
fills the reader, the creator still has its reference, and others pass the wait only after `ready`.

**PieceDirectory.** `Flights` ties the three places an operation is in: an owner's operation is in the map under its
piece, an entry in the map has an owner, and two owners have different pieces; `done` is set only when the owner
has nothing left but to delete the entry, which is why a call that joins late still gets a final
result. `Parsed` and `Honest` carry "no error means parsed data" from the owner through the operation to the waiters and to the
calls that go on to store the deal. The slots are counted by the cardinality of the callers that index or are about to release.
The type invariant bounds the operations that are ever made: `Counted` counts with them the pairs of a call and a deal it may
still make one for (`Owed`), each of which Own turns into an operation, and finds at most as many as there are calls
times deals. It needs the deals to be finitely many for the product to be a number.

`ParserCorrect` is about data of any length. The library's induction theorems cannot be used (their parameter is an
operator), so `Induction` is stated for a set of numbers and follows from the well-foundedness of `<`, and the
recursions, of `Kept` and of the flattening of a sequence of sequences, are unfolded one step at a time (`KeptUnfolds`,
`FlattenUnfolds`). `KeptRight` says of the loop that it leaves the valid entries, in order, and each as often as it is there
(`KeptBy`). The goroutines then make no difference: the shares of the entries follow one another up to the last entry, for
every number of goroutines (`ConcurrencyRight`, `EndRight`, `ChunkRight`), and to go on keeping entries after the first `a` is to
append what is kept of the rest (`KeptOfRest`), so that the results put together are what one loop over all the entries
keeps (`ValidSegmentsRight`). `FlattenRange` and `FlattenInjective` carry the blocks of the segments to the records of the
piece. With it `RecordsCorrect` follows, and `SuccessReal` needs no assumption on the parser. The constants' assumptions are
that contents are made as `Content` says, a CAR having no two blocks at one place, and that `Broken` is not a sequence.

**Retrieval.** `kept` are the deals that could have served a call at every moment since it began; the property is that
none is left when the call fails. `IInv` says where such a deal is meanwhile: its piece is the one being tried or still
on the list, and the call has not turned to a part of the code that would not find it (`OnWay`), and a call that is
trying the deals of that piece has it before it or in hand (`KeptUntried`). A failure of the store, a sector or the data takes from
`kept` what it hides, of the failing call and of those that wait for its reader (`Lost`), and nothing else. This must hold of another call's attempts
too, since a reader that is being filled by one caller is waited for by others, whose kept deals the filler must not
skip; and the result of a fill is cached, so no reader of a kept deal's piece may have failed (`KeptUnspoiled`). `Fills`
and `Locks` say that a reader has one filler and a lock the one caller that asks. The assumption on `None` says that no
caller, and no state of a reader, is the absence of one.

`RightBlockReturned` follows from `ReturnsRight` (a call returns the block it was asked for, or a store over the parts
of its piece) and from what ReadAt reads. The latter is about data of any length, but not by induction: a piece has one
part (CARv1) or three (the header, the gap, the payload), so the recursions over the parts are unfolded
(`OffsetUnfolds`, `ReadAtUnfolds`), while the bytes are treated by arithmetic. `PartRight` is the step: if what was read
so far is what there is from the offset on up to the beginning of a part, then with that part it is what there is up to
its end, cut at the length that was asked for. Where the last part reports io.EOF with its bytes the read is what the parts before
it give, a prefix that ends before the end of the piece. `PartsLaid` says that the parts of a piece follow one another and hold
the bytes they should.

**Reseal.** `SlotsAccounted` is inductive with `Bounded`; the nested stages are one lemma for taking and one for
giving back a slot. `Blamed` says that an error a goroutine can see in `err`, or gave in a lookup of its own, is of a lookup
that failed in this run; that is all `EarlyEnds` needs, because no stage assigns `err`. `Verified` says how much of a sector is in storage at each step of
finalize, which gives both `OnlyVerifiedStored` and, for the step that removes the unsealed file, `UnsealedKept`.

**ConfigMigrate.** `Sound` says for every step of a migration which file holds the settings: while the old version's
file is rewritten `buf` has them, while the new file is written the old one still does unless it is the same file, and
all files of versions older than the current one are as those versions left them (`Older`), so that a downgrade and
an upgrade after it find them. A file that is kept parses too, unless the user has changed something. Once a fault has cut the
file that `config.toml` is, it still says which versions the files are of, but not that they have the settings or parse (`torn` in
`Kept`): a partial write is of the version it was to be or, without the line that says it, of version 0 and empty (`PartVersion`).
That much is enough for `OutcomeExplained`: where ConfigUpdate refuses to write settings, some line of theirs is the
default line of another setting (`UpdateRefuses`); where a file does not parse, the user or a cut has made it so (`KeptParses`);
and where a migration stops for another reason without an I/O error, `config.toml` or the older file is missing (`CurrentGone`).

**YbTracker.** For the flags, `Batches` says that the pieces of a batch and the piece being checked have their rows:
only the miner's own doctor removes rows, and each piece comes up once in a batch; before it untracks a piece it has
removed the flag. For the misses, `Followed` says of each pair that has its deal and metadata, and is neither tracked
nor missed, that a doctor is about to insert it, or that its time is at or above the watermark and every running round is
`Within`: it will not insert rows of a later time without inserting this pair too, whatever watermark it read.
`MissesExplained` alone is not inductive, because it says nothing of the rounds under way. That the
set of times has a maximum at all follows from the well-foundedness of `<` (`MaxOfTimes`).

Model-checked only, and why:

* liveness (`MutexReleased`, `CallsServed`, `SectorDbSettles`, `FlagsSettle`, `NoReaderLeaked`, `CallsReturn`, `EveryJobEnds`):
  fairness and `ENABLED` are out of the prover's reach;
* `LdbDoctor!TypeOK`: everything said of the doctor and of `SectorState` is about what they settle to, that is, liveness.

## 6. Not modelled

* The JSON-RPC service, dependency injection, lifecycle and `MonitorShutdown`: wiring without state of its own. Of
  the node builder only "migrate, then read the configuration" is in a model.
* The deals database: single SQL statements, whose atomicity is SQLite's. The migrations of
  Postgres are goose's, and the list of Cassandra migrations is empty at this commit.
* harmonydb's BeginTransaction: nothing calls it.
* An mv that outlives the reseal command that started it; the machine, rather than the process, going down.
* The commands gen, create and index: sequential calls into txcar and the piece directory.
* Sealing, CAR and data segment formats, the CARv2 index types: third-party; where their results matter they are
  sets of outcomes.
* BlockstoreHas and the iteration over an index; a `ConfigVersion` that the user changes; overrides
  of the configuration by the environment, and the diff ConfigUpdate can write.
* Several miners on the LevelDB doctor tables: they share one `offset`, and which pieces each skips depends
  on nothing but how their rounds alternate.
* Generated documentation, metrics, tracing and type declarations.

What could follow, most useful first: two miners in `LdbDoctor`; an abstract specification of `YbStore` that allows what
overlapping calls do to each other, as `PieceIndex` allows what `LdbStore` does; a safety invariant for the rounds of the doctor.
