---------------------------- MODULE SharedReader ----------------------------
(***************************************************************************)
(* The shared piece readers of PieceDirectory: GetSharedPieceReader, the   *)
(* Close of a cachedSectionReader and the expiry callback of the cache     *)
(* (lib/boost/piecedirectory/piecedirectory.go:112-130 and 715-805).       *)
(*                                                                         *)
(* Readers of different pieces share nothing but the mutex, so the model   *)
(* has one piece; a new cachedSectionReader for it is the next member of   *)
(* Readers.  The ttlcache is external.  It may forget an entry at any time *)
(* (TTL, size limit); the callback of an evicted entry runs in a goroutine *)
(* of its own, so callers run between the eviction and the callback.       *)
(***************************************************************************)
EXTENDS Integers, FiniteSets

CONSTANTS
  Callers,    \* goroutines that read from the piece
  MaxReaders, \* bound: readers created
  MaxCalls    \* bound: calls of GetSharedPieceReader

Readers == 1..MaxReaders
None == 0

ASSUME SharedReaderAssumption ==
  IsFiniteSet(Callers) /\ MaxReaders \in Nat /\ MaxCalls \in Nat

VARIABLES
  cached,     \* the reader pieceReaderCache.Get returns, None for a miss
  queued,     \* readers the cache has still to evict
  callbacks,  \* readers evicted whose callback has not run yet
  created,    \* readers created so far
  reader,     \* the fields of each cachedSectionReader
  caller,     \* where each goroutine is, and its reader
  calls       \* calls so far (bounds the model)

vars == <<cached, queued, callbacks, created, reader, caller, calls>>

\* cancel: "unset" until the creator assigns it; "nil" records a call made
\* before that.
Reader == [refs: Nat, expired: BOOLEAN, ready: BOOLEAN, err: BOOLEAN,
           cancel: {"unset", "set", "called", "nil"}]

PCs == {"idle", "fill", "announce", "check", "await", "holding", "closing"}

TypeOK ==
  /\ cached \in Readers \cup {None}
  /\ queued \subseteq Readers
  /\ callbacks \subseteq Readers
  /\ created \in 0..MaxReaders
  /\ reader \in [Readers -> Reader]
  /\ caller \in [Callers -> [pc: PCs, r: Readers \cup {None}]]
  /\ calls \in 0..MaxCalls

Init ==
  /\ cached = None
  /\ queued = {}
  /\ callbacks = {}
  /\ created = 0
  /\ reader = [r \in Readers |-> [refs |-> 0, expired |-> FALSE, ready |-> FALSE,
                                  err |-> FALSE, cancel |-> "unset"]]
  /\ caller = [c \in Callers |-> [pc |-> "idle", r |-> None]]
  /\ calls = 0

Goto(c, pc) == caller' = [caller EXCEPT ![c].pc = pc]

\* r.cancel(), a call of a nil function when the field is not assigned yet.
CancelCalled(r) == IF reader[r].cancel = "unset" THEN "nil" ELSE "called"

-----------------------------------------------------------------------------
(* GetSharedPieceReader *)

\* Mutant: the creator does not count itself.
MissUncounted(c) ==
  /\ caller[c].pc = "idle"
  /\ cached = None
  /\ created < MaxReaders /\ calls < MaxCalls
  /\ LET r == created + 1
     IN  /\ created' = r
         /\ cached' = r
         /\ queued' = queued \cup {r}
         /\ caller' = [caller EXCEPT ![c] = [pc |-> "fill", r |-> r]]
  /\ calls' = calls + 1
  /\ UNCHANGED <<callbacks, reader>>

\* No entry: create one and put it in the cache, in one critical section.
Miss(c) ==
  /\ caller[c].pc = "idle"
  /\ cached = None
  /\ created < MaxReaders /\ calls < MaxCalls
  /\ LET r == created + 1
     IN  /\ created' = r
         /\ reader' = [reader EXCEPT ![r].refs = 1]
         /\ cached' = r
         /\ queued' = queued \cup {r}
         /\ caller' = [caller EXCEPT ![c] = [pc |-> "fill", r |-> r]]
  /\ calls' = calls + 1
  /\ UNCHANGED callbacks

\* The creator gets the underlying reader, with the mutex released.
Fill(c) ==
  /\ caller[c].pc = "fill"
  /\ \E err \in BOOLEAN :
       reader' = [reader EXCEPT ![caller[c].r].err = err, ![caller[c].r].cancel = "set"]
  /\ Goto(c, "announce")
  /\ UNCHANGED <<cached, queued, callbacks, created, calls>>

Announce(c) ==
  /\ caller[c].pc = "announce"
  /\ reader' = [reader EXCEPT ![caller[c].r].ready = TRUE]
  /\ Goto(c, "check")
  /\ UNCHANGED <<cached, queued, callbacks, created, calls>>

Hit(c) ==
  /\ caller[c].pc = "idle"
  /\ cached # None
  /\ calls < MaxCalls
  /\ reader' = [reader EXCEPT ![cached].refs = @ + 1]
  /\ caller' = [caller EXCEPT ![c] = [pc |-> "await", r |-> cached]]
  /\ calls' = calls + 1
  /\ UNCHANGED <<cached, queued, callbacks, created>>

\* Mutant: a cancelled wait returns without closing the reader.
AwaitCancelledNoClose(c) ==
  /\ caller[c].pc = "await"
  /\ caller' = [caller EXCEPT ![c] = [pc |-> "idle", r |-> None]]
  /\ UNCHANGED <<cached, queued, callbacks, created, reader, calls>>

AwaitCancelled(c) ==
  /\ caller[c].pc = "await"
  /\ Goto(c, "closing")
  /\ UNCHANGED <<cached, queued, callbacks, created, reader, calls>>

AwaitReady(c) ==
  /\ caller[c].pc = "await"
  /\ reader[caller[c].r].ready
  /\ Goto(c, "check")
  /\ UNCHANGED <<cached, queued, callbacks, created, reader, calls>>

CheckErr(c) ==
  /\ caller[c].pc = "check"
  /\ Goto(c, IF reader[caller[c].r].err THEN "closing" ELSE "holding")
  /\ UNCHANGED <<cached, queued, callbacks, created, reader, calls>>

\* The caller is done reading.
DoneReading(c) ==
  /\ caller[c].pc = "holding"
  /\ Goto(c, "closing")
  /\ UNCHANGED <<cached, queued, callbacks, created, reader, calls>>

-----------------------------------------------------------------------------
(* cachedSectionReader.Close and the expiry callback *)

\* Mutant: Close leaves the cancelling to the callback.
CloseKeepsContext(c) ==
  /\ caller[c].pc = "closing"
  /\ reader' = [reader EXCEPT ![caller[c].r].refs = @ - 1]
  /\ caller' = [caller EXCEPT ![c] = [pc |-> "idle", r |-> None]]
  /\ UNCHANGED <<cached, queued, callbacks, created, calls>>

Close(c) ==
  /\ caller[c].pc = "closing"
  /\ LET r == caller[c].r
         refs == reader[r].refs - 1
     IN  reader' = [reader EXCEPT
           ![r].refs = refs,
           ![r].cancel = IF refs = 0 /\ reader[r].expired THEN CancelCalled(r) ELSE @]
  /\ caller' = [caller EXCEPT ![c] = [pc |-> "idle", r |-> None]]
  /\ UNCHANGED <<cached, queued, callbacks, created, calls>>

\* Mutant: the callback does not look at refs.
ExpireInUse(r) ==
  /\ r \in callbacks
  /\ callbacks' = callbacks \ {r}
  /\ reader' = [reader EXCEPT ![r].expired = TRUE, ![r].cancel = CancelCalled(r)]
  /\ UNCHANGED <<cached, queued, created, caller, calls>>

ExpireCallback(r) ==
  /\ r \in callbacks
  /\ callbacks' = callbacks \ {r}
  /\ reader' = [reader EXCEPT
       ![r].expired = TRUE,
       ![r].cancel = IF reader[r].refs <= 0 THEN CancelCalled(r) ELSE @]
  /\ UNCHANGED <<cached, queued, created, caller, calls>>

\* External: Get already misses an entry whose TTL is over.
Lapse ==
  /\ cached # None
  /\ cached' = None
  /\ UNCHANGED <<queued, callbacks, created, reader, caller, calls>>

\* External: the cache evicts an entry by its key, and so drops a younger
\* entry that took the key of a lapsed one.
Evict(r) ==
  /\ r \in queued
  /\ queued' = queued \ {r}
  /\ callbacks' = callbacks \cup {r}
  /\ cached' = None
  /\ UNCHANGED <<created, reader, caller, calls>>

-----------------------------------------------------------------------------
CallerStep(c) ==
  \/ Fill(c)
  \/ Announce(c)
  \/ AwaitReady(c)
  \/ CheckErr(c)
  \/ DoneReading(c)
  \/ Close(c)

\* Every call was made and everything it left behind is over.
Finished ==
  /\ calls = MaxCalls \/ (cached = None /\ created = MaxReaders)
  /\ queued = {} /\ callbacks = {}
  /\ \A c \in Callers : caller[c].pc = "idle"
  /\ UNCHANGED vars

Next ==
  \/ \E c \in Callers : Miss(c) \/ Hit(c) \/ AwaitCancelled(c) \/ CallerStep(c)
  \/ \E r \in Readers : ExpireCallback(r) \/ Evict(r)
  \/ Lapse
  \/ Finished

\* Callers that got a reader read on and close it, goroutines run, and with
\* at most MaxCalls calls to extend its TTL every entry is evicted.
Fairness ==
  /\ \A c \in Callers : WF_vars(CallerStep(c))
  /\ \A r \in Readers : WF_vars(ExpireCallback(r)) /\ WF_vars(Evict(r))

Spec == Init /\ [][Next]_vars /\ Fairness

-----------------------------------------------------------------------------
Users(r) == {c \in Callers : caller[c].r = r}

\* A caller that was given a reader can read from it until it closes it:
\* the context under the reader is not cancelled before that, whenever the
\* entry expires.  (piecedirectory.go:729-742 and 112-128.)
HeldNotCancelled ==
  \A c \in Callers : caller[c].pc = "holding" => reader[caller[c].r].cancel = "set"

\* cancel is assigned without the mutex (line 775); still neither Close nor
\* the callback ever calls it before the assignment.
NoNilCancel == \A r \in Readers : reader[r].cancel # "nil"

\* refs counts the calls that still have to close the reader, so a reader
\* nobody uses and the cache forgot is cancelled, exactly then.
CancelledWhenUnused ==
  \A r \in Readers :
    /\ reader[r].refs = Cardinality(Users(r))
    /\ reader[r].cancel = "called" <=> reader[r].expired /\ Users(r) = {}

\* No reader is leaked: its context is cancelled in the end.
NoReaderLeaked ==
  \A r \in Readers : (created >= r) ~> (reader[r].cancel = "called")

=============================================================================
