---------------------------- MODULE SectorState ----------------------------
(***************************************************************************)
(* The sector state manager (lib/boost/sectorstatemgr): every interval it  *)
(* reads which files of each sector lotus stores, writes what changed to   *)
(* the sector database, and publishes the whole of what it read.  Its own  *)
(* subscriber keeps the last publication it received as LatestUpdate.      *)
(*                                                                         *)
(* The sector database has no other writer, so that reading it is one      *)
(* action with reading the storage.  The active sectors are read later.    *)
(* SectorWithDeals is left out: nothing reads it.                          *)
(***************************************************************************)
EXTENDS Naturals

CONSTANTS
  Sectors,
  None,
  MaxEvents  \* bound: failing calls, restarts and changes around the manager

ASSUME SectorStateAssumption == MaxEvents \in Nat

VARIABLES
  storage,  \* the types of file lotus stores of each sector
  active,   \* the active sectors of the miner on chain
  sdb,      \* SectorState table: the state of each sector, None without a row
  refresh,  \* the refresh that runs
  sub,      \* the goroutine of UpdateLatest
  latest,   \* LatestUpdate
  events

managerVars == <<sdb, refresh, sub, latest>>
sectorVars == <<storage, active, managerVars>>

FileTypes == {"unsealed", "sealed", "cache"}
SealStates == {"Unsealed", "Sealed", "Cache", "Removed"}

\* SectorStateUpdates, without what changed.
Update == [active: SUBSET Sectors, states: [Sectors -> SealStates \cup {None}]]

Refresh == [pc: {"idle", "chain", "write", "publish"}, active: SUBSET Sectors,
            states: [Sectors -> SealStates \cup {None}], todo: SUBSET Sectors]

Subscriber == [pc: {"starting", "receiving", "busy"}, update: Update \cup {None}]

NoRefresh == [pc |-> "idle", active |-> {}, states |-> [s \in Sectors |-> None], todo |-> {}]
NoSubscriber == [pc |-> "starting", update |-> None]

SectorTypeOK ==
  /\ storage \in [Sectors -> SUBSET FileTypes]
  /\ active \subseteq Sectors
  /\ sdb \in [Sectors -> SealStates \cup {None}]
  /\ refresh \in Refresh
  /\ sub \in Subscriber
  /\ latest \in Update \cup {None}
  /\ events \in 0..MaxEvents

\* The manager starts with whatever the tables hold; the sectors may not be active yet.
SectorInit ==
  /\ storage = [s \in Sectors |-> FileTypes]
  /\ active \in {{}, Sectors}
  /\ sdb = [s \in Sectors |-> None]
  /\ refresh = NoRefresh
  /\ sub = NoSubscriber
  /\ latest = None
  /\ events = 0

-----------------------------------------------------------------------------
Event == events < MaxEvents /\ events' = events + 1

\* The declarations of a sector may come in any order; an unsealed file counts for
\* more than a sealed one, and that more than any other.
SealState(files) ==
  IF "unsealed" \in files THEN "Unsealed"
  ELSE IF "sealed" \in files THEN "Sealed"
  ELSE IF files # {} THEN "Cache"
  ELSE None

\* Mutant: a sector that was removed once stays so.
ChangedUnlessRemoved(states, s) ==
  IF sdb[s] = None THEN states[s] # None
  ELSE sdb[s] # "Removed" /\ (states[s] = None \/ (states[s] # sdb[s] /\ states[s] # "Cache"))

\* What refreshState finds to have changed: a sector that only a cache is left of keeps
\* its row, and one without files is Removed, again and again.
Changed(states, s) ==
  IF sdb[s] = None THEN states[s] # None
  ELSE states[s] = None \/ (states[s] # sdb[s] /\ states[s] # "Cache")

ReadStorage ==
  LET states == [s \in Sectors |-> SealState(storage[s])] IN
  /\ refresh.pc = "idle"
  /\ refresh' = [NoRefresh EXCEPT !.pc = "chain", !.states = states,
                                  !.todo = {s \in Sectors : Changed(states, s)}]
  /\ UNCHANGED <<storage, active, sdb, sub, latest, events>>

ReadActive ==
  /\ refresh.pc = "chain"
  /\ refresh' = [refresh EXCEPT !.active = active,
                                !.pc = IF refresh.todo = {} THEN "publish" ELSE "write"]
  /\ UNCHANGED <<storage, active, sdb, sub, latest, events>>

WriteUpdate(s) ==
  LET left == refresh.todo \ {s} IN
  /\ refresh.pc = "write"
  /\ s \in refresh.todo
  /\ sdb' = [sdb EXCEPT ![s] = IF refresh.states[s] = None THEN "Removed" ELSE refresh.states[s]]
  /\ refresh' = [refresh EXCEPT !.todo = left, !.pc = IF left = {} THEN "publish" ELSE @]
  /\ UNCHANGED <<storage, active, sub, latest, events>>

\* A call or a write fails: nothing is published, and some rows may be written.
RefreshFails ==
  /\ refresh.pc \in {"chain", "write"}
  /\ Event
  /\ refresh' = NoRefresh
  /\ UNCHANGED <<storage, active, sdb, sub, latest>>

\* A subscriber that is not receiving is skipped.
Publish ==
  /\ refresh.pc = "publish"
  /\ sub' = IF sub.pc = "receiving"
            THEN [pc |-> "busy",
                  update |-> [active |-> refresh.active, states |-> refresh.states]]
            ELSE sub
  /\ refresh' = NoRefresh
  /\ UNCHANGED <<storage, active, sdb, latest, events>>

Subscribe ==
  /\ sub.pc = "starting"
  /\ sub' = [sub EXCEPT !.pc = "receiving"]
  /\ UNCHANGED <<storage, active, sdb, refresh, latest, events>>

UpdateLatest ==
  /\ sub.pc = "busy"
  /\ latest' = sub.update
  /\ sub' = [pc |-> "receiving", update |-> None]
  /\ UNCHANGED <<storage, active, sdb, refresh, events>>

ManagerStep ==
  \/ ReadStorage \/ ReadActive \/ Publish
  \/ \E s \in Sectors : WriteUpdate(s)

SubscriberStep == Subscribe \/ UpdateLatest

-----------------------------------------------------------------------------
\* The sector database follows the storage: in the end it has the state of every sector
\* that has files or had them, whatever failed on the way; a cache does not count.
SectorDbSettles ==
  <>[](\A s \in Sectors :
         LET now == SealState(storage[s]) IN
         \/ sdb[s] = now
         \/ now = "Cache" /\ sdb[s] # None
         \/ now = None /\ sdb[s] = "Removed")

=============================================================================
