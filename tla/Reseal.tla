------------------------------- MODULE Reseal -------------------------------
(***************************************************************************)
(* The reseal command (cmd/reseal.go): one goroutine per sector of the     *)
(* sid-file takes the sector through add piece, pre-commit 1, pre-commit 2 *)
(* and finalize, and buffered channels bound how many are in each stage.   *)
(*                                                                         *)
(* The goroutines share the variable `err' of Reseal in the two database   *)
(* lookups.  The files of a sector survive the process, so the command can *)
(* be killed at any point and run again on what it left.                   *)
(*                                                                         *)
(* Sealing itself and txcar are external: a stage fails or succeeds, and a *)
(* file is only told apart by whether the sealed CID computed from it was  *)
(* found equal to the one on chain, and whether it is whole.  A sector is  *)
(* listed once.  An mv that outlives the killed command is left out.       *)
(***************************************************************************)
EXTENDS Naturals, FiniteSets

CONSTANTS
  Sectors,   \* the sectors of the sid-file
  Matching,  \* those whose CAR key gives the piece CID that is on chain
  SMax,      \* --smax
  P1Max,     \* --p1max
  MaxRuns    \* bound: times the command is run

ASSUME ResealAssumption ==
  /\ IsFiniteSet(Sectors)
  /\ Matching \subseteq Sectors
  /\ SMax \in Nat \ {0}
  /\ P1Max \in Nat \ {0}
  /\ MaxRuns \in Nat \ {0}

VARIABLES
  err,     \* the error variable of Reseal; TRUE when it holds an error
  failed,  \* history: a lookup of this run has failed
  slots,   \* elements in each throttle channel
  job,     \* the goroutine of each sector
  work,    \* the sector's files in the seal directory
  stored,  \* and in the storage directory
  runs     \* runs of the command so far (bounds the model)

vars == <<err, failed, slots, job, work, stored, runs>>

Cap == [sectors |-> SMax, ap |-> 1, p1 |-> P1Max, p2 |-> 1, fin |-> 1]

SealTypes == {"AP", "P1", "P2", "FIN"}
Content == {"none", "raw", "partial", "verified"}  \* partial: of a verified one
PCs == {"queued", "select1", "check1", "select2", "check2", "ap", "addPiece",
        "p1", "precommit1", "p2", "precommit2", "fin", "finalize", "moveSealed",
        "moveCache", "removeUnsealed", "return", "done"}

\* lookup: did the last lookup fail; one: did it give one row.
Job == [pc: PCs, sealType: SealTypes, lookup: BOOLEAN, one: BOOLEAN,
        pi: {"none", "empty", "matching"}]

TypeOK ==
  /\ err \in BOOLEAN /\ failed \in BOOLEAN
  /\ slots \in [DOMAIN Cap -> Nat]
  /\ job \in [Sectors -> Job]
  /\ work \in [Sectors -> [unsealed: BOOLEAN, sealed: Content, cache: Content]]
  /\ stored \in [Sectors -> [sealed: Content, cache: Content]]
  /\ runs \in 0..MaxRuns

NewJob(sealType) ==
  [pc |-> "queued", sealType |-> sealType, lookup |-> FALSE, one |-> FALSE,
   pi |-> "none"]

Init ==
  /\ err = FALSE /\ failed = FALSE
  /\ slots = [t \in DOMAIN Cap |-> 0]
  /\ job \in [Sectors -> {NewJob(t) : t \in SealTypes}]
  /\ work = [s \in Sectors |-> [unsealed |-> FALSE, sealed |-> "none", cache |-> "none"]]
  /\ stored = [s \in Sectors |-> [sealed |-> "none", cache |-> "none"]]
  /\ runs = 1

At(s, pc) == job[s].pc = pc
Goto(s, pc) == job' = [job EXCEPT ![s].pc = pc]

\* A send on a throttle channel and the deferred receive.
Enter(t) == slots[t] < Cap[t] /\ slots' = [slots EXCEPT ![t] = @ + 1]
Leave(t) == slots' = [slots EXCEPT ![t] = @ - 1]

-----------------------------------------------------------------------------
(* The database lookups. *)

Start(s) ==
  /\ At(s, "queued")
  /\ Enter("sectors")
  /\ Goto(s, "select1")
  /\ UNCHANGED <<err, failed, work, stored, runs>>

\* `err = db.Select(...)', once per table, on the variable all goroutines share.
Select(s) ==
  \E from \in {"select1", "select2"}, fails, one \in BOOLEAN :
    /\ At(s, from)
    /\ err' = fails
    /\ job' = [job EXCEPT ![s].pc = IF from = "select1" THEN "check1" ELSE "check2",
                          ![s].lookup = fails, ![s].one = one]
    /\ failed' = (failed \/ fails)
    /\ UNCHANGED <<slots, work, stored, runs>>

\* `if err != nil' races with the other goroutines: it sees what this one
\* wrote or what is there now.
CheckErr(s) ==
  /\ At(s, "check1") \/ At(s, "check2")
  /\ \E seen \in {job[s].lookup, err} :
       Goto(s, CASE seen -> "return"
                 [] ~seen /\ job[s].one -> "ap"
                 [] OTHER -> IF At(s, "check1") THEN "select2" ELSE "return")
  /\ UNCHANGED <<err, failed, slots, work, stored, runs>>

-----------------------------------------------------------------------------
(* The stages. *)

EnterStage(s) ==
  /\ \/ At(s, "ap") /\ Enter("ap") /\ Goto(s, "addPiece")
     \/ At(s, "p1") /\ Enter("p1") /\ Goto(s, "precommit1")
     \/ At(s, "p2") /\ Enter("p2") /\ Goto(s, "precommit2")
     \/ At(s, "fin") /\ Enter("fin") /\ Goto(s, "finalize")
  /\ UNCHANGED <<err, failed, work, stored, runs>>

addPieceSucceeds(s) ==
  /\ job' = [job EXCEPT ![s].pc = IF job[s].sealType = "AP" THEN "return" ELSE "p1",
                        ![s].pi = IF s \in Matching THEN "matching" ELSE "empty"]
  /\ work' = [work EXCEPT ![s].unsealed = @ \/ s \in Matching]

addPieceFails(s) == Goto(s, "return") /\ UNCHANGED work

\* Mutant: `=' for `:=', and the error goes to the variable all goroutines share.
addPieceLeaksError(s) ==
  /\ At(s, "addPiece")
  /\ Leave("ap")
  /\ \/ addPieceFails(s) /\ err' = TRUE
     \/ addPieceSucceeds(s) /\ err' = FALSE
  /\ UNCHANGED <<failed, stored, runs>>

\* When the CIDs differ addPiece returns no piece and the error that is nil
\* at that point, and the goroutine goes on.
addPiece(s) ==
  /\ At(s, "addPiece")
  /\ Leave("ap")
  /\ addPieceFails(s) \/ addPieceSucceeds(s)
  /\ UNCHANGED <<err, failed, stored, runs>>

\* Mutant: the early return of an error keeps the slot.
precommit1KeepsSlot(s) ==
  /\ At(s, "precommit1")
  /\ \/ Goto(s, "return") /\ UNCHANGED <<work, slots>>
     \/ /\ work[s].unsealed
        /\ Leave("p1")
        /\ Goto(s, IF job[s].sealType = "P1" THEN "return" ELSE "p2")
        /\ work' = [work EXCEPT ![s].sealed = "raw", ![s].cache = "raw"]
  /\ UNCHANGED <<err, failed, stored, runs>>

\* A failed SealPreCommit1 may have written part of its files.
precommit1(s) ==
  /\ At(s, "precommit1")
  /\ Leave("p1")
  /\ \/ /\ Goto(s, "return")
        /\ work' \in {work, [work EXCEPT ![s].sealed = "raw", ![s].cache = "raw"]}
     \/ /\ work[s].unsealed
        /\ Goto(s, IF job[s].sealType = "P1" THEN "return" ELSE "p2")
        /\ work' = [work EXCEPT ![s].sealed = "raw", ![s].cache = "raw"]
  /\ UNCHANGED <<err, failed, stored, runs>>

\* Mutant: the sealed CID is not compared.
precommit2Unchecked(s) ==
  /\ At(s, "precommit2")
  /\ Leave("p2")
  /\ \/ Goto(s, "return") /\ UNCHANGED work
     \/ /\ Goto(s, IF job[s].sealType = "P2" THEN "return" ELSE "fin")
        /\ \E c \in {"raw", "verified"} :
             work' = [work EXCEPT ![s].sealed = c, ![s].cache = c]
  /\ UNCHANGED <<err, failed, stored, runs>>

\* SealPreCommit2 and the comparison of its sealed CID with the chain's.
precommit2(s) ==
  /\ At(s, "precommit2")
  /\ Leave("p2")
  /\ \/ Goto(s, "return") /\ UNCHANGED work
     \/ /\ job[s].pi = "matching"
        /\ Goto(s, IF job[s].sealType = "P2" THEN "return" ELSE "fin")
        /\ work' = [work EXCEPT ![s].sealed = "verified", ![s].cache = "verified"]
  /\ UNCHANGED <<err, failed, stored, runs>>

-----------------------------------------------------------------------------
(* finalize: four steps, each of which can fail.                           *)

FinalizeFails(s) ==
  /\ job[s].pc \in {"finalize", "moveSealed", "moveCache", "removeUnsealed"}
  /\ Goto(s, "return")
  /\ Leave("fin")
  /\ UNCHANGED <<err, failed, work, stored, runs>>

FinalizeSector(s) ==
  /\ At(s, "finalize")
  /\ Goto(s, "moveSealed")
  /\ UNCHANGED <<err, failed, slots, work, stored, runs>>

\* Mutant: the cache is skipped with the other path types.
MoveSealedOnly(s) ==
  /\ At(s, "moveSealed")
  /\ work[s].sealed # "none"
  /\ stored' = [stored EXCEPT ![s].sealed = work[s].sealed]
  /\ work' = [work EXCEPT ![s].sealed = "none"]
  /\ Goto(s, "removeUnsealed")
  /\ UNCHANGED <<err, failed, slots, runs>>

\* mv replaces a file.
MoveSealed(s) ==
  /\ At(s, "moveSealed")
  /\ work[s].sealed # "none"
  /\ stored' = [stored EXCEPT ![s].sealed = work[s].sealed]
  /\ work' = [work EXCEPT ![s].sealed = "none"]
  /\ Goto(s, "moveCache")
  /\ UNCHANGED <<err, failed, slots, runs>>

\* mv does not replace a directory that has files in it.
MoveCache(s) ==
  /\ At(s, "moveCache")
  /\ work[s].cache # "none" /\ stored[s].cache = "none"
  /\ stored' = [stored EXCEPT ![s].cache = work[s].cache]
  /\ work' = [work EXCEPT ![s].cache = "none"]
  /\ Goto(s, "removeUnsealed")
  /\ UNCHANGED <<err, failed, slots, runs>>

\* Between two file systems mv copies and then deletes, and fails with a part
\* of the copy made or a part of the source deleted.  A kill in the middle
\* leaves what such a failure and then a Rerun leave.
MoveCutShort(s) ==
  /\ \/ /\ At(s, "moveSealed")
        /\ work[s].sealed # "none"
        /\ \E copied \in {"partial", work[s].sealed} :
             stored' = [stored EXCEPT ![s].sealed = copied]
        /\ UNCHANGED work
     \/ /\ At(s, "moveCache")
        /\ work[s].cache # "none" /\ stored[s].cache = "none"
        /\ \/ /\ stored' = [stored EXCEPT ![s].cache = "partial"]
              /\ UNCHANGED work
           \/ /\ stored' = [stored EXCEPT ![s].cache = work[s].cache]
              /\ work' = [work EXCEPT ![s].cache = "partial"]
  /\ Goto(s, "return")
  /\ Leave("fin")
  /\ UNCHANGED <<err, failed, runs>>

RemoveUnsealed(s) ==
  /\ At(s, "removeUnsealed")
  /\ work[s].unsealed
  /\ work' = [work EXCEPT ![s].unsealed = FALSE]
  /\ Goto(s, "return")
  /\ Leave("fin")
  /\ UNCHANGED <<err, failed, stored, runs>>

\* Mutant: the slot is given back by the job and again by its defer.
EndJobTwice(s) ==
  /\ At(s, "return")
  /\ Leave("sectors")
  /\ UNCHANGED <<err, failed, job, work, stored, runs>>

\* The deferred receive from sectorsThrottle, and wg.Done.
EndJob(s) ==
  /\ At(s, "return")
  /\ Leave("sectors")
  /\ Goto(s, "done")
  /\ UNCHANGED <<err, failed, work, stored, runs>>

-----------------------------------------------------------------------------
\* The command was killed, or ended, and is run again: it keeps the files.
Rerun ==
  /\ runs < MaxRuns
  /\ runs' = runs + 1
  /\ err' = FALSE /\ failed' = FALSE
  /\ slots' = [t \in DOMAIN Cap |-> 0]
  /\ job' \in [Sectors -> {NewJob(t) : t \in SealTypes}]
  /\ UNCHANGED <<work, stored>>

Waits(s) == Start(s) \/ EnterStage(s)

Step(s) ==
  \/ Select(s) \/ CheckErr(s)
  \/ addPiece(s) \/ precommit1(s) \/ precommit2(s)
  \/ FinalizeFails(s) \/ FinalizeSector(s)
  \/ MoveSealed(s) \/ MoveCache(s) \/ MoveCutShort(s) \/ RemoveUnsealed(s)
  \/ EndJob(s)

\* wg.Wait has returned, and the command is not run again.
Finished ==
  /\ runs = MaxRuns
  /\ \A s \in Sectors : At(s, "done")
  /\ UNCHANGED vars

Next ==
  \/ \E s \in Sectors : Waits(s) \/ Step(s)
  \/ Rerun
  \/ Finished

\* Goroutines run, and senders blocked on a channel are served in turn.
Fairness == \A s \in Sectors : WF_vars(Step(s)) /\ SF_vars(Waits(s))

Spec == Init /\ [][Next]_vars /\ Fairness

-----------------------------------------------------------------------------
Holding ==
  [sectors |-> PCs \ {"queued", "done"}, ap |-> {"addPiece"}, p1 |-> {"precommit1"},
   p2 |-> {"precommit2"},
   fin |-> {"finalize", "moveSealed", "moveCache", "removeUnsealed"}]

\* Every way out of a stage gives back the slot the goroutine took and no
\* other, so no more goroutines are in a stage than its throttle allows.
\* (The nested defers of reseal.go:129-264.)
SlotsAccounted ==
  \A t \in DOMAIN Cap :
    slots[t] = Cardinality({s \in Sectors : job[s].pc \in Holding[t]})

\* The storage directory never gets a sector whose sealed CID was not compared
\* with the chain's, whatever runs were cut short before and at which stage
\* they were to stop: what a cut copy leaves is part of a verified one.
\* (reseal.go:364-445.)
OnlyVerifiedStored ==
  \A s \in Sectors : stored[s].sealed # "raw" /\ stored[s].cache # "raw"

\* The unsealed file, from which the sector can be sealed again, is removed
\* only when the sealed file and the cache are both in storage, and whole,
\* whatever moves were cut short before.  (reseal.go:420-440.)
UnsealedKeptUntilStored ==
  [][\A s \in Sectors : work[s].unsealed /\ ~work'[s].unsealed =>
       stored[s].sealed = "verified" /\ stored[s].cache = "verified"]_vars

\* A goroutine that ends before addPiece, its first stage, finds no sector in
\* the second table either, or a lookup failed: its own, or another goroutine's,
\* because lines 142 and 150 assign a variable of Reseal that all of them
\* share.  No row in the first table ends nothing, nor does what fails in the
\* stages (each `err :=' of lines 164-250 is a new variable), nor the error of
\* an earlier run.
EarlyEndExplained ==
  [][\A s \in Sectors :
       job[s].pc \in {"select1", "check1", "select2", "check2", "ap"} /\ At(s, "return")' =>
         failed \/ (At(s, "check2") /\ ~job[s].one)]_vars

\* wg.Wait returns: no goroutine waits for ever in the nested throttles.
EveryJobEnds == \A s \in Sectors : ~At(s, "done") ~> At(s, "done")

=============================================================================
