---------------------------- MODULE ResealProofs ----------------------------
(***************************************************************************)
(* Theorems about Reseal, for any number of sectors, any --smax and        *)
(* --p1max, and any number of runs of the command on the files the earlier *)
(* ones left.                                                              *)
(***************************************************************************)
EXTENDS Reseal, FiniteSetTheorems, TLAPS

USE ResealAssumption

Holders(t) == {s \in Sectors : job[s].pc \in Holding[t]}

\* No throttle has more elements than its channel takes.
Bounded == \A t \in DOMAIN Cap : slots[t] <= Cap[t]

\* What a goroutine can see of an error comes from a lookup that failed in this run.
Blamed ==
  /\ err => failed
  /\ \A s \in Sectors : job[s].lookup => failed

\* How much of a sector is in storage while finalize moves it, and that all of it was verified.
Verified ==
  \A s \in Sectors :
    /\ job[s].pc \in {"fin", "finalize", "moveSealed"} => work[s].sealed = "verified"
    /\ job[s].pc \in {"fin", "finalize", "moveSealed", "moveCache"} =>
         work[s].cache = "verified"
    /\ job[s].pc \in {"moveCache", "removeUnsealed"} => stored[s].sealed = "verified"
    /\ At(s, "removeUnsealed") => stored[s].cache = "verified"

IInv ==
  TypeOK /\ SlotsAccounted /\ Bounded /\ Blamed /\ Verified
    /\ OnlyVerifiedStored

-----------------------------------------------------------------------------
(* The goroutines in a stage and their number. *)

LEMMA HoldersFinite ==
  ASSUME NEW t
  PROVE  IsFiniteSet(Holders(t)) /\ Cardinality(Holders(t)) \in Nat
<1>1. Holders(t) \in SUBSET Sectors
  BY DEF Holders
<1> QED
  BY <1>1, FS_Subset, FS_CardinalityType

LEMMA NobodyHolds ==
  ASSUME NEW t \in DOMAIN Cap, \A s \in Sectors : job[s].pc = "queued"
  PROVE  Cardinality(Holders(t)) = 0
<1>1. Holders(t) = {}
  BY DEF Holders, Holding, Cap, PCs
<1> QED
  BY <1>1, FS_EmptySet

\* A step of one goroutine that neither takes nor gives back a slot.
LEMMA SlotsKept ==
  ASSUME SlotsAccounted, Bounded, UNCHANGED slots,
         \A t \in DOMAIN Cap : \A s \in Sectors :
           job'[s].pc \in Holding[t] <=> job[s].pc \in Holding[t]
  PROVE  SlotsAccounted' /\ Bounded'
<1>1. \A t \in DOMAIN Cap : Holders(t)' = Holders(t)
  BY DEF Holders, Holding
<1>2. \A t \in DOMAIN Cap' : slots'[t] = Cardinality(Holders(t)')
  BY <1>1 DEF SlotsAccounted, Holders, Cap
<1> QED
  BY <1>2 DEF SlotsAccounted, Bounded, Holders, Cap

\* One goroutine enters stage u, and everything else stays as it is.
LEMMA SlotTaken ==
  ASSUME TypeOK, SlotsAccounted, Bounded,
         NEW s \in Sectors, NEW u \in DOMAIN Cap, Enter(u),
         job[s].pc \notin Holding[u], job'[s].pc \in Holding[u],
         \A t \in DOMAIN Cap : \A r \in Sectors :
           r # s \/ t # u => (job'[r].pc \in Holding[t] <=> job[r].pc \in Holding[t])
  PROVE  SlotsAccounted' /\ Bounded' /\ slots' \in [DOMAIN Cap -> Nat]
<1>1. \A t \in DOMAIN Cap : t # u => Holders(t)' = Holders(t)
  BY DEF Holders, Holding
<1>2. Holders(u)' = Holders(u) \cup {s} /\ s \notin Holders(u)
  BY DEF Holders, Holding
<1>3. Cardinality(Holders(u)') = Cardinality(Holders(u)) + 1
  BY <1>2, HoldersFinite, FS_AddElement
<1>4. slots \in [DOMAIN Cap -> Nat] /\ slots' = [slots EXCEPT ![u] = @ + 1] /\ slots[u] < Cap[u]
  BY DEF Enter, TypeOK
<1>5. \A t \in DOMAIN Cap : slots[t] = Cardinality(Holders(t))
  BY DEF SlotsAccounted, Holders
<1>6. \A t \in DOMAIN Cap : slots'[t] = Cardinality(Holders(t)')
  BY <1>1, <1>3, <1>4, <1>5
<1>7. \A t \in DOMAIN Cap : Cap[t] \in Nat
  BY DEF Cap
<1>8. \A t \in DOMAIN Cap : slots'[t] <= Cap[t]
  BY <1>4, <1>7 DEF Bounded
<1>9. slots' \in [DOMAIN Cap -> Nat]
  BY <1>4
<1> QED
  BY <1>6, <1>8, <1>9 DEF SlotsAccounted, Bounded, Holders, Cap

\* One goroutine leaves stage u.
LEMMA SlotGivenBack ==
  ASSUME TypeOK, SlotsAccounted, Bounded,
         NEW s \in Sectors, NEW u \in DOMAIN Cap, Leave(u),
         job[s].pc \in Holding[u], job'[s].pc \notin Holding[u],
         \A t \in DOMAIN Cap : \A r \in Sectors :
           r # s \/ t # u => (job'[r].pc \in Holding[t] <=> job[r].pc \in Holding[t])
  PROVE  SlotsAccounted' /\ Bounded' /\ slots' \in [DOMAIN Cap -> Nat]
<1>1. \A t \in DOMAIN Cap : t # u => Holders(t)' = Holders(t)
  BY DEF Holders, Holding
<1>2. Holders(u)' = Holders(u) \ {s} /\ s \in Holders(u)
  BY DEF Holders, Holding
<1>3. Cardinality(Holders(u)') = Cardinality(Holders(u)) - 1 /\ Cardinality(Holders(u)') \in Nat
  <2>1. Cardinality(Holders(u) \ {s}) = Cardinality(Holders(u)) - 1
    BY <1>2, HoldersFinite, FS_RemoveElement
  <2>2. IsFiniteSet(Holders(u) \ {s})
    BY HoldersFinite, FS_RemoveElement
  <2> QED
    BY <1>2, <2>1, <2>2, FS_CardinalityType
<1>4. slots \in [DOMAIN Cap -> Nat] /\ slots' = [slots EXCEPT ![u] = @ - 1]
  BY DEF Leave, TypeOK
<1>5. \A t \in DOMAIN Cap : slots[t] = Cardinality(Holders(t))
  BY DEF SlotsAccounted, Holders
<1>6. \A t \in DOMAIN Cap : slots'[t] = Cardinality(Holders(t)')
  BY <1>1, <1>3, <1>4, <1>5
<1>7. \A t \in DOMAIN Cap : Cap[t] \in Nat
  BY DEF Cap
<1>8. \A t \in DOMAIN Cap : slots'[t] <= Cap[t]
  BY <1>4, <1>7 DEF Bounded
<1>9. slots' \in [DOMAIN Cap -> Nat]
  BY <1>3, <1>4, <1>5
<1> QED
  BY <1>6, <1>8, <1>9 DEF SlotsAccounted, Bounded, Holders, Cap

LEMMA NewJobTyped == \A t \in SealTypes : NewJob(t) \in Job
BY DEF NewJob, Job, PCs, SealTypes

LEMMA InitInv == Init => IInv
<1> SUFFICES ASSUME Init PROVE IInv
  OBVIOUS
<1>1. TypeOK
  <2>1. job \in [Sectors -> Job]
    BY NewJobTyped DEF Init
  <2>2. slots \in [DOMAIN Cap -> Nat]
    BY DEF Init
  <2>3. work \in [Sectors -> [unsealed: BOOLEAN, sealed: Content, cache: Content]]
    BY DEF Init, Content
  <2>4. stored \in [Sectors -> [sealed: Content, cache: Content]]
    BY DEF Init, Content
  <2>5. err \in BOOLEAN /\ failed \in BOOLEAN
    BY DEF Init
  <2>6. runs \in 0..MaxRuns
    BY DEF Init
  <2> QED
    BY <2>1, <2>2, <2>3, <2>4, <2>5, <2>6 DEF TypeOK
<1>2. \A s \in Sectors : job[s].pc = "queued" /\ ~job[s].lookup
  BY DEF Init, NewJob
<1>3. SlotsAccounted /\ Bounded
  <2>1. \A t \in DOMAIN Cap : Cardinality(Holders(t)) = 0
    BY <1>2, NobodyHolds
  <2>2. \A t \in DOMAIN Cap : slots[t] = 0
    BY DEF Init
  <2>3. \A t \in DOMAIN Cap : 0 <= Cap[t]
    BY DEF Cap
  <2> QED
    BY <2>1, <2>2, <2>3 DEF SlotsAccounted, Bounded, Holders
<1>4. Blamed
  BY <1>2 DEF Init, Blamed, At
<1>5. Verified /\ OnlyVerifiedStored
  BY <1>2 DEF Init, Verified, OnlyVerifiedStored, At
<1> QED
  BY <1>1, <1>3, <1>4, <1>5 DEF IInv
-----------------------------------------------------------------------------
(* The steps of a goroutine that is not in a stage. *)

\* What most steps do to a job: it goes to a place and may fail, and the jobs of the other
\* sectors stay as they are.
Moves(s, pc) ==
  /\ job' \in [Sectors -> Job]
  /\ job'[s].pc = pc
  /\ \A r \in Sectors \ {s} : job'[r] = job[r]

LEMMA MovesByGoto ==
  ASSUME TypeOK, NEW s \in Sectors, NEW pc \in PCs, Goto(s, pc)
  PROVE  /\ Moves(s, pc)
         /\ job'[s].lookup = job[s].lookup
<1>1. job \in [Sectors -> Job] /\ job[s] \in Job
  BY DEF TypeOK
<1>2. job' = [job EXCEPT ![s] = [job[s] EXCEPT !.pc = pc]]
  BY DEF Goto
<1>3. [job[s] EXCEPT !.pc = pc] \in Job
  BY <1>1 DEF Job
<1> QED
  BY <1>1, <1>2, <1>3 DEF Moves, Job

LEMMA StartInv ==
  ASSUME IInv, NEW s \in Sectors, Start(s)
  PROVE  IInv'
<1>1. /\ Moves(s, "select1") /\ At(s, "queued")
      /\ job'[s].lookup = job[s].lookup
  BY MovesByGoto DEF Start, IInv, PCs
<1>2. SlotsAccounted' /\ Bounded' /\ slots' \in [DOMAIN Cap -> Nat]
  BY <1>1, SlotTaken DEF Start, IInv, Holding, Cap, PCs, Moves, At
<1>3. TypeOK'
  BY <1>1, <1>2 DEF Start, IInv, TypeOK, Moves, Cap
<1>4. Blamed'
  BY <1>1 DEF Start, IInv, Blamed, Moves, At
<1>5. Verified' /\ OnlyVerifiedStored'
  BY <1>1 DEF Start, IInv, Verified, OnlyVerifiedStored, Moves, At
<1> QED
  BY <1>2, <1>3, <1>4, <1>5 DEF IInv

LEMMA SelectInv ==
  ASSUME IInv, NEW s \in Sectors, Select(s)
  PROVE  IInv'
<1>1. PICK from \in {"select1", "select2"}, fails \in BOOLEAN, one \in BOOLEAN :
        /\ At(s, from)
        /\ err' = fails
        /\ job' = [job EXCEPT ![s].pc = IF from = "select1" THEN "check1" ELSE "check2",
                              ![s].lookup = fails, ![s].one = one]
        /\ failed' = (failed \/ fails)
        /\ UNCHANGED <<slots, work, stored, runs>>
  BY DEF Select
<1> DEFINE to == IF from = "select1" THEN "check1" ELSE "check2"
<1>2. job[s] \in Job /\ job \in [Sectors -> Job]
  BY DEF IInv, TypeOK
<1>3. Moves(s, to) /\ (job'[s].lookup <=> fails)
  <2> DEFINE j == [[[job[s] EXCEPT !.pc = to] EXCEPT !.lookup = fails] EXCEPT !.one = one]
  <2>1. job' = [job EXCEPT ![s] = j]
    BY <1>1, <1>2
  <2>2. j \in Job /\ j.pc = to /\ (j.lookup <=> fails)
    BY <1>2 DEF Job, PCs
  <2> HIDE DEF j
  <2> QED
    BY <1>2, <2>1, <2>2 DEF Moves
<1>4. SlotsAccounted' /\ Bounded'
  <2>1. \A t \in DOMAIN Cap : \A r \in Sectors :
           job'[r].pc \in Holding[t] <=> job[r].pc \in Holding[t]
    BY <1>1, <1>3 DEF Moves, Holding, Cap, PCs, At
  <2> QED
    BY <1>1, <2>1, SlotsKept DEF IInv
<1>5. TypeOK'
  BY <1>1, <1>3 DEF IInv, TypeOK, Moves, Cap
<1>6. Blamed'
  BY <1>1, <1>3 DEF IInv, Blamed, Moves
<1>7. Verified' /\ OnlyVerifiedStored'
  BY <1>1, <1>3 DEF IInv, Verified, OnlyVerifiedStored, Moves, At
<1> QED
  BY <1>4, <1>5, <1>6, <1>7 DEF IInv

LEMMA CheckErrInv ==
  ASSUME IInv, NEW s \in Sectors, CheckErr(s)
  PROVE  IInv'
<1>1. PICK seen \in {job[s].lookup, err} :
        Goto(s, CASE seen -> "return"
                  [] ~seen /\ job[s].one -> "ap"
                  [] OTHER -> IF At(s, "check1") THEN "select2" ELSE "return")
  BY DEF CheckErr
<1> DEFINE to == CASE seen -> "return"
                   [] ~seen /\ job[s].one -> "ap"
                   [] OTHER -> IF At(s, "check1") THEN "select2" ELSE "return"
<1>2. seen \in BOOLEAN
  BY DEF IInv, TypeOK, Job
<1>3. to \in {"return", "ap", "select2"}
  BY <1>2
<1>4. /\ Moves(s, to)
      /\ job'[s].lookup = job[s].lookup
  BY <1>1, <1>3, MovesByGoto DEF IInv, PCs
<1>5. SlotsAccounted' /\ Bounded'
  <2>1. \A t \in DOMAIN Cap : \A r \in Sectors :
           job'[r].pc \in Holding[t] <=> job[r].pc \in Holding[t]
    BY <1>3, <1>4 DEF CheckErr, Moves, Holding, Cap, PCs, At
  <2> QED
    BY <2>1, SlotsKept DEF IInv, CheckErr
<1>6. TypeOK'
  BY <1>4 DEF IInv, TypeOK, Moves, CheckErr, Cap
<1>7. Blamed'
  BY <1>3, <1>4 DEF IInv, Blamed, Moves, CheckErr
<1>8. Verified' /\ OnlyVerifiedStored'
  BY <1>3, <1>4 DEF IInv, Verified, OnlyVerifiedStored, Moves, CheckErr, At
<1> QED
  BY <1>5, <1>6, <1>7, <1>8 DEF IInv

-----------------------------------------------------------------------------
(* The stages. *)

LEMMA EnterStageInv ==
  ASSUME IInv, NEW s \in Sectors, EnterStage(s)
  PROVE  IInv'
<1>1. PICK u \in {"ap", "p1", "p2", "fin"} :
        /\ At(s, u) /\ Enter(u)
        /\ Goto(s, CASE u = "ap" -> "addPiece" [] u = "p1" -> "precommit1"
                     [] u = "p2" -> "precommit2" [] OTHER -> "finalize")
  BY DEF EnterStage
<1> DEFINE to == CASE u = "ap" -> "addPiece" [] u = "p1" -> "precommit1"
                   [] u = "p2" -> "precommit2" [] OTHER -> "finalize"
<1>2. /\ Moves(s, to)
      /\ job'[s].lookup = job[s].lookup
  BY <1>1, MovesByGoto DEF IInv, PCs
<1>3. SlotsAccounted' /\ Bounded' /\ slots' \in [DOMAIN Cap -> Nat]
  <2>1. u \in DOMAIN Cap /\ job[s].pc \notin Holding[u] /\ job'[s].pc \in Holding[u]
    BY <1>1, <1>2 DEF Moves, Holding, Cap, At
  <2>2. \A t \in DOMAIN Cap : \A r \in Sectors :
           r # s \/ t # u => (job'[r].pc \in Holding[t] <=> job[r].pc \in Holding[t])
    BY <1>1, <1>2 DEF Moves, Holding, Cap, PCs, At
  <2> QED
    BY <1>1, <2>1, <2>2, SlotTaken DEF IInv
<1>4. TypeOK'
  BY <1>2, <1>3 DEF IInv, TypeOK, Moves, EnterStage, Cap
<1>5. Blamed'
  BY <1>1, <1>2 DEF IInv, Blamed, Moves, EnterStage, At
<1>6. Verified' /\ OnlyVerifiedStored'
  BY <1>1, <1>2 DEF IInv, Verified, OnlyVerifiedStored, Moves, EnterStage, At
<1> QED
  BY <1>3, <1>4, <1>5, <1>6 DEF IInv

\* A goroutine that leaves stage u keeps its slot among the sectors.
LEMMA StageLeft ==
  ASSUME IInv, NEW s \in Sectors, NEW u \in {"ap", "p1", "p2", "fin"}, Leave(u),
         job[s].pc \in Holding[u], NEW pc \in {"ap", "p1", "p2", "fin", "return"}, Moves(s, pc)
  PROVE  SlotsAccounted' /\ Bounded' /\ slots' \in [DOMAIN Cap -> Nat]
<1>1. u \in DOMAIN Cap /\ job'[s].pc \notin Holding[u]
  BY DEF Moves, Holding, Cap
<1>2. \A t \in DOMAIN Cap : \A r \in Sectors :
        r # s \/ t # u => (job'[r].pc \in Holding[t] <=> job[r].pc \in Holding[t])
  BY DEF Moves, Holding, Cap, PCs
<1> QED
  BY <1>1, <1>2, SlotGivenBack DEF IInv

LEMMA addPieceInv ==
  ASSUME IInv, NEW s \in Sectors, addPiece(s)
  PROVE  IInv'
<1>1. PICK pc \in {"p1", "return"} :
        /\ Moves(s, pc)
        /\ job'[s].lookup = job[s].lookup
  <2>1. CASE Goto(s, "return")
    BY <2>1, MovesByGoto DEF IInv, PCs
  <2>2. CASE job' = [job EXCEPT
               ![s].pc = IF job[s].sealType = "AP" THEN "return" ELSE "p1",
               ![s].pi = IF s \in Matching THEN "matching" ELSE "empty"]
    <3> DEFINE pc == IF job[s].sealType = "AP" THEN "return" ELSE "p1"
               j == [[job[s] EXCEPT !.pc = pc] EXCEPT
                       !.pi = IF s \in Matching THEN "matching" ELSE "empty"]
    <3>1. job[s] \in Job /\ job \in [Sectors -> Job]
      BY DEF IInv, TypeOK
    <3>2. job' = [job EXCEPT ![s] = j]
      BY <2>2, <3>1
    <3>3. /\ j \in Job /\ j.pc = pc /\ j.lookup = job[s].lookup
      BY <3>1 DEF Job, PCs
    <3> QED
      BY <3>1, <3>2, <3>3 DEF Moves
  <2> QED
    BY <2>1, <2>2 DEF addPiece, addPieceSucceeds, addPieceFails
<1>2. SlotsAccounted' /\ Bounded' /\ slots' \in [DOMAIN Cap -> Nat]
  BY <1>1, StageLeft DEF addPiece, At, Holding
<1>3. work' = work \/ work' = [work EXCEPT ![s].unsealed = @ \/ s \in Matching]
  BY DEF addPiece, addPieceSucceeds, addPieceFails
<1>4. work' \in [Sectors -> [unsealed: BOOLEAN, sealed: Content, cache: Content]]
  <2> DEFINE w == [work[s] EXCEPT !.unsealed = @ \/ s \in Matching]
  <2>1. (work[s].unsealed \/ s \in Matching) \in BOOLEAN
    OBVIOUS
  <2>2. w \in [unsealed: BOOLEAN, sealed: Content, cache: Content]
    BY <2>1 DEF IInv, TypeOK
  <2> QED
    BY <1>3, <2>2 DEF IInv, TypeOK
<1>5. \A r \in Sectors : work'[r].sealed = work[r].sealed /\ work'[r].cache = work[r].cache
  BY <1>3 DEF IInv, TypeOK
<1>6. TypeOK'
  BY <1>1, <1>2, <1>4 DEF IInv, TypeOK, addPiece, Moves, Cap
<1>7. Blamed'
  BY <1>1 DEF IInv, Blamed, addPiece, Moves, At
<1>8. Verified' /\ OnlyVerifiedStored'
  BY <1>1, <1>5 DEF IInv, Verified, OnlyVerifiedStored, addPiece, Moves, At
<1> QED
  BY <1>2, <1>6, <1>7, <1>8 DEF IInv

LEMMA precommit1Inv ==
  ASSUME IInv, NEW s \in Sectors, precommit1(s)
  PROVE  IInv'
<1>1. PICK pc \in {"p2", "return"} :
        /\ Moves(s, pc)
        /\ job'[s].lookup = job[s].lookup
  <2>1. CASE Goto(s, "return")
    BY <2>1, MovesByGoto DEF IInv, PCs
  <2>2. CASE Goto(s, IF job[s].sealType = "P1" THEN "return" ELSE "p2")
    BY <2>2, MovesByGoto DEF IInv, PCs
  <2> QED
    BY <2>1, <2>2 DEF precommit1
<1>2. SlotsAccounted' /\ Bounded' /\ slots' \in [DOMAIN Cap -> Nat]
  BY <1>1, StageLeft DEF precommit1, At, Holding
<1>3. work' = work \/ work' = [work EXCEPT ![s].sealed = "raw", ![s].cache = "raw"]
  BY DEF precommit1
<1>4. work' \in [Sectors -> [unsealed: BOOLEAN, sealed: Content, cache: Content]]
  BY <1>3 DEF IInv, TypeOK, Content
<1>5. \A r \in Sectors \ {s} : work'[r] = work[r]
  BY <1>3 DEF IInv, TypeOK
<1>6. TypeOK'
  BY <1>1, <1>2, <1>4 DEF IInv, TypeOK, precommit1, Moves, Cap
<1>7. Blamed'
  BY <1>1 DEF IInv, Blamed, precommit1, Moves, At
<1>8. Verified' /\ OnlyVerifiedStored'
  BY <1>1, <1>5 DEF IInv, Verified, OnlyVerifiedStored, precommit1, Moves, At
<1> QED
  BY <1>2, <1>6, <1>7, <1>8 DEF IInv

LEMMA precommit2Inv ==
  ASSUME IInv, NEW s \in Sectors, precommit2(s)
  PROVE  IInv'
<1>1. PICK pc \in {"fin", "return"} :
        /\ Moves(s, pc)
        /\ job'[s].lookup = job[s].lookup
        /\ \/ pc = "return" /\ UNCHANGED work
           \/ work' = [work EXCEPT ![s].sealed = "verified", ![s].cache = "verified"]
  <2>1. CASE Goto(s, "return") /\ UNCHANGED work
    BY <2>1, MovesByGoto DEF IInv, PCs
  <2>2. CASE /\ Goto(s, IF job[s].sealType = "P2" THEN "return" ELSE "fin")
             /\ work' = [work EXCEPT ![s].sealed = "verified", ![s].cache = "verified"]
    BY <2>2, MovesByGoto DEF IInv, PCs
  <2> QED
    BY <2>1, <2>2 DEF precommit2
<1>2. SlotsAccounted' /\ Bounded' /\ slots' \in [DOMAIN Cap -> Nat]
  BY <1>1, StageLeft DEF precommit2, At, Holding
<1>3. work' \in [Sectors -> [unsealed: BOOLEAN, sealed: Content, cache: Content]]
  <2>1. work \in [Sectors -> [unsealed: BOOLEAN, sealed: Content, cache: Content]]
    BY DEF IInv, TypeOK
  <2>2. [[work[s] EXCEPT !.sealed = "verified"] EXCEPT !.cache = "verified"]
          \in [unsealed: BOOLEAN, sealed: Content, cache: Content]
    BY <2>1 DEF Content
  <2> QED
    BY <1>1, <2>1, <2>2
<1>4. /\ \A r \in Sectors \ {s} : work'[r] = work[r]
      /\ pc = "fin" => work'[s].sealed = "verified" /\ work'[s].cache = "verified"
  BY <1>1 DEF IInv, TypeOK
<1>5. TypeOK'
  BY <1>1, <1>2, <1>3 DEF IInv, TypeOK, precommit2, Moves, Cap
<1>6. Blamed'
  BY <1>1 DEF IInv, Blamed, precommit2, Moves, At
<1>7. Verified' /\ OnlyVerifiedStored'
  BY <1>1, <1>4 DEF IInv, Verified, OnlyVerifiedStored, precommit2, Moves, At
<1> QED
  BY <1>2, <1>5, <1>6, <1>7 DEF IInv

-----------------------------------------------------------------------------
(* finalize, and the end of a goroutine. *)

LEMMA FinalizeFailsInv ==
  ASSUME IInv, NEW s \in Sectors, FinalizeFails(s)
  PROVE  IInv'
<1>1. /\ Moves(s, "return")
      /\ job'[s].lookup = job[s].lookup
  BY MovesByGoto DEF IInv, FinalizeFails, PCs
<1>2. SlotsAccounted' /\ Bounded' /\ slots' \in [DOMAIN Cap -> Nat]
  BY <1>1, StageLeft DEF FinalizeFails, Holding
<1>3. TypeOK'
  BY <1>1, <1>2 DEF IInv, TypeOK, FinalizeFails, Moves, Cap
<1>4. Blamed'
  BY <1>1 DEF IInv, Blamed, FinalizeFails, Moves, At
<1>5. Verified' /\ OnlyVerifiedStored'
  BY <1>1 DEF IInv, Verified, OnlyVerifiedStored, FinalizeFails, Moves, At
<1> QED
  BY <1>2, <1>3, <1>4, <1>5 DEF IInv

\* The steps of finalize that stay in it.
LEMMA FinalizeGoesOn ==
  ASSUME IInv, NEW s \in Sectors,
         NEW from \in {"finalize", "moveSealed", "moveCache"}, At(s, from),
         NEW to \in {"moveSealed", "moveCache", "removeUnsealed"}, Goto(s, to),
         UNCHANGED <<err, failed, slots, runs>>,
         work' \in [Sectors -> [unsealed: BOOLEAN, sealed: Content, cache: Content]],
         stored' \in [Sectors -> [sealed: Content, cache: Content]]
  PROVE  /\ Moves(s, to)
         /\ TypeOK' /\ SlotsAccounted' /\ Bounded' /\ Blamed'
<1>1. /\ Moves(s, to)
      /\ job'[s].lookup = job[s].lookup
  BY MovesByGoto DEF IInv, PCs
<1>2. SlotsAccounted' /\ Bounded'
  <2>1. \A t \in DOMAIN Cap : \A r \in Sectors :
           job'[r].pc \in Holding[t] <=> job[r].pc \in Holding[t]
    <3>1. \A t \in DOMAIN Cap : from \in Holding[t] <=> to \in Holding[t]
      <4>1. {from, to} \subseteq Holding["fin"]
        BY DEF Holding
      <4>2. {from, to} \subseteq Holding["sectors"]
        BY DEF Holding, PCs
      <4>3. /\ {from, to} \cap Holding["ap"] = {}
            /\ {from, to} \cap Holding["p1"] = {}
            /\ {from, to} \cap Holding["p2"] = {}
        BY DEF Holding
      <4>4. DOMAIN Cap = {"sectors", "ap", "p1", "p2", "fin"}
        BY DEF Cap
      <4> QED
        BY <4>1, <4>2, <4>3, <4>4
    <3> QED
      BY <1>1, <3>1 DEF Moves, At
  <2> QED
    BY <2>1, SlotsKept DEF IInv
<1>3. TypeOK'
  BY <1>1 DEF IInv, TypeOK, Moves, Cap
<1>4. Blamed'
  BY <1>1 DEF IInv, Blamed, Moves
<1> QED
  BY <1>1, <1>2, <1>3, <1>4

LEMMA FinalizeSectorInv ==
  ASSUME IInv, NEW s \in Sectors, FinalizeSector(s)
  PROVE  IInv'
<1>1. /\ Moves(s, "moveSealed")
      /\ TypeOK' /\ SlotsAccounted' /\ Bounded' /\ Blamed'
  BY FinalizeGoesOn DEF FinalizeSector, IInv, TypeOK
<1>2. Verified' /\ OnlyVerifiedStored'
  BY <1>1 DEF IInv, Verified, OnlyVerifiedStored, FinalizeSector, Moves, At
<1> QED
  BY <1>1, <1>2 DEF IInv

LEMMA MoveSealedInv ==
  ASSUME IInv, NEW s \in Sectors, MoveSealed(s)
  PROVE  IInv'
<1>1. /\ work' = [work EXCEPT ![s].sealed = "none"]
      /\ stored' = [stored EXCEPT ![s].sealed = work[s].sealed]
  BY DEF MoveSealed
<1>2. /\ work' \in [Sectors -> [unsealed: BOOLEAN, sealed: Content, cache: Content]]
      /\ stored' \in [Sectors -> [sealed: Content, cache: Content]]
  BY <1>1 DEF IInv, TypeOK, Content
<1>3. /\ Moves(s, "moveCache")
      /\ TypeOK' /\ SlotsAccounted' /\ Bounded' /\ Blamed'
  BY <1>2, FinalizeGoesOn DEF MoveSealed
<1>4. /\ \A r \in Sectors \ {s} : work'[r] = work[r] /\ stored'[r] = stored[r]
      /\ work'[s].cache = work[s].cache
      /\ stored'[s].sealed = work[s].sealed /\ stored'[s].cache = stored[s].cache
  BY <1>1 DEF IInv, TypeOK
<1>5. Verified' /\ OnlyVerifiedStored'
  BY <1>3, <1>4 DEF IInv, Verified, OnlyVerifiedStored, MoveSealed, Moves, At
<1> QED
  BY <1>3, <1>5 DEF IInv

LEMMA MoveCacheInv ==
  ASSUME IInv, NEW s \in Sectors, MoveCache(s)
  PROVE  IInv'
<1>1. /\ work' = [work EXCEPT ![s].cache = "none"]
      /\ stored' = [stored EXCEPT ![s].cache = work[s].cache]
  BY DEF MoveCache
<1>2. /\ work' \in [Sectors -> [unsealed: BOOLEAN, sealed: Content, cache: Content]]
      /\ stored' \in [Sectors -> [sealed: Content, cache: Content]]
  BY <1>1 DEF IInv, TypeOK, Content
<1>3. /\ Moves(s, "removeUnsealed")
      /\ TypeOK' /\ SlotsAccounted' /\ Bounded' /\ Blamed'
  BY <1>2, FinalizeGoesOn DEF MoveCache
<1>4. /\ \A r \in Sectors \ {s} : work'[r] = work[r] /\ stored'[r] = stored[r]
      /\ stored'[s].cache = work[s].cache /\ stored'[s].sealed = stored[s].sealed
  BY <1>1 DEF IInv, TypeOK
<1>5. Verified' /\ OnlyVerifiedStored'
  BY <1>3, <1>4 DEF IInv, Verified, OnlyVerifiedStored, MoveCache, Moves, At
<1> QED
  BY <1>3, <1>5 DEF IInv

LEMMA MoveCutShortInv ==
  ASSUME IInv, NEW s \in Sectors, MoveCutShort(s)
  PROVE  IInv'
<1>1. Moves(s, "return") /\ job'[s].lookup = job[s].lookup
  BY MovesByGoto DEF IInv, MoveCutShort, PCs
<1>2. SlotsAccounted' /\ Bounded' /\ slots' \in [DOMAIN Cap -> Nat]
  BY <1>1, StageLeft DEF MoveCutShort, At, Holding
<1>3. PICK sealed \in {"partial", work[s].sealed, stored[s].sealed},
           cache \in {"partial", work[s].cache, stored[s].cache},
           left \in {"partial", work[s].cache} :
        /\ work' = [work EXCEPT ![s].cache = left]
        /\ stored' = [stored EXCEPT ![s].sealed = sealed, ![s].cache = cache]
        /\ At(s, "moveCache") => sealed = stored[s].sealed
        /\ At(s, "moveSealed") => cache = stored[s].cache
  BY DEF IInv, TypeOK, MoveCutShort, At
<1>4. /\ work' \in [Sectors -> [unsealed: BOOLEAN, sealed: Content, cache: Content]]
      /\ stored' \in [Sectors -> [sealed: Content, cache: Content]]
      /\ \A r \in Sectors \ {s} : work'[r] = work[r] /\ stored'[r] = stored[r]
      /\ stored'[s].sealed = sealed /\ stored'[s].cache = cache
  BY <1>3 DEF IInv, TypeOK, Content
<1>5. TypeOK'
  BY <1>1, <1>2, <1>4 DEF IInv, TypeOK, MoveCutShort, Moves, Cap
<1>6. Blamed'
  BY <1>1 DEF IInv, Blamed, MoveCutShort, Moves
<1>7. Verified'
  BY <1>1, <1>4 DEF IInv, Verified, Moves, At
<1>8. OnlyVerifiedStored'
  BY <1>3, <1>4 DEF IInv, Verified, OnlyVerifiedStored, MoveCutShort, At
<1> QED
  BY <1>2, <1>5, <1>6, <1>7, <1>8 DEF IInv

LEMMA RemoveUnsealedInv ==
  ASSUME IInv, NEW s \in Sectors, RemoveUnsealed(s)
  PROVE  IInv'
<1>1. /\ Moves(s, "return")
      /\ job'[s].lookup = job[s].lookup
  BY MovesByGoto DEF IInv, RemoveUnsealed, PCs
<1>2. SlotsAccounted' /\ Bounded' /\ slots' \in [DOMAIN Cap -> Nat]
  BY <1>1, StageLeft DEF RemoveUnsealed, At, Holding
<1>3. work' = [work EXCEPT ![s].unsealed = FALSE]
  BY DEF RemoveUnsealed
<1>4. /\ work' \in [Sectors -> [unsealed: BOOLEAN, sealed: Content, cache: Content]]
      /\ \A r \in Sectors \ {s} : work'[r] = work[r]
  BY <1>3 DEF IInv, TypeOK
<1>5. TypeOK'
  BY <1>1, <1>2, <1>4 DEF IInv, TypeOK, RemoveUnsealed, Moves, Cap
<1>6. Blamed'
  BY <1>1 DEF IInv, Blamed, RemoveUnsealed, Moves, At
<1>7. Verified' /\ OnlyVerifiedStored'
  BY <1>1, <1>4 DEF IInv, Verified, OnlyVerifiedStored, RemoveUnsealed, Moves, At
<1> QED
  BY <1>2, <1>5, <1>6, <1>7 DEF IInv

LEMMA EndJobInv ==
  ASSUME IInv, NEW s \in Sectors, EndJob(s)
  PROVE  IInv'
<1>1. /\ Moves(s, "done")
      /\ job'[s].lookup = job[s].lookup
  BY MovesByGoto DEF IInv, EndJob, PCs
<1>2. SlotsAccounted' /\ Bounded' /\ slots' \in [DOMAIN Cap -> Nat]
  <2>1. "sectors" \in DOMAIN Cap /\ job[s].pc \in Holding["sectors"]
                                /\ job'[s].pc \notin Holding["sectors"]
    BY <1>1 DEF EndJob, Moves, Holding, Cap, PCs, At
  <2>2. \A t \in DOMAIN Cap : \A r \in Sectors :
           r # s \/ t # "sectors" => (job'[r].pc \in Holding[t] <=> job[r].pc \in Holding[t])
    BY <1>1 DEF EndJob, Moves, Holding, Cap, PCs, At
  <2> QED
    BY <2>1, <2>2, SlotGivenBack DEF IInv, EndJob
<1>3. TypeOK'
  BY <1>1, <1>2 DEF IInv, TypeOK, EndJob, Moves, Cap
<1>4. Blamed'
  BY <1>1 DEF IInv, Blamed, EndJob, Moves, At
<1>5. Verified' /\ OnlyVerifiedStored'
  BY <1>1 DEF IInv, Verified, OnlyVerifiedStored, EndJob, Moves, At
<1> QED
  BY <1>2, <1>3, <1>4, <1>5 DEF IInv

\* A new run: nobody has started, and the files are those of the run before.
LEMMA RerunInv ==
  ASSUME IInv, Rerun
  PROVE  IInv'
<1>1. job' \in [Sectors -> Job]
  BY NewJobTyped DEF Rerun
<1>2. \A s \in Sectors : job'[s].pc = "queued" /\ ~job'[s].lookup
  BY DEF Rerun, NewJob
<1>3. TypeOK'
  <2>1. err' \in BOOLEAN /\ failed' \in BOOLEAN
    BY DEF Rerun
  <2>2. slots' \in [DOMAIN Cap' -> Nat]
    BY DEF Rerun, Cap
  <2>3. runs' \in 0..MaxRuns
    BY DEF Rerun, IInv, TypeOK
  <2> QED
    BY <1>1, <2>1, <2>2, <2>3 DEF Rerun, IInv, TypeOK
<1>4. SlotsAccounted' /\ Bounded'
  <2>1. \A t \in DOMAIN Cap : Holders(t)' = {}
    BY <1>2 DEF Holders, Holding, Cap, PCs
  <2>2. \A t \in DOMAIN Cap : slots'[t] = 0 /\ 0 <= Cap[t]
    BY DEF Rerun, Cap
  <2> QED
    BY <2>1, <2>2, FS_EmptySet DEF SlotsAccounted, Bounded, Holders, Cap
<1>5. Blamed'
  BY <1>2 DEF Rerun, Blamed, At
<1>6. Verified' /\ OnlyVerifiedStored'
  BY <1>2 DEF Rerun, IInv, Verified, OnlyVerifiedStored, At
<1> QED
  BY <1>3, <1>4, <1>5, <1>6 DEF IInv
-----------------------------------------------------------------------------

LEMMA NextInv == IInv /\ [Next]_vars => IInv'
<1> SUFFICES ASSUME IInv, [Next]_vars PROVE IInv'
  OBVIOUS
<1>1. ASSUME NEW s \in Sectors, Waits(s) \/ Step(s) PROVE IInv'
  BY <1>1, StartInv, EnterStageInv, SelectInv, CheckErrInv, addPieceInv, precommit1Inv,
     precommit2Inv, FinalizeFailsInv, FinalizeSectorInv, MoveSealedInv, MoveCacheInv,
     MoveCutShortInv, RemoveUnsealedInv, EndJobInv
     DEF Waits, Step
<1>2. CASE Rerun
  BY <1>2, RerunInv
<1>3. CASE UNCHANGED vars
  BY <1>3 DEF vars, IInv, TypeOK, SlotsAccounted, Bounded, Blamed, Verified,
              OnlyVerifiedStored, At, Cap, Holding
<1> QED
  BY <1>1, <1>2, <1>3 DEF Next, Finished

\* IInv is an inductive invariant of Reseal.
THEOREM Invariance == Spec => []IInv
BY InitInv, NextInv, PTL DEF Spec

\* Every variable has its type.
THEOREM TypeCorrect == Spec => []TypeOK
<1>1. IInv => TypeOK
  BY DEF IInv
<1> QED
  BY <1>1, Invariance, PTL

\* Every way out of a stage, early returns and failures included, gives back the slot that was
\* taken and no other: each channel has as many elements as goroutines are in its stage.
THEOREM SlotsExact == Spec => []SlotsAccounted
<1>1. IInv => SlotsAccounted
  BY DEF IInv
<1> QED
  BY <1>1, Invariance, PTL

\* No more goroutines than --smax are at work, no more than --p1max in pre-commit 1, and one
\* in each of the other stages.
THEOREM StagesBounded == Spec => [](\A t \in DOMAIN Cap : Cardinality(Holders(t)) <= Cap[t])
<1>1. IInv => \A t \in DOMAIN Cap : Cardinality(Holders(t)) <= Cap[t]
  BY DEF IInv, SlotsAccounted, Bounded, Holders
<1> QED
  BY <1>1, Invariance, PTL

\* Storage only gets sectors whose sealed CID was compared with the chain's, whatever the
\* earlier runs of the command left behind.
THEOREM StoredVerified == Spec => []OnlyVerifiedStored
<1>1. IInv => OnlyVerifiedStored
  BY DEF IInv
<1> QED
  BY <1>1, Invariance, PTL

\* A goroutine ends before addPiece only when it finds no sector in the second table, or when a
\* lookup of this run failed, its own or one of another goroutine, through the variable they share.
THEOREM EarlyEnds == Spec => EarlyEndExplained
<1> DEFINE Early == {"select1", "check1", "select2", "check2", "ap"}
           Explained == \A s \in Sectors :
             job[s].pc \in Early /\ At(s, "return")' =>
               failed \/ (At(s, "check2") /\ ~job[s].one)
<1>1. IInv /\ [Next]_vars => [Explained]_vars
  <2> SUFFICES ASSUME IInv, Next, NEW s \in Sectors, job[s].pc \in Early, At(s, "return")'
               PROVE  failed \/ (At(s, "check2") /\ ~job[s].one)
    OBVIOUS
  <2>1. job \in [Sectors -> Job]
    BY DEF IInv, TypeOK
  <2>2. \A pc \in PCs : Goto(s, pc) => job'[s].pc = pc
    BY <2>1 DEF Goto, Job
  <2>3. CheckErr(s)
    <3>1. ASSUME NEW r \in Sectors, Waits(r) \/ Step(r) PROVE r = s /\ CheckErr(s)
      <4>1. r = s
        BY <2>1, <3>1 DEF Waits, Step, Start, Select, CheckErr, EnterStage, addPiece,
           addPieceSucceeds, addPieceFails, precommit1, precommit2, FinalizeFails,
           FinalizeSector, MoveSealed, MoveCache, MoveCutShort, RemoveUnsealed, EndJob, Goto, At
      <4>2. ~Start(s) /\ ~Select(s) /\ ~EnterStage(s)
        <5>1. ~Start(s) /\ ~EnterStage(s)
          BY <2>2 DEF Start, EnterStage, At, PCs
        <5>2. Select(s) => job'[s].pc \in {"check1", "check2"}
          <6> SUFFICES ASSUME Select(s) PROVE job'[s].pc \in {"check1", "check2"}
            OBVIOUS
          <6>1. PICK to \in {"check1", "check2"}, fails \in BOOLEAN, one \in BOOLEAN :
                  job' = [job EXCEPT ![s].pc = to, ![s].lookup = fails, ![s].one = one]
            BY DEF Select
          <6>2. job[s] \in Job
            BY <2>1
          <6> QED
            BY <2>1, <6>1, <6>2 DEF Job
        <5> QED
          BY <5>1, <5>2 DEF At
      <4>3. /\ ~addPiece(s) /\ ~precommit1(s) /\ ~precommit2(s) /\ ~EndJob(s)
            /\ ~FinalizeFails(s) /\ ~FinalizeSector(s) /\ ~MoveSealed(s) /\ ~MoveCache(s)
            /\ ~MoveCutShort(s) /\ ~RemoveUnsealed(s)
        BY DEF addPiece, precommit1, precommit2, FinalizeFails, FinalizeSector, MoveSealed,
           MoveCache, MoveCutShort, RemoveUnsealed, EndJob, At
      <4> QED
        BY <3>1, <4>1, <4>2, <4>3 DEF Waits, Step
    <3>2. ~Rerun
      BY DEF Rerun, NewJob, At
    <3>3. ~Finished
      BY DEF Finished, vars, At
    <3> QED
      BY <3>1, <3>2, <3>3 DEF Next
  <2>4. PICK seen \in {job[s].lookup, err} :
          Goto(s, CASE seen -> "return"
                    [] ~seen /\ job[s].one -> "ap"
                    [] OTHER -> IF At(s, "check1") THEN "select2" ELSE "return")
    BY <2>3 DEF CheckErr
  <2>5. CASE seen
    BY <2>5 DEF IInv, Blamed
  <2>6. CASE ~seen
    <3>1. /\ job[s].one => Goto(s, "ap")
          /\ ~job[s].one => Goto(s, IF At(s, "check1") THEN "select2" ELSE "return")
      BY <2>4, <2>6
    <3>2. At(s, "check1") \/ At(s, "check2")
      BY <2>3 DEF CheckErr
    <3> QED
      BY <2>2, <3>1, <3>2 DEF At, PCs
  <2> QED
    BY <2>5, <2>6
<1> QED
  BY <1>1, Invariance, PTL DEF Spec, EarlyEndExplained

\* The unsealed file is removed only when the verified sealed file and cache are in storage.
THEOREM UnsealedKept == Spec => UnsealedKeptUntilStored
<1> DEFINE Kept ==
      \A s \in Sectors : work[s].unsealed /\ ~work'[s].unsealed =>
        stored[s].sealed = "verified" /\ stored[s].cache = "verified"
<1>1. IInv /\ [Next]_vars => [Kept]_vars
  <2> SUFFICES ASSUME IInv, Next PROVE Kept
    OBVIOUS
  <2>1. work \in [Sectors -> [unsealed: BOOLEAN, sealed: Content, cache: Content]]
    BY DEF IInv, TypeOK
  <2>2. ASSUME NEW s \in Sectors, RemoveUnsealed(s) PROVE Kept
    BY <2>1, <2>2 DEF IInv, Verified, RemoveUnsealed, At
  <2>3. ASSUME NEW s \in Sectors, addPiece(s) PROVE Kept
    BY <2>1, <2>3 DEF addPiece, addPieceSucceeds, addPieceFails
  <2>4. ASSUME NEW s \in Sectors, precommit1(s) \/ precommit2(s) PROVE Kept
    BY <2>1, <2>4 DEF precommit1, precommit2
  <2>5. ASSUME NEW s \in Sectors, MoveSealed(s) \/ MoveCache(s) \/ MoveCutShort(s) PROVE Kept
    BY <2>1, <2>5 DEF MoveSealed, MoveCache, MoveCutShort
  <2>6. CASE UNCHANGED work
    BY <2>6
  <2>7. ASSUME NEW s \in Sectors, Waits(s) PROVE UNCHANGED work
    BY <2>7 DEF Waits, Start, EnterStage
  <2>8. ASSUME NEW s \in Sectors, \/ Select(s) \/ CheckErr(s) \/ FinalizeFails(s)
                                \/ FinalizeSector(s) \/ EndJob(s)
        PROVE  UNCHANGED work
    BY <2>8 DEF Select, CheckErr, FinalizeFails, FinalizeSector, EndJob
  <2>9. Rerun \/ Finished => UNCHANGED work
    BY DEF Rerun, Finished, vars
  <2> HIDE DEF Kept
  <2> QED
    BY <2>2, <2>3, <2>4, <2>5, <2>6, <2>7, <2>8, <2>9 DEF Next, Step
<1> QED
  BY <1>1, Invariance, PTL DEF Spec, UnsealedKeptUntilStored

=============================================================================
