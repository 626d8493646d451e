------------------------- MODULE SharedReaderProofs -------------------------
(***************************************************************************)
(* Theorems about SharedReader, for any number of callers, readers and     *)
(* calls, and whenever the cache forgets an entry.                         *)
(***************************************************************************)
EXTENDS SharedReader, FiniteSetTheorems, TLAPS

USE SharedReaderAssumption

\* refs counts the callers that still have to close the reader.
Counted == \A r \in Readers : reader[r].refs = Cardinality(Users(r))

\* A caller has a reader, one that was created, unless it is idle.
Placed ==
  \A c \in Callers :
    /\ caller[c].pc = "idle" <=> caller[c].r = None
    /\ caller[c].r <= created

\* cancel is unset exactly while the creator fills the reader, and no other caller gets past
\* the wait before that.
Assigned ==
  /\ \A c \in Callers : caller[c].pc = "fill" => reader[caller[c].r].cancel = "unset"
  /\ \A c, d \in Callers :
       caller[c].pc = "fill" /\ caller[d].pc = "fill" /\ caller[c].r = caller[d].r => c = d
  /\ \A r \in 1..created :
       reader[r].cancel = "unset" => \E c \in Users(r) : caller[c].pc = "fill"
  /\ \A r \in Readers : r > created => reader[r].cancel = "unset"
  /\ \A r \in Readers : reader[r].ready => reader[r].cancel # "unset"
  /\ \A c \in Callers : caller[c].pc \in {"announce", "check", "holding"} =>
       reader[caller[c].r].cancel # "unset"

\* The entry of a reader is in the cache, or evicted, or its callback has run.
Entry ==
  /\ cached # None => cached \in queued
  /\ queued \cup callbacks \subseteq 1..created
  /\ queued \cap callbacks = {}
  /\ \A r \in Readers : reader[r].expired =>
       r <= created /\ r \notin queued \cup callbacks

Cancelled ==
  /\ NoNilCancel
  /\ \A r \in Readers : reader[r].cancel = "called" <=> reader[r].expired /\ Users(r) = {}

IInv == TypeOK /\ Counted /\ Placed /\ Assigned /\ Entry /\ Cancelled

-----------------------------------------------------------------------------
(* Users and their number. *)

LEMMA UsersFinite ==
  ASSUME NEW r
  PROVE  /\ IsFiniteSet(Users(r))
         /\ Cardinality(Users(r)) \in Nat
         /\ Cardinality(Users(r)) = 0 <=> Users(r) = {}
<1>1. IsFiniteSet(Users(r))
  BY FS_Subset DEF Users
<1> QED
  BY <1>1, FS_EmptySet, FS_CardinalityType

\* A caller without a reader takes one.
LEMMA UserAdded ==
  ASSUME NEW r, NEW c \in Callers, caller[c].r # r
  PROVE  Cardinality(Users(r) \cup {c}) = Cardinality(Users(r)) + 1
<1>1. c \notin Users(r)
  BY DEF Users
<1> QED
  BY <1>1, UsersFinite, FS_AddElement

LEMMA UserRemoved ==
  ASSUME NEW r, NEW c \in Users(r)
  PROVE  Cardinality(Users(r) \ {c}) = Cardinality(Users(r)) - 1
BY UsersFinite, FS_RemoveElement

LEMMA InitInv == Init => IInv
<1> SUFFICES ASSUME Init PROVE IInv
  OBVIOUS
<1>1. TypeOK
  BY DEF Init, TypeOK, Readers, Reader, None, PCs
<1>2. \A r \in Readers : Users(r) = {}
  BY DEF Init, Users, Readers, None
<1>3. Counted
  BY <1>2, FS_EmptySet DEF Counted, Init
<1>4. Placed /\ Assigned /\ Entry
  BY DEF Init, Placed, Assigned, Entry, Readers, None
<1>5. Cancelled
  BY <1>2 DEF Init, Cancelled, NoNilCancel
<1> QED
  BY <1>1, <1>3, <1>4, <1>5 DEF IInv

-----------------------------------------------------------------------------
(* One lemma per kind of step. *)

\* A caller that has its reader goes on, and changes nothing else.
LEMMA MoveInv ==
  ASSUME IInv, NEW c \in Callers, NEW pc \in {"await", "check", "holding", "closing"},
         caller[c].pc \notin {"idle", "fill"},
         pc \in {"check", "holding"} => reader[caller[c].r].cancel # "unset",
         Goto(c, pc), UNCHANGED <<cached, queued, callbacks, created, reader, calls>>
  PROVE  IInv'
<1>1. /\ caller' = [caller EXCEPT ![c].pc = pc]
      /\ caller[c] \in [pc : PCs, r : Readers \cup {None}]
  BY DEF Goto, IInv, TypeOK
<1>2. TypeOK'
  BY <1>1 DEF IInv, TypeOK, PCs
<1>3. \A d \in Callers : /\ caller'[d].r = caller[d].r
                         /\ d # c => caller'[d] = caller[d]
  BY <1>1 DEF IInv, TypeOK
<1>4. caller'[c].pc = pc
  BY <1>1 DEF IInv, TypeOK
<1>5. \A r : Users(r)' = Users(r)
  BY <1>3 DEF Users
<1>6. Counted' /\ Cancelled'
  BY <1>5 DEF IInv, Counted, Cancelled, NoNilCancel
<1>7. Placed'
  BY <1>3, <1>4 DEF IInv, Placed
<1>8. Assigned'
  <2>1. \A d \in Callers :
          caller'[d].pc = "fill" <=> caller[d].pc = "fill"
    BY <1>3, <1>4
  <2>2. \A s \in 1..created :
          reader[s].cancel = "unset" => \E d \in Users(s) : caller'[d].pc = "fill"
    BY <1>5, <2>1 DEF IInv, Assigned, Users
  <2>3. \A d \in Callers : caller'[d].pc \in {"announce", "check", "holding"} =>
          reader[caller'[d].r].cancel # "unset"
    BY <1>3, <1>4 DEF IInv, Assigned
  <2> QED
    BY <1>3, <1>5, <2>1, <2>2, <2>3 DEF IInv, Assigned
<1>9. Entry'
  BY DEF IInv, Entry
<1> QED
  BY <1>2, <1>6, <1>7, <1>8, <1>9 DEF IInv

LEMMA MissInv ==
  ASSUME IInv, NEW c \in Callers, Miss(c)
  PROVE  IInv'
<1>1. PICK r \in Readers : r = created + 1
  BY DEF Miss, IInv, TypeOK, Readers
<1>2. /\ created' = r /\ cached' = r /\ queued' = queued \cup {r}
      /\ UNCHANGED callbacks
      /\ reader' = [reader EXCEPT ![r].refs = 1]
      /\ caller' = [caller EXCEPT ![c] = [pc |-> "fill", r |-> r]]
      /\ calls' = calls + 1 /\ calls < MaxCalls
      /\ caller[c].pc = "idle"
  BY <1>1 DEF Miss
<1>3. /\ caller'[c] = [pc |-> "fill", r |-> r]
      /\ \A d \in Callers \ {c} : caller'[d] = caller[d]
  BY <1>2 DEF IInv, TypeOK
<1>4. \A d \in Callers : caller[d].r # r /\ caller[d].r \in Readers \cup {None}
  BY <1>1 DEF IInv, Placed, TypeOK, Readers, None
<1>5. Users(r) = {} /\ Users(r)' = {c}
  BY <1>3, <1>4 DEF Users
<1>6. \A s \in Readers \ {r} : Users(s)' = Users(s)
  BY <1>2, <1>3 DEF Users, IInv, Placed, Readers, None
<1>7. /\ reader'[r].refs = 1 /\ reader'[r].cancel = reader[r].cancel
      /\ reader'[r].ready = reader[r].ready /\ reader'[r].expired = reader[r].expired
      /\ reader'[r] \in Reader
      /\ \A s \in Readers \ {r} : reader'[s] = reader[s]
  BY <1>1, <1>2 DEF IInv, TypeOK, Reader
<1>8. ~reader[r].expired
  BY <1>1 DEF IInv, Entry, TypeOK, Readers
<1>9. TypeOK'
  <2>1. reader' \in [Readers -> Reader]
    BY <1>2, <1>7 DEF IInv, TypeOK
  <2>2. caller' \in [Callers -> [pc : PCs, r : Readers \cup {None}]]
    BY <1>2 DEF IInv, TypeOK, PCs
  <2> QED
    BY <1>1, <1>2, <2>1, <2>2 DEF IInv, TypeOK, Readers
<1>10. Counted'
  <2>1. Cardinality(Users(r)') = 1
    BY <1>5, FS_Singleton
  <2>2. \A s \in Readers \ {r} : reader'[s].refs = Cardinality(Users(s)')
    BY <1>6, <1>7 DEF IInv, Counted
  <2> QED
    BY <1>7, <2>1, <2>2 DEF Counted, Readers
<1>11. Placed'
  BY <1>1, <1>2, <1>3, <1>4 DEF IInv, Placed, TypeOK, Readers, None
<1>12. Assigned'
  <2>1. reader[r].cancel = "unset"
    BY <1>1 DEF IInv, Assigned, TypeOK
  <2>2. \A s \in Readers : reader'[s].cancel = reader[s].cancel
                           /\ reader'[s].ready = reader[s].ready
    BY <1>7
  <2>4. \A d \in Callers : caller'[d].pc = "fill" => reader'[caller'[d].r].cancel = "unset"
    BY <1>3, <1>4, <2>1, <2>2 DEF IInv, Assigned, Placed
  <2>5. \A d, e \in Callers :
          caller'[d].pc = "fill" /\ caller'[e].pc = "fill" /\ caller'[d].r = caller'[e].r => d = e
    BY <1>3, <1>4 DEF IInv, Assigned
  <2>6. \A s \in 1..created' :
          reader'[s].cancel = "unset" => \E d \in Users(s)' : caller'[d].pc = "fill"
    <3>1. \A s \in 1..created :
            reader'[s].cancel = "unset" => \E d \in Users(s)' : caller'[d].pc = "fill"
      BY <1>1, <1>2, <1>3, <2>2 DEF IInv, Assigned, Users, TypeOK, Readers
    <3>2. \E d \in Users(r)' : caller'[d].pc = "fill"
      BY <1>3, <1>5
    <3> QED
      BY <1>1, <1>2, <3>1, <3>2 DEF IInv, TypeOK, Readers
  <2>7. /\ \A s \in Readers : s > created' => reader'[s].cancel = "unset"
        /\ \A s \in Readers : reader'[s].ready => reader'[s].cancel # "unset"
    BY <1>1, <1>2, <2>2 DEF IInv, Assigned, TypeOK, Readers
  <2>8. \A d \in Callers : caller'[d].pc \in {"announce", "check", "holding"} =>
          reader'[caller'[d].r].cancel # "unset"
    BY <1>3, <1>4, <2>2 DEF IInv, Assigned, Placed
  <2> QED
    BY <2>4, <2>5, <2>6, <2>7, <2>8 DEF Assigned
<1>13. Entry'
  BY <1>1, <1>2, <1>7, <1>8 DEF IInv, Entry, TypeOK, Readers, None
<1>14. Cancelled'
  <2>1. reader[r].cancel = "unset"
    BY <1>1 DEF IInv, Assigned, TypeOK
  <2>2. \A s \in Readers : reader'[s].cancel # "nil"
    BY <1>7, <2>1 DEF IInv, Cancelled, NoNilCancel
  <2>3. \A s \in Readers :
          reader'[s].cancel = "called" <=> reader'[s].expired /\ Users(s)' = {}
    BY <1>5, <1>6, <1>7, <1>8, <2>1 DEF IInv, Cancelled
  <2> QED
    BY <2>2, <2>3 DEF Cancelled, NoNilCancel
<1> QED
  BY <1>9, <1>10, <1>11, <1>12, <1>13, <1>14 DEF IInv

\* The reader of a caller that is not idle.
LEMMA OwnReader ==
  ASSUME IInv, NEW c \in Callers, caller[c].pc # "idle"
  PROVE  /\ caller[c].r \in 1..created
         /\ caller[c].r \in Readers
         /\ c \in Users(caller[c].r)
BY DEF IInv, Placed, TypeOK, Readers, None, Users

LEMMA FillInv ==
  ASSUME IInv, NEW c \in Callers, Fill(c)
  PROVE  IInv'
<1>1. PICK r \in Readers : r = caller[c].r /\ r <= created
  BY OwnReader DEF Fill, IInv, TypeOK
<1>2. PICK err \in BOOLEAN :
        reader' = [reader EXCEPT ![r].err = err, ![r].cancel = "set"]
  BY <1>1 DEF Fill
<1>3. /\ UNCHANGED <<cached, queued, callbacks, created, calls>>
      /\ caller' = [caller EXCEPT ![c].pc = "announce"]
      /\ caller[c].pc = "fill" /\ c \in Users(r)
  BY <1>1, OwnReader DEF Fill, Goto
<1>4. /\ caller'[c].pc = "announce"
      /\ \A d \in Callers : caller'[d].r = caller[d].r /\ (d # c => caller'[d] = caller[d])
  BY <1>3 DEF IInv, TypeOK
<1>5. /\ reader'[r].cancel = "set" /\ reader'[r].refs = reader[r].refs
      /\ reader'[r].ready = reader[r].ready /\ reader'[r].expired = reader[r].expired
      /\ reader'[r] \in Reader
      /\ \A s \in Readers \ {r} : reader'[s] = reader[s]
  BY <1>2 DEF IInv, TypeOK, Reader
<1>6. \A s : Users(s)' = Users(s)
  BY <1>4 DEF Users
<1>7. TypeOK'
  <2>1. reader' \in [Readers -> Reader]
    BY <1>2, <1>5 DEF IInv, TypeOK
  <2>2. caller' \in [Callers -> [pc : PCs, r : Readers \cup {None}]]
    BY <1>3 DEF IInv, TypeOK, PCs
  <2> QED
    BY <1>3, <2>1, <2>2 DEF IInv, TypeOK
<1>8. Counted'
  BY <1>5, <1>6 DEF IInv, Counted
<1>9. Placed'
  BY <1>3, <1>4 DEF IInv, Placed
<1>10. Assigned'
  <2>1. \A d \in Callers : caller'[d].pc = "fill" => reader'[caller'[d].r].cancel = "unset"
    BY <1>1, <1>3, <1>4, <1>5, OwnReader DEF IInv, Assigned
  <2>2. \A d, e \in Callers :
          caller'[d].pc = "fill" /\ caller'[e].pc = "fill" /\ caller'[d].r = caller'[e].r => d = e
    BY <1>4 DEF IInv, Assigned
  <2>3. \A s \in 1..created' :
          reader'[s].cancel = "unset" => \E d \in Users(s)' : caller'[d].pc = "fill"
    <3> SUFFICES ASSUME NEW s \in 1..created, reader'[s].cancel = "unset"
                 PROVE  \E d \in Users(s) : caller'[d].pc = "fill"
      BY <1>3, <1>6
    <3>1. s \in Readers \ {r}
      BY <1>5 DEF IInv, TypeOK, Readers
    <3>2. PICK d \in Users(s) : caller[d].pc = "fill"
      BY <1>5, <3>1 DEF IInv, Assigned
    <3>3. d # c /\ d \in Callers
      BY <1>1, <3>1 DEF Users
    <3> QED
      BY <1>4, <3>2, <3>3
  <2>4. /\ \A s \in Readers : s > created' => reader'[s].cancel = "unset"
        /\ \A s \in Readers : reader'[s].ready => reader'[s].cancel # "unset"
    BY <1>1, <1>3, <1>5 DEF IInv, Assigned, Placed, TypeOK, Readers
  <2>5. \A d \in Callers : caller'[d].pc \in {"announce", "check", "holding"} =>
          reader'[caller'[d].r].cancel # "unset"
    BY <1>1, <1>4, <1>5, OwnReader DEF IInv, Assigned
  <2> QED
    BY <2>1, <2>2, <2>3, <2>4, <2>5 DEF Assigned
<1>11. Entry'
  BY <1>3, <1>5 DEF IInv, Entry
<1>12. Cancelled'
  BY <1>1, <1>3, <1>5, <1>6 DEF IInv, Assigned, Cancelled, NoNilCancel
<1> QED
  BY <1>7, <1>8, <1>9, <1>10, <1>11, <1>12 DEF IInv

LEMMA AnnounceInv ==
  ASSUME IInv, NEW c \in Callers, Announce(c)
  PROVE  IInv'
<1>1. PICK r \in Readers : r = caller[c].r
  BY OwnReader DEF Announce
<1>2. /\ reader' = [reader EXCEPT ![r].ready = TRUE]
      /\ UNCHANGED <<cached, queued, callbacks, created, calls>>
      /\ caller' = [caller EXCEPT ![c].pc = "check"]
      /\ caller[c].pc = "announce"
  BY <1>1 DEF Announce, Goto
<1>3. /\ caller'[c].pc = "check"
      /\ \A d \in Callers : caller'[d].r = caller[d].r /\ (d # c => caller'[d] = caller[d])
  BY <1>2 DEF IInv, TypeOK
<1>4. /\ reader'[r].cancel = reader[r].cancel /\ reader'[r].refs = reader[r].refs
      /\ reader'[r].expired = reader[r].expired
      /\ reader'[r] \in Reader
      /\ \A s \in Readers \ {r} : reader'[s] = reader[s]
  BY <1>2 DEF IInv, TypeOK, Reader
<1>5. \A s : Users(s)' = Users(s)
  BY <1>3 DEF Users
<1>6. TypeOK'
  <2>1. reader' \in [Readers -> Reader]
    BY <1>2, <1>4 DEF IInv, TypeOK
  <2>2. caller' \in [Callers -> [pc : PCs, r : Readers \cup {None}]]
    BY <1>2 DEF IInv, TypeOK, PCs
  <2> QED
    BY <1>2, <2>1, <2>2 DEF IInv, TypeOK
<1>7. Counted' /\ Cancelled'
  BY <1>4, <1>5 DEF IInv, Counted, Cancelled, NoNilCancel
<1>8. Placed'
  BY <1>2, <1>3 DEF IInv, Placed
<1>9. Assigned'
  <2>1. \A d \in Callers : caller'[d].pc = "fill" <=> caller[d].pc = "fill"
    BY <1>2, <1>3
  <2>2. \A s \in Readers : reader'[s].cancel = reader[s].cancel
    BY <1>4
  <2>3. \A d \in Callers : caller'[d].pc = "fill" => reader'[caller'[d].r].cancel = "unset"
    BY <1>3, <2>1, <2>2, OwnReader DEF IInv, Assigned
  <2>4. \A s \in 1..created' :
          reader'[s].cancel = "unset" => \E d \in Users(s)' : caller'[d].pc = "fill"
    BY <1>2, <1>5, <2>1, <2>2 DEF IInv, Assigned, Users, TypeOK, Readers
  <2>5. reader[r].cancel # "unset"
    BY <1>1, <1>2 DEF IInv, Assigned
  <2>6. \A s \in Readers : reader'[s].ready => reader'[s].cancel # "unset"
    BY <1>4, <2>2, <2>5 DEF IInv, Assigned
  <2>7. \A d \in Callers : caller'[d].pc \in {"announce", "check", "holding"} =>
          reader'[caller'[d].r].cancel # "unset"
    BY <1>1, <1>3, <2>2, <2>5, OwnReader DEF IInv, Assigned
  <2>8. \A d, e \in Callers :
          caller'[d].pc = "fill" /\ caller'[e].pc = "fill" /\ caller'[d].r = caller'[e].r => d = e
    BY <1>3, <2>1 DEF IInv, Assigned
  <2>9. \A s \in Readers : s > created' => reader'[s].cancel = "unset"
    BY <1>2, <2>2 DEF IInv, Assigned
  <2> QED
    BY <2>3, <2>4, <2>6, <2>7, <2>8, <2>9 DEF Assigned
<1>10. Entry'
  BY <1>2, <1>4 DEF IInv, Entry
<1> QED
  BY <1>6, <1>7, <1>8, <1>9, <1>10 DEF IInv

LEMMA HitInv ==
  ASSUME IInv, NEW c \in Callers, Hit(c)
  PROVE  IInv'
<1>1. PICK r \in Readers : r = cached
  BY DEF Hit, IInv, TypeOK
<1>2. /\ reader' = [reader EXCEPT ![r].refs = @ + 1]
      /\ caller' = [caller EXCEPT ![c] = [pc |-> "await", r |-> r]]
      /\ UNCHANGED <<cached, queued, callbacks, created>>
      /\ calls' = calls + 1 /\ calls < MaxCalls
      /\ caller[c].pc = "idle" /\ caller[c].r = None
  BY <1>1 DEF Hit, IInv, Placed
<1>3. /\ caller'[c] = [pc |-> "await", r |-> r]
      /\ \A d \in Callers \ {c} : caller'[d] = caller[d]
  BY <1>2 DEF IInv, TypeOK
<1>4. /\ reader'[r].refs = reader[r].refs + 1 /\ reader'[r].cancel = reader[r].cancel
      /\ reader'[r].ready = reader[r].ready /\ reader'[r].expired = reader[r].expired
      /\ reader'[r] \in Reader
      /\ \A s \in Readers \ {r} : reader'[s] = reader[s]
  BY <1>2 DEF IInv, TypeOK, Reader
<1>5. Users(r)' = Users(r) \cup {c} /\ \A s \in Readers \ {r} : Users(s)' = Users(s)
  BY <1>2, <1>3 DEF Users, Readers, None
<1>6. r \in 1..created /\ ~reader[r].expired
  BY <1>1 DEF IInv, Entry, Readers, None
<1>7. TypeOK'
  <2>1. reader' \in [Readers -> Reader]
    BY <1>2, <1>4 DEF IInv, TypeOK
  <2>2. caller' \in [Callers -> [pc : PCs, r : Readers \cup {None}]]
    BY <1>2 DEF IInv, TypeOK, PCs
  <2> QED
    BY <1>2, <2>1, <2>2, SharedReaderAssumption DEF IInv, TypeOK
<1>8. Counted'
  <2>1. Cardinality(Users(r) \cup {c}) = Cardinality(Users(r)) + 1
    BY <1>2, UserAdded DEF Readers, None
  <2> QED
    BY <1>4, <1>5, <2>1 DEF IInv, Counted
<1>9. Placed'
  BY <1>2, <1>3, <1>6 DEF IInv, Placed, Readers, None
<1>10. Assigned'
  <2>1. \A d \in Callers : caller'[d].pc = "fill" <=> caller[d].pc = "fill"
    BY <1>2, <1>3
  <2>2. \A s \in Readers : reader'[s].cancel = reader[s].cancel
                           /\ reader'[s].ready = reader[s].ready
    BY <1>4
  <2>3. \A d \in Callers : caller'[d].pc = "fill" => reader'[caller'[d].r].cancel = "unset"
    BY <1>3, <2>2, OwnReader DEF IInv, Assigned
  <2>4. \A s \in 1..created' :
          reader'[s].cancel = "unset" => \E d \in Users(s)' : caller'[d].pc = "fill"
    BY <1>2, <1>3, <1>5, <2>1, <2>2 DEF IInv, Assigned, Users, TypeOK, Readers
  <2>5. \A d \in Callers : caller'[d].pc \in {"announce", "check", "holding"} =>
          reader'[caller'[d].r].cancel # "unset"
    BY <1>3, <2>2, OwnReader DEF IInv, Assigned
  <2>6. \A d, e \in Callers :
          caller'[d].pc = "fill" /\ caller'[e].pc = "fill" /\ caller'[d].r = caller'[e].r => d = e
    BY <1>3 DEF IInv, Assigned
  <2>7. /\ \A s \in Readers : s > created' => reader'[s].cancel = "unset"
        /\ \A s \in Readers : reader'[s].ready => reader'[s].cancel # "unset"
    BY <1>2, <2>2 DEF IInv, Assigned
  <2> QED
    BY <2>3, <2>4, <2>5, <2>6, <2>7 DEF Assigned
<1>11. Entry'
  BY <1>2, <1>4 DEF IInv, Entry
<1>12. Cancelled'
  BY <1>4, <1>5, <1>6 DEF IInv, Cancelled, NoNilCancel
<1> QED
  BY <1>7, <1>8, <1>9, <1>10, <1>11, <1>12 DEF IInv

LEMMA CloseInv ==
  ASSUME IInv, NEW c \in Callers, Close(c)
  PROVE  IInv'
<1>1. PICK r \in Readers : r = caller[c].r
  BY OwnReader DEF Close
<1>2. /\ reader' = [reader EXCEPT
           ![r].refs = reader[r].refs - 1,
           ![r].cancel = IF reader[r].refs - 1 = 0 /\ reader[r].expired THEN CancelCalled(r)
                         ELSE @]
      /\ caller' = [caller EXCEPT ![c] = [pc |-> "idle", r |-> None]]
      /\ UNCHANGED <<cached, queued, callbacks, created, calls>>
      /\ caller[c].pc = "closing" /\ c \in Users(r)
  BY <1>1, OwnReader DEF Close
<1>3. /\ caller'[c] = [pc |-> "idle", r |-> None]
      /\ \A d \in Callers \ {c} : caller'[d] = caller[d]
  BY <1>2 DEF IInv, TypeOK
<1>4. Users(r)' = Users(r) \ {c} /\ \A s \in Readers \ {r} : Users(s)' = Users(s)
  BY <1>1, <1>3 DEF Users, Readers, None
<1>5. /\ Cardinality(Users(r)') = Cardinality(Users(r)) - 1
      /\ Cardinality(Users(r)) \in Nat \ {0}
      /\ Cardinality(Users(r)) - 1 = 0 <=> Users(r)' = {}
  <2>1. IsFiniteSet(Users(r) \ {c})
    BY UsersFinite, FS_Subset
  <2> QED
    BY <1>2, <1>4, <2>1, UserRemoved, UsersFinite, FS_EmptySet
<1>6. reader[r].refs = Cardinality(Users(r))
  BY DEF IInv, Counted
<1>7. /\ reader'[r].refs = Cardinality(Users(r)')
      /\ reader'[r].ready = reader[r].ready /\ reader'[r].expired = reader[r].expired
      /\ reader'[r].cancel = IF Users(r)' = {} /\ reader[r].expired THEN CancelCalled(r)
                             ELSE reader[r].cancel
      /\ \A s \in Readers \ {r} : reader'[s] = reader[s]
  BY <1>2, <1>5, <1>6 DEF IInv, TypeOK, Reader
<1>8. Users(r)' = {} => reader[r].cancel # "unset"
  BY <1>1, <1>2, <1>4, OwnReader DEF IInv, Assigned, Users
<1>9. reader[r].cancel \in {"unset", "set"}
  BY <1>2 DEF IInv, Cancelled, NoNilCancel, TypeOK, Reader
<1>10. /\ reader'[r].cancel = "called" <=> reader'[r].expired /\ Users(r)' = {}
       /\ reader'[r].cancel \in {"unset", "set", "called"}
       /\ reader'[r].cancel = "unset" <=> reader[r].cancel = "unset"
  BY <1>7, <1>8, <1>9 DEF CancelCalled
<1>11. TypeOK'
  <2>1. reader'[r] \in Reader
    <3>1. reader[r] \in Reader
      BY DEF IInv, TypeOK
    <3>2. reader'[r] = [reader[r] EXCEPT !.refs = reader'[r].refs, !.cancel = reader'[r].cancel]
      BY <1>2, <3>1 DEF IInv, TypeOK, Reader
    <3>3. reader'[r].refs \in Nat
      BY <1>5, <1>7
    <3> QED
      BY <1>10, <3>1, <3>2, <3>3 DEF Reader
  <2>2. reader' \in [Readers -> Reader]
    BY <1>2, <1>7, <2>1 DEF IInv, TypeOK
  <2>3. caller' \in [Callers -> [pc : PCs, r : Readers \cup {None}]]
    BY <1>2 DEF IInv, TypeOK, PCs
  <2> QED
    BY <1>2, <2>2, <2>3 DEF IInv, TypeOK
<1>12. Counted'
  BY <1>4, <1>7 DEF IInv, Counted
<1>13. Placed'
  BY <1>2, <1>3 DEF IInv, Placed, TypeOK, None
<1>14. Assigned'
  <2>1. \A d \in Callers : caller'[d].pc = "fill" <=> caller[d].pc = "fill"
    BY <1>2, <1>3
  <2>2. \A s \in Readers : /\ reader'[s].cancel = "unset" <=> reader[s].cancel = "unset"
                           /\ reader'[s].ready = reader[s].ready
    BY <1>7, <1>10
  <2>3. \A d \in Callers : caller'[d].pc = "fill" => reader'[caller'[d].r].cancel = "unset"
    BY <1>3, <2>2, OwnReader DEF IInv, Assigned
  <2>4. \A s \in 1..created' :
          reader'[s].cancel = "unset" => \E d \in Users(s)' : caller'[d].pc = "fill"
    <3> SUFFICES ASSUME NEW s \in 1..created, reader'[s].cancel = "unset"
                 PROVE  \E d \in Users(s)' : caller'[d].pc = "fill"
      BY <1>2
    <3>1. s \in Readers
      BY DEF IInv, TypeOK, Readers
    <3>2. PICK d \in Users(s) : caller[d].pc = "fill"
      BY <2>2, <3>1 DEF IInv, Assigned
    <3>3. d # c
      BY <1>2, <3>2
    <3> QED
      BY <1>3, <1>4, <3>1, <3>2, <3>3 DEF Users
  <2>5. \A d \in Callers : caller'[d].pc \in {"announce", "check", "holding"} =>
          reader'[caller'[d].r].cancel # "unset"
    BY <1>3, <2>2, OwnReader DEF IInv, Assigned
  <2>6. \A d, e \in Callers :
          caller'[d].pc = "fill" /\ caller'[e].pc = "fill" /\ caller'[d].r = caller'[e].r => d = e
    BY <1>3 DEF IInv, Assigned
  <2>7. /\ \A s \in Readers : s > created' => reader'[s].cancel = "unset"
        /\ \A s \in Readers : reader'[s].ready => reader'[s].cancel # "unset"
    BY <1>2, <2>2 DEF IInv, Assigned
  <2> QED
    BY <2>3, <2>4, <2>5, <2>6, <2>7 DEF Assigned
<1>15. Entry'
  <2>1. \A s \in Readers : reader'[s].expired = reader[s].expired
    BY <1>7
  <2> QED
    BY <1>2, <2>1 DEF IInv, Entry
<1>16. Cancelled'
  BY <1>4, <1>7, <1>10 DEF IInv, Cancelled, NoNilCancel
<1> QED
  BY <1>11, <1>12, <1>13, <1>14, <1>15, <1>16 DEF IInv

LEMMA ExpireCallbackInv ==
  ASSUME IInv, NEW r \in Readers, ExpireCallback(r)
  PROVE  IInv'
<1>1. /\ r \in callbacks /\ callbacks' = callbacks \ {r}
      /\ reader' = [reader EXCEPT
           ![r].expired = TRUE,
           ![r].cancel = IF reader[r].refs <= 0 THEN CancelCalled(r) ELSE @]
      /\ UNCHANGED <<cached, queued, created, caller, calls>>
  BY DEF ExpireCallback
<1>2. reader[r].refs <= 0 <=> Users(r) = {}
  BY UsersFinite DEF IInv, Counted
<1>3. /\ reader'[r].refs = reader[r].refs /\ reader'[r].ready = reader[r].ready
      /\ reader'[r].expired
      /\ reader'[r].cancel = IF Users(r) = {} THEN CancelCalled(r) ELSE reader[r].cancel
      /\ \A s \in Readers \ {r} : reader'[s] = reader[s]
  BY <1>1, <1>2 DEF IInv, TypeOK, Reader
<1>4. r \in 1..created /\ ~reader[r].expired
  BY <1>1 DEF IInv, Entry
<1>5. Users(r) = {} => reader[r].cancel # "unset"
  BY <1>4 DEF IInv, Assigned
<1>6. reader[r].cancel \in {"unset", "set"}
  BY <1>4 DEF IInv, Cancelled, NoNilCancel, TypeOK, Reader
<1>7. /\ reader'[r].cancel = "called" <=> Users(r) = {}
      /\ reader'[r].cancel \in {"unset", "set", "called"}
      /\ reader'[r].cancel = "unset" <=> reader[r].cancel = "unset"
  BY <1>3, <1>5, <1>6 DEF CancelCalled
<1>8. \A s : Users(s)' = Users(s)
  BY <1>1 DEF Users
<1>9. TypeOK'
  <2>1. reader'[r] \in Reader
    <3>1. reader[r] \in Reader
      BY DEF IInv, TypeOK
    <3>2. reader'[r] = [reader[r] EXCEPT !.expired = TRUE, !.cancel = reader'[r].cancel]
      BY <1>1, <3>1 DEF IInv, TypeOK, Reader
    <3> QED
      BY <1>7, <3>1, <3>2 DEF Reader
  <2>2. reader' \in [Readers -> Reader]
    BY <1>1, <1>3, <2>1 DEF IInv, TypeOK
  <2> QED
    BY <1>1, <2>2 DEF IInv, TypeOK
<1>10. Counted'
  BY <1>3, <1>8 DEF IInv, Counted
<1>11. Placed'
  BY <1>1 DEF IInv, Placed
<1>12. Assigned'
  <2>1. \A s \in Readers : /\ reader'[s].cancel = "unset" <=> reader[s].cancel = "unset"
                           /\ reader'[s].ready = reader[s].ready
    BY <1>3, <1>7
  <2>2. \A d \in Callers : caller[d].pc \in {"fill", "announce", "check", "holding"} =>
          (reader'[caller[d].r].cancel = "unset" <=> reader[caller[d].r].cancel = "unset")
    BY <2>1, OwnReader
  <2>3. \A s \in 1..created : s \in Readers
    BY DEF IInv, TypeOK, Readers
  <2> QED
    BY <1>1, <1>8, <2>1, <2>2, <2>3 DEF IInv, Assigned
<1>13. Entry'
  BY <1>1, <1>3, <1>4 DEF IInv, Entry, TypeOK
<1>14. Cancelled'
  BY <1>3, <1>7, <1>8 DEF IInv, Cancelled, NoNilCancel
<1> QED
  BY <1>9, <1>10, <1>11, <1>12, <1>13, <1>14 DEF IInv

\* The cache forgets an entry: no reader and no caller changes.
LEMMA ForgetInv ==
  ASSUME IInv, Lapse \/ \E r \in Readers : Evict(r)
  PROVE  IInv'
<1>1. cached' = None /\ UNCHANGED <<created, reader, caller, calls>>
  BY DEF Lapse, Evict
<1>2. TypeOK'
  BY <1>1 DEF IInv, TypeOK, Lapse, Evict
<1>3. \A s : Users(s)' = Users(s)
  BY <1>1 DEF Users
<1>4. Counted' /\ Placed' /\ Assigned' /\ Cancelled'
  BY <1>1, <1>3 DEF IInv, Counted, Placed, Assigned, Cancelled, NoNilCancel
<1>5. Entry'
  BY <1>1 DEF IInv, Entry, Lapse, Evict
<1> QED
  BY <1>2, <1>4, <1>5 DEF IInv

LEMMA StepInv == IInv /\ [Next]_vars => IInv'
<1> SUFFICES ASSUME IInv, [Next]_vars PROVE IInv'
  OBVIOUS
<1>1. CASE UNCHANGED vars
  BY <1>1 DEF vars, IInv, TypeOK, Counted, Placed, Assigned, Entry, Cancelled, NoNilCancel, Users
<1>2. ASSUME NEW c \in Callers, AwaitCancelled(c) PROVE IInv'
  BY <1>2, MoveInv DEF AwaitCancelled
<1>3. ASSUME NEW c \in Callers, AwaitReady(c) PROVE IInv'
  <2>1. reader[caller[c].r].cancel # "unset"
    BY <1>3, OwnReader DEF AwaitReady, IInv, Assigned
  <2> QED
    BY <1>3, <2>1, MoveInv DEF AwaitReady
<1>4. ASSUME NEW c \in Callers, CheckErr(c) PROVE IInv'
  <2>1. reader[caller[c].r].cancel # "unset"
    BY <1>4 DEF CheckErr, IInv, Assigned
  <2> QED
    BY <1>4, <2>1, MoveInv DEF CheckErr
<1>5. ASSUME NEW c \in Callers, DoneReading(c) PROVE IInv'
  BY <1>5, MoveInv DEF DoneReading
<1>6. CASE Finished
  BY <1>1, <1>6 DEF Finished
<1> QED
  BY <1>1, <1>2, <1>3, <1>4, <1>5, <1>6, MissInv, HitInv, FillInv, AnnounceInv, CloseInv,
     ExpireCallbackInv, ForgetInv DEF Next, CallerStep

-----------------------------------------------------------------------------
(* The theorems. *)

\* The state of the readers always has its types: refs never goes below zero.
THEOREM TypeCorrect == Spec => []TypeOK
<1>1. IInv => TypeOK
  BY DEF IInv
<1> QED
  BY <1>1, InitInv, StepInv, PTL DEF Spec

\* No caller loses a reader it holds, whenever its entry expires, for any number of callers.
THEOREM HeldSafe == Spec => []HeldNotCancelled
<1>1. IInv => HeldNotCancelled
  <2> SUFFICES ASSUME IInv, NEW c \in Callers, caller[c].pc = "holding"
               PROVE  reader[caller[c].r].cancel = "set"
    BY DEF HeldNotCancelled
  <2>1. reader[caller[c].r].cancel \in {"set", "called"}
    BY OwnReader DEF IInv, TypeOK, Reader, Assigned, Cancelled, NoNilCancel
  <2> QED
    BY <2>1, OwnReader DEF IInv, Cancelled
<1> QED
  BY <1>1, InitInv, StepInv, PTL DEF Spec

\* cancel is never called before it is assigned, though no lock guards the assignment.
THEOREM CancelAssigned == Spec => []NoNilCancel
<1>1. IInv => NoNilCancel
  BY DEF IInv, Cancelled
<1> QED
  BY <1>1, InitInv, StepInv, PTL DEF Spec

\* refs is the number of users, and a reader is cancelled exactly when it is expired and
\* unused.
THEOREM CancelExact == Spec => []CancelledWhenUnused
<1>1. IInv => CancelledWhenUnused
  BY DEF IInv, Counted, Cancelled, CancelledWhenUnused
<1> QED
  BY <1>1, InitInv, StepInv, PTL DEF Spec

=============================================================================
