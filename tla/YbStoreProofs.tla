--------------------------- MODULE YbStoreProofs ---------------------------
(***************************************************************************)
(* Theorems about YbStore, for any number of callers, pieces, multihashes, *)
(* deals and threads, and of calls and faults.                             *)
(*                                                                         *)
(* There is no mutex, so what a call may rely on between two statements is *)
(* what the other calls on the same piece leave alone: additions only add  *)
(* rows and removals only remove them.  Unless an addition and a removal   *)
(* overlap (Exclusive), an AddIndex therefore finds the rows it inserted   *)
(* (AddRight), and a removal finds none it has removed (RemoveRight).      *)
(***************************************************************************)
EXTENDS YbStore, FiniteSetTheorems, TLAPS

USE YbStoreAssumption

Safe(p) == "overlap" \notin excuses[p]

\* The program counters of each operation, and the fields it has set.
Shape(k) ==
  /\ k.op = "none" <=> k.pc = "idle"
  /\ k.pc = "idle" => k = NoCall
  /\ k.pc # "idle" => k.piece \in Pieces
  /\ k.op = "addDeal" => /\ k.pc \in {"createMetadata", "insertDeal"}
                         /\ k.deal \in Deals /\ DealPiece[k.deal] = k.piece
  /\ k.op = "addIndex" =>
       k.pc \in {"hashes", "records", "createMetadata", "setIndexedAt", "complete", "closed"}
  /\ k.op = "removeDeal" =>
       /\ k.pc \in {"deleteDeal", "remaining", "known", "scan", "scanKnown", "scanStuck",
                    "drain", "deleteMetadata"}
       /\ k.pc = "deleteDeal" => k.deal \in Deals /\ DealPiece[k.deal] = k.piece
  /\ k.op = "removeIndexes" => k.pc \in {"scan", "scanKnown", "scanStuck", "drain"}
  /\ k.op = "removeMetadata" => k.pc = "deleteMetadata"
  /\ IsFiniteSet(k.hand) /\ Cardinality(k.hand) <= k.threads
  /\ k.pc # "drain" => k.hand = {} /\ k.seen = {}
  /\ k.pc = "drain" /\ ~k.failed => k.threads = Threads

Exclusive ==
  \A x, y \in Callers :
    call[x].op \in Adds /\ call[y].op \in Removes /\ call[x].piece = call[y].piece =>
      ~Safe(call[x].piece)

\* An AddIndex that has a record to store and is not through with it.
Indexing(k, p) == k.op = "addIndex" /\ k.piece = p /\ k.recs # {}

\* The multihash h of p has its row, and its record is about to be inserted.
Awaited(k, h, p) ==
  /\ k.op = "addIndex" /\ k.piece = p
  /\ \/ k.pc = "hashes" /\ h \in k.recs
     \/ k.pc = "records" /\ h \in k.todo

\* An addition k with the stream s finds what it has inserted.
AddRight(k, s) ==
  LET p == k.piece IN
  /\ s.error => k.pc = "closed" /\ k.failed
  /\ k.op = "addDeal" /\ k.pc = "insertDeal" /\ Safe(p) => metadata[p] # None
  /\ k.op = "addIndex" =>
       /\ k.recs = {} => k.pc = "closed" /\ ~k.failed
       /\ k.todo \subseteq k.recs
       /\ k.failed => "cut" \in excuses[p] /\ k.pc \in {"complete", "closed"}
       /\ k.failed /\ k.pc = "closed" =>
            "dropped" \in excuses[p] \/ (s.error /\ s.buffered > 0)
       /\ Safe(p) /\ ~k.failed => \A h \in k.recs :
            /\ (k.pc = "hashes" => h \notin k.todo) => <<h, p>> \in hashRows
            /\ k.pc # "hashes" /\ (k.pc = "records" => h \notin k.todo) => h \in records[p]
       /\ Safe(p) /\ k.pc = "setIndexedAt" => metadata[p] # None
       /\ Safe(p) /\ k.pc \in {"complete", "closed"} /\ ~k.failed /\ k.recs # {} =>
            metadata[p] # None /\ metadata[p].indexed

\* A removal k finds nothing that has been removed before.
RemoveRight(k) ==
  LET p == k.piece IN
  Safe(p) =>
    /\ k.op \in {"removeIndexes", "removeMetadata"} => acked[p] = {}
    /\ k.op = "removeDeal" /\ k.pc \notin {"deleteDeal", "remaining"} =>
         acked[p] = {} /\ GetPieceDeals(p) = {}
    /\ k.op = "removeDeal" /\ k.pc = "remaining" => acked[p] = {} \/ GetPieceDeals(p) # {}
    /\ \A h \in k.hand : <<h, p>> \notin hashRows
    /\ k.pc = "drain" =>
         /\ records[p] \subseteq k.todo
         /\ ~k.failed => records[p] \cap k.seen \subseteq k.hand
         /\ ~k.scanning => records[p] \subseteq k.seen \/ "scan" \in excuses[p]
    /\ k.pc = "scanKnown" => records[p] = {}
    /\ k.op = "removeDeal" /\ k.pc = "deleteMetadata" =>
         records[p] = {} \/ "scan" \in excuses[p]

MetadataRight(p) ==
  metadata[p] = None /\ ~Excused(p, {"overlap", "byHand", "scan"}) =>
    /\ GetPieceDeals(p) = {}
    /\ records[p] = {} \/ "cut" \in excuses[p] \/ \E c \in Callers : Indexing(call[c], p)

HashesRight(p) ==
  ~Excused(p, {"overlap", "cut"}) => \A h \in Hashes : <<h, p>> \in hashRows =>
    h \in records[p] \/ \E c \in Callers : Awaited(call[c], h, p)

AckedRight(p) ==
  ~Excused(p, {"overlap", "dropped"}) => \A h \in acked[p] :
    /\ h \in records[p] /\ <<h, p>> \in hashRows
    /\ metadata[p] # None /\ metadata[p].indexed

IInv ==
  /\ TypeOK
  /\ \A c \in Callers : Shape(call[c])
  /\ Exclusive
  /\ \A c \in Callers : AddRight(call[c], stream[c])
  /\ \A c \in Callers : call[c].op \in Removes => RemoveRight(call[c])
  /\ \A p \in Pieces : MetadataRight(p) /\ HashesRight(p) /\ AckedRight(p)

-----------------------------------------------------------------------------
(* What the steps have in common. *)

LEMMA Typed ==
  ASSUME IInv, NEW c \in Callers
  PROVE  /\ call[c] \in Call /\ stream[c] \in Stream /\ Shape(call[c])
         /\ AddRight(call[c], stream[c])
         /\ call[c].op \in Removes => RemoveRight(call[c])
         /\ call[c].op # "none" => call[c].piece \in Pieces
<1>1. call[c] \in Call /\ stream[c] \in Stream
  BY DEF IInv, TypeOK
<1>2. Shape(call[c]) /\ AddRight(call[c], stream[c])
      /\ (call[c].op \in Removes => RemoveRight(call[c]))
  BY DEF IInv
<1>3. call[c].op # "none" => call[c].piece \in Pieces
  BY <1>2 DEF Shape
<1> QED
  BY <1>1, <1>2, <1>3

LEMMA NoCallRight ==
  /\ NoCall \in Call /\ Shape(NoCall) /\ NoCall.op = "none" /\ NoCall.pc = "idle"
  /\ NoStream \in Stream /\ ~NoStream.error
<1>1. IsFiniteSet({}) /\ Cardinality({}) = 0
  BY FS_EmptySet
<1>2. NoCall \in Call
  BY DEF NoCall, Call, Ops, PCs
<1>3. Shape(NoCall)
  BY <1>1 DEF NoCall, Shape
<1> QED
  BY <1>2, <1>3 DEF NoCall, NoStream, Stream

\* Only the call of c and its stream change.
Only(c) ==
  \A x \in Callers \ {c} : call'[x] = call[x] /\ stream'[x] = stream[x]

\* The call goes on or ends.
GoesOn(c) ==
  call'[c] = NoCall \/ (call'[c].op = call[c].op /\ call'[c].piece = call[c].piece)

ExcusesGrow == \A p \in Pieces : excuses[p] \subseteq excuses'[p]

LEMMA ExclusiveKept ==
  ASSUME IInv, NEW c \in Callers, Only(c), GoesOn(c), ExcusesGrow
  PROVE  Exclusive'
<1> SUFFICES ASSUME NEW x \in Callers, NEW y \in Callers,
                    call'[x].op \in Adds, call'[y].op \in Removes,
                    call'[x].piece = call'[y].piece
             PROVE  "overlap" \in excuses'[call'[x].piece]
  BY DEF Exclusive, Safe
<1>1. ASSUME NEW z \in Callers, call'[z].op # "none"
      PROVE  call'[z].op = call[z].op /\ call'[z].piece = call[z].piece
  BY <1>1, NoCallRight DEF Only, GoesOn
<1>2. call'[x].op = call[x].op /\ call'[x].piece = call[x].piece
  BY <1>1 DEF Adds
<1>3. call'[y].op = call[y].op /\ call'[y].piece = call[y].piece
  BY <1>1 DEF Removes
<1>4. call[x].piece \in Pieces
  BY <1>2, Typed DEF Adds
<1>5. "overlap" \in excuses[call[x].piece]
  BY <1>2, <1>3 DEF IInv, Exclusive, Safe
<1> QED
  BY <1>2, <1>4, <1>5 DEF ExcusesGrow

\* A step that changes no table: the call goes on, ends or begins.
LEMMA Moved ==
  ASSUME IInv, TypeOK', NEW c \in Callers, UNCHANGED tables, Only(c), ExcusesGrow,
         \A p \in Pieces : acked'[p] \subseteq acked[p],
         Shape(call'[c]), Exclusive',
         AddRight(call[c], stream[c])', (call[c].op \in Removes => RemoveRight(call[c]))',
         \A p \in Pieces : Indexing(call[c], p) =>
           Indexing(call'[c], p) \/ "cut" \in excuses'[p]
             \/ (Safe(p) => metadata[p] # None),
         \A p \in Pieces : \A h \in Hashes : Awaited(call[c], h, p) =>
           Awaited(call'[c], h, p) \/ "cut" \in excuses'[p]
  PROVE  IInv'
<1>1. UNCHANGED <<metadata, dealRows, hashRows, records>>
  BY DEF tables
<1>2. ASSUME NEW x \in Callers, x # c
      PROVE  /\ Shape(call[x])' /\ AddRight(call[x], stream[x])'
             /\ (call[x].op \in Removes => RemoveRight(call[x]))'
  <2>1. call'[x] = call[x] /\ stream'[x] = stream[x]
    BY <1>2 DEF Only
  <2>2. /\ call[x] \in Call /\ Shape(call[x]) /\ AddRight(call[x], stream[x])
        /\ call[x].op \in Removes => RemoveRight(call[x])
        /\ call[x].op # "none" => call[x].piece \in Pieces
    BY Typed
  <2>3. AddRight(call[x], stream[x])'
    <3>1. CASE call[x].op = "none"
      BY <2>1, <2>2, <3>1 DEF AddRight
    <3>2. CASE call[x].op # "none"
      <4>1. excuses[call[x].piece] \subseteq excuses'[call[x].piece]
        BY <2>2, <3>2 DEF ExcusesGrow
      <4> QED
        BY <1>1, <2>1, <2>2, <4>1 DEF AddRight, Safe
    <3> QED
      BY <3>1, <3>2
  <2>4. (call[x].op \in Removes => RemoveRight(call[x]))'
    <3> SUFFICES ASSUME call[x].op \in Removes PROVE RemoveRight(call[x])'
      BY <2>1
    <3>1. call[x].piece \in Pieces /\ RemoveRight(call[x])
      BY <2>2 DEF Removes
    <3>2. /\ excuses[call[x].piece] \subseteq excuses'[call[x].piece]
          /\ acked'[call[x].piece] \subseteq acked[call[x].piece]
      BY <3>1 DEF ExcusesGrow
    <3> QED
      BY <1>1, <2>1, <3>1, <3>2 DEF RemoveRight, Safe, GetPieceDeals
  <2> QED
    BY <2>1, <2>2, <2>3, <2>4
<1>3. ASSUME NEW p \in Pieces
      PROVE  (MetadataRight(p) /\ HashesRight(p) /\ AckedRight(p))'
  <2>1. MetadataRight(p) /\ HashesRight(p) /\ AckedRight(p)
    BY DEF IInv
  <2>2. excuses[p] \subseteq excuses'[p] /\ acked'[p] \subseteq acked[p]
    BY DEF ExcusesGrow
  <2>3. MetadataRight(p)'
    <3> SUFFICES ASSUME metadata[p] = None, ~Excused(p, {"overlap", "byHand", "scan"})'
                 PROVE  /\ GetPieceDeals(p) = {}
                        /\ records[p] = {} \/ "cut" \in excuses'[p]
                             \/ \E x \in Callers : Indexing(call'[x], p)
      BY <1>1 DEF MetadataRight, GetPieceDeals, Indexing
    <3>1. ~Excused(p, {"overlap", "byHand", "scan"}) /\ Safe(p)
      BY <2>2 DEF Excused, Safe
    <3>2. /\ GetPieceDeals(p) = {}
          /\ records[p] = {} \/ "cut" \in excuses[p] \/ \E x \in Callers : Indexing(call[x], p)
      BY <2>1, <3>1 DEF MetadataRight
    <3>3. ASSUME NEW x \in Callers, Indexing(call[x], p)
          PROVE  "cut" \in excuses'[p] \/ \E y \in Callers : Indexing(call'[y], p)
      <4>1. CASE x = c
        BY <3>1, <3>3, <4>1
      <4>2. CASE x # c
        BY <3>3, <4>2 DEF Only
      <4> QED
        BY <4>1, <4>2
    <3> QED
      BY <2>2, <3>2, <3>3
  <2>4. HashesRight(p)'
    <3> SUFFICES ASSUME ~Excused(p, {"overlap", "cut"})', NEW h \in Hashes, <<h, p>> \in hashRows
                 PROVE  h \in records[p] \/ \E x \in Callers : Awaited(call'[x], h, p)
      BY <1>1 DEF HashesRight, Awaited
    <3>1. ~Excused(p, {"overlap", "cut"}) /\ "cut" \notin excuses'[p]
      BY <2>2 DEF Excused
    <3>2. h \in records[p] \/ \E x \in Callers : Awaited(call[x], h, p)
      BY <2>1, <3>1 DEF HashesRight
    <3>3. ASSUME NEW x \in Callers, Awaited(call[x], h, p)
          PROVE  Awaited(call'[x], h, p)
      BY <3>1, <3>3 DEF Only
    <3> QED
      BY <3>2, <3>3
  <2>5. AckedRight(p)'
    BY <1>1, <2>1, <2>2 DEF AckedRight, Excused
  <2> QED
    BY <2>3, <2>4, <2>5
<1>4. \A x \in Callers : Shape(call[x])' /\ AddRight(call[x], stream[x])'
                           /\ (call[x].op \in Removes => RemoveRight(call[x]))'
  <2> SUFFICES ASSUME NEW x \in Callers
               PROVE  /\ Shape(call[x])' /\ AddRight(call[x], stream[x])'
                      /\ (call[x].op \in Removes => RemoveRight(call[x]))'
    OBVIOUS
  <2>1. CASE x = c
    BY <2>1
  <2>2. CASE x # c
    BY <1>2, <2>2
  <2> QED
    BY <2>1, <2>2
<1> QED
  BY <1>3, <1>4 DEF IInv

-----------------------------------------------------------------------------
(* Steps that write to the tables. *)

\* Nothing changes for the other pieces than p.
Elsewhere(p) ==
  \A q \in Pieces \ {p} :
    /\ metadata'[q] = metadata[q] /\ records'[q] = records[q]
    /\ acked'[q] = acked[q] /\ excuses'[q] = excuses[q]
    /\ GetPieceDeals(q)' = GetPieceDeals(q)
    /\ \A h \in Hashes : <<h, q>> \in hashRows' <=> <<h, q>> \in hashRows

\* What an addition may do to its piece.
Grown(p) ==
  /\ metadata[p] # None =>
       metadata'[p] # None /\ (metadata[p].indexed => metadata'[p].indexed)
  /\ records[p] \subseteq records'[p]
  /\ \A h \in Hashes : <<h, p>> \in hashRows => <<h, p>> \in hashRows'

\* What a removal may do to its piece.
Shrunk(p) ==
  /\ records'[p] \subseteq records[p]
  /\ \A h \in Hashes : <<h, p>> \in hashRows' => <<h, p>> \in hashRows
  /\ acked'[p] \subseteq acked[p]
  /\ GetPieceDeals(p)' \subseteq GetPieceDeals(p)
  /\ GetPieceDeals(p)' = {} => GetPieceDeals(p) = {} \/ acked'[p] = {}

Changes(c) ==
  \E p \in Pieces :
    /\ p = call[c].piece
    /\ \/ call[c].op \in Adds /\ Grown(p)
       \/ call[c].op \in Removes /\ Shrunk(p)

LEMMA OtherAdditions ==
  ASSUME IInv, NEW c \in Callers, Only(c), ExcusesGrow, Elsewhere(call[c].piece), Changes(c),
         NEW x \in Callers \ {c}
  PROVE  AddRight(call[x], stream[x])'
<1>1. call'[x] = call[x] /\ stream'[x] = stream[x]
  BY DEF Only
<1>2. /\ call[x] \in Call /\ AddRight(call[x], stream[x])
      /\ call[x].op # "none" => call[x].piece \in Pieces
  BY Typed
<1>3. CASE call[x].op \notin Adds
  BY <1>1, <1>2, <1>3 DEF AddRight, Adds
<1>4. CASE call[x].op \in Adds
  <2>1. PICK p \in Pieces : call[x].piece = p
    BY <1>2, <1>4 DEF Adds
  <2>2. excuses[p] \subseteq excuses'[p]
    BY DEF ExcusesGrow
  <2>3. \A h \in call[x].recs : h \in Hashes
    BY <1>2 DEF Call
  <2>4. Safe(p)' =>
          /\ Safe(p)
          /\ metadata[p] # None =>
               metadata'[p] # None /\ (metadata[p].indexed => metadata'[p].indexed)
          /\ records[p] \subseteq records'[p]
          /\ \A h \in Hashes : <<h, p>> \in hashRows => <<h, p>> \in hashRows'
    <3> SUFFICES ASSUME Safe(p)' PROVE
          /\ Safe(p)
          /\ metadata[p] # None =>
               metadata'[p] # None /\ (metadata[p].indexed => metadata'[p].indexed)
          /\ records[p] \subseteq records'[p]
          /\ \A h \in Hashes : <<h, p>> \in hashRows => <<h, p>> \in hashRows'
      OBVIOUS
    <3>1. Safe(p)
      BY <2>2 DEF Safe
    <3>2. CASE call[c].piece # p
      BY <3>1, <3>2 DEF Elsewhere
    <3>3. CASE call[c].piece = p
      <4>1. call[c].op \notin Removes
        BY <1>4, <2>1, <3>1, <3>3 DEF IInv, Exclusive
      <4> QED
        BY <3>1, <3>3, <4>1 DEF Changes, Grown
    <3> QED
      BY <3>2, <3>3
  <2> QED
    BY <1>1, <1>2, <2>1, <2>2, <2>3, <2>4 DEF AddRight, Safe
<1> QED
  BY <1>3, <1>4

LEMMA OtherRemovals ==
  ASSUME IInv, NEW c \in Callers, Only(c), ExcusesGrow, Elsewhere(call[c].piece), Changes(c),
         NEW x \in Callers \ {c}, call[x].op \in Removes
  PROVE  RemoveRight(call[x])'
<1>1. call'[x] = call[x]
  BY DEF Only
<1>2. call[x] \in Call /\ RemoveRight(call[x]) /\ call[x].piece \in Pieces
  BY Typed DEF Removes
<1>3. PICK p \in Pieces : call[x].piece = p
  BY <1>2
<1>4. excuses[p] \subseteq excuses'[p]
  BY DEF ExcusesGrow
<1>5. \A h \in call[x].hand : h \in Hashes
  BY <1>2 DEF Call
<1> SUFFICES ASSUME Safe(p)' PROVE RemoveRight(call[x])'
  BY <1>1, <1>3 DEF RemoveRight, Safe
<1>6. Safe(p)
  BY <1>4 DEF Safe
<1>7. Shrunk(p)
  <2>1. CASE call[c].piece # p
    BY <2>1 DEF Elsewhere, Shrunk
  <2>2. CASE call[c].piece = p
    <3>1. call[c].op \notin Adds
      BY <1>3, <1>6, <2>2 DEF IInv, Exclusive
    <3> QED
      BY <2>2, <3>1 DEF Changes
  <2> QED
    BY <2>1, <2>2
<1>8. GetPieceDeals(p)' # {} \/ GetPieceDeals(p) = {} \/ acked'[p] = {}
  BY <1>7 DEF Shrunk
<1> QED
  BY <1>1, <1>2, <1>3, <1>4, <1>5, <1>6, <1>7, <1>8 DEF RemoveRight, Shrunk

LEMMA OtherPieces ==
  ASSUME IInv, NEW c \in Callers, Only(c), NEW p \in Pieces, call[c].piece \in {p, None},
         Elsewhere(p), NEW q \in Pieces \ {p}
  PROVE  (MetadataRight(q) /\ HashesRight(q) /\ AckedRight(q))'
<1>1. MetadataRight(q) /\ HashesRight(q) /\ AckedRight(q)
  BY DEF IInv
<1>2. /\ metadata'[q] = metadata[q] /\ records'[q] = records[q]
      /\ acked'[q] = acked[q] /\ excuses'[q] = excuses[q]
      /\ GetPieceDeals(q)' = GetPieceDeals(q)
      /\ \A h \in Hashes : <<h, q>> \in hashRows' <=> <<h, q>> \in hashRows
  BY DEF Elsewhere
<1>3. \A x \in Callers : Indexing(call[x], q) => Indexing(call'[x], q)
  BY DEF Only, Indexing
<1>4. \A x \in Callers, h \in Hashes : Awaited(call[x], h, q) => Awaited(call'[x], h, q)
  BY DEF Only, Awaited
<1>5. MetadataRight(q)'
  BY <1>1, <1>2, <1>3 DEF MetadataRight, Excused, Indexing
<1>6. HashesRight(q)'
  BY <1>1, <1>2, <1>4 DEF HashesRight, Excused, Awaited
<1>7. AckedRight(q)'
  <2>1. acked[q] \subseteq Hashes
    BY DEF IInv, TypeOK
  <2> QED
    BY <1>1, <1>2, <2>1 DEF AckedRight, Excused
<1> QED
  BY <1>5, <1>6, <1>7

\* A step of c that writes to the tables keeps the invariant, if it keeps what is about
\* c and its piece.
LEMMA Written ==
  ASSUME IInv, TypeOK', NEW c \in Callers, Only(c), GoesOn(c), ExcusesGrow,
         call[c].op # "none", Elsewhere(call[c].piece), Changes(c),
         Shape(call'[c]), AddRight(call[c], stream[c])',
         (call[c].op \in Removes => RemoveRight(call[c]))',
         NEW p \in Pieces, p = call[c].piece,
         MetadataRight(p)', HashesRight(p)', AckedRight(p)'
  PROVE  IInv'
<1>1. Exclusive'
  BY ExclusiveKept
<1>2. ASSUME NEW x \in Callers
      PROVE  /\ Shape(call[x])' /\ AddRight(call[x], stream[x])'
             /\ (call[x].op \in Removes => RemoveRight(call[x]))'
  <2>1. CASE x = c
    BY <2>1
  <2>2. CASE x # c
    <3>1. call'[x] = call[x] /\ Shape(call[x])
      BY <2>2, Typed DEF Only
    <3>2. AddRight(call[x], stream[x])'
      BY <2>2, OtherAdditions
    <3>3. (call[x].op \in Removes => RemoveRight(call[x]))'
      BY <2>2, <3>1, OtherRemovals
    <3> QED
      BY <3>1, <3>2, <3>3
  <2> QED
    BY <2>1, <2>2
<1>3. ASSUME NEW q \in Pieces
      PROVE  (MetadataRight(q) /\ HashesRight(q) /\ AckedRight(q))'
  BY OtherPieces
<1> QED
  BY <1>1, <1>2, <1>3 DEF IInv

-----------------------------------------------------------------------------
(* The calls begin. *)

LEMMA BeginInv ==
  ASSUME IInv, NEW c \in Callers, NEW op \in Adds \cup Removes, NEW p \in Pieces,
         NEW d \in Deals \cup {None}, NEW R \in SUBSET Hashes, NEW pc \in PCs,
         Begin(c, op, p, d, R, pc),
         stream' \in [Callers -> Stream], ~stream'[c].error,
         \A x \in Callers \ {c} : stream'[x] = stream[x],
         acked' \in [Pieces -> SUBSET Hashes], \A q \in Pieces : acked'[q] \subseteq acked[q],
         op = "addDeal" => pc = "createMetadata" /\ d \in Deals /\ DealPiece[d] = p,
         op = "addIndex" => pc = IF R = {} THEN "closed" ELSE "hashes",
         op = "removeDeal" => pc = "deleteDeal" /\ d \in Deals /\ DealPiece[d] = p,
         op = "removeIndexes" => pc = "scan" /\ acked'[p] = {},
         op = "removeMetadata" => pc = "deleteMetadata" /\ acked'[p] = {}
  PROVE  IInv'
<1> DEFINE k == [NoCall EXCEPT !.op = op, !.pc = pc, !.piece = p, !.deal = d, !.recs = R,
                               !.todo = R]
<1>1. /\ call[c].pc = "idle" /\ calls < MaxCalls /\ calls' = calls + 1
      /\ call' = [call EXCEPT ![c] = k]
      /\ UNCHANGED <<tables, faults>>
  BY DEF Begin
<1>2. /\ k \in Call /\ k.op = op /\ k.pc = pc /\ k.piece = p /\ k.deal = d /\ k.recs = R
      /\ k.todo = R /\ k.hand = {} /\ k.seen = {} /\ k.threads = 0 /\ ~k.failed
  <2>1. NoCall \in Call /\ NoCall.hand = {} /\ NoCall.seen = {} /\ NoCall.threads = 0 /\ ~NoCall.failed
    BY NoCallRight DEF NoCall
  <2>2. op \in Ops
    BY DEF Ops, Adds, Removes
  <2> QED
    BY <2>1, <2>2 DEF Call
<1> HIDE DEF k
<1>3. Shape(k)
  <2>1. IsFiniteSet(k.hand) /\ Cardinality(k.hand) <= k.threads
    BY <1>2, FS_EmptySet
  <2>2. op # "none" /\ pc # "idle" /\ pc # "drain"
    BY DEF Adds, Removes
  <2> QED
    BY <1>2, <2>1, <2>2 DEF Shape
<1>4. /\ call' \in [Callers -> Call] /\ call'[c] = k
      /\ \A x \in Callers \ {c} : call'[x] = call[x]
  BY <1>1, <1>2 DEF IInv, TypeOK
<1>5. Only(c)
  BY <1>4 DEF Only
<1>6. call[c].op = "none"
  BY <1>1, Typed DEF Shape
<1>7. /\ excuses' \in [Pieces -> SUBSET Excuses] /\ ExcusesGrow
      /\ Running(p, IF op \in Adds THEN Removes ELSE Adds) => "overlap" \in excuses'[p]
  <2>1. excuses \in [Pieces -> SUBSET Excuses]
    BY DEF IInv, TypeOK
  <2> QED
    BY <2>1 DEF Begin, Excuse, ExcusesGrow, Excuses
<1>8. TypeOK'
  <2>1. \A x \in Callers : Cardinality(call'[x].hand) <= call'[x].threads
    BY <1>3, <1>4 DEF IInv, TypeOK, Shape
  <2> QED
    BY <1>1, <1>4, <1>7, <2>1 DEF IInv, TypeOK, tables
<1>9. Exclusive'
  <2> SUFFICES ASSUME NEW x \in Callers, NEW y \in Callers,
                      call'[x].op \in Adds, call'[y].op \in Removes,
                      call'[x].piece = call'[y].piece
               PROVE  "overlap" \in excuses'[call'[x].piece]
    BY DEF Exclusive, Safe
  <2>1. x # y
    BY DEF Adds, Removes
  <2>2. CASE x = c
    <3>1. Running(p, Removes)
      BY <1>2, <1>4, <2>1, <2>2 DEF Running
    <3> QED
      BY <1>2, <1>4, <1>7, <2>2, <3>1
  <2>3. CASE y = c
    <3>1. Running(p, Adds) /\ op \notin Adds
      BY <1>2, <1>4, <2>1, <2>3 DEF Running, Adds, Removes
    <3> QED
      BY <1>2, <1>4, <1>7, <2>3, <3>1
  <2>4. CASE x # c /\ y # c
    <3>1. call[x].piece \in Pieces
      BY <1>4, <2>4, Typed DEF Adds
    <3> QED
      BY <1>4, <1>7, <2>4, <3>1 DEF IInv, Exclusive, Safe, ExcusesGrow
  <2> QED
    BY <2>2, <2>3, <2>4
<1>10. AddRight(call[c], stream[c])'
  BY <1>2, <1>4 DEF AddRight
<1>11. (call[c].op \in Removes => RemoveRight(call[c]))'
  BY <1>2, <1>4 DEF RemoveRight, Removes
<1> QED
  BY <1>1, <1>3, <1>4, <1>5, <1>6, <1>7, <1>8, <1>9, <1>10, <1>11, Moved
     DEF Indexing, Awaited

LEMMA StreamsTyped ==
  ASSUME IInv
  PROVE  /\ stream \in [Callers -> Stream] /\ acked \in [Pieces -> SUBSET Hashes]
         /\ \A c \in Callers : call[c].pc = "idle" => ~stream[c].error
<1>1. \A c \in Callers : AddRight(call[c], stream[c])
  BY DEF IInv
<1> QED
  BY <1>1 DEF IInv, TypeOK, AddRight

LEMMA AddDealForPieceInv ==
  ASSUME IInv, NEW c \in Callers, AddDealForPiece(c)
  PROVE  IInv'
<1>1. PICK d \in Deals : Begin(c, "addDeal", DealPiece[d], d, {}, "createMetadata")
  BY DEF AddDealForPiece
<1>2. UNCHANGED <<stream, acked>> /\ call[c].pc = "idle"
  BY <1>1 DEF AddDealForPiece, Begin
<1>3. "addDeal" \in Adds \cup Removes /\ DealPiece[d] \in Pieces /\ "createMetadata" \in PCs
  BY DEF Adds, PCs
<1> QED
  BY <1>1, <1>2, <1>3, BeginInv, StreamsTyped

LEMMA AddIndexInv ==
  ASSUME IInv, NEW c \in Callers, AddIndex(c)
  PROVE  IInv'
<1>1. PICK p \in Pieces, R \in RecordSets :
        Begin(c, "addIndex", p, None, R, IF R = {} THEN "closed" ELSE "hashes")
  BY DEF AddIndex
<1>2. stream' = [stream EXCEPT ![c] = [NoStream EXCEPT !.buffered = 1]] /\ UNCHANGED acked
  BY DEF AddIndex
<1>3. [NoStream EXCEPT !.buffered = 1] \in Stream /\ ~[NoStream EXCEPT !.buffered = 1].error
  BY NoCallRight DEF Stream
<1>4. /\ stream' \in [Callers -> Stream] /\ ~stream'[c].error
      /\ \A x \in Callers \ {c} : stream'[x] = stream[x]
  BY <1>2, <1>3, StreamsTyped
<1>5. "addIndex" \in Adds \cup Removes /\ R \in SUBSET Hashes
      /\ (IF R = {} THEN "closed" ELSE "hashes") \in PCs
  BY DEF Adds, PCs
<1> QED
  BY <1>1, <1>2, <1>4, <1>5, BeginInv, StreamsTyped

LEMMA RemoveDealForPieceInv ==
  ASSUME IInv, NEW c \in Callers, RemoveDealForPiece(c)
  PROVE  IInv'
<1>1. PICK d \in Deals : Begin(c, "removeDeal", DealPiece[d], d, {}, "deleteDeal")
  BY DEF RemoveDealForPiece
<1>2. UNCHANGED <<stream, acked>> /\ call[c].pc = "idle"
  BY <1>1 DEF RemoveDealForPiece, Begin
<1>3. "removeDeal" \in Adds \cup Removes /\ DealPiece[d] \in Pieces /\ "deleteDeal" \in PCs
  BY DEF Removes, PCs
<1> QED
  BY <1>1, <1>2, <1>3, BeginInv, StreamsTyped

\* RemoveIndexes and RemovePieceMetadata.
LEMMA BeginRemovalInv ==
  ASSUME IInv, NEW c \in Callers, RemoveIndexes(c) \/ RemovePieceMetadata(c)
  PROVE  IInv'
<1>1. PICK p \in Pieces :
        /\ \/ Begin(c, "removeIndexes", p, None, {}, "scan")
           \/ Begin(c, "removeMetadata", p, None, {}, "deleteMetadata")
        /\ acked' = [acked EXCEPT ![p] = {}]
  BY DEF RemoveIndexes, RemovePieceMetadata
<1>2. UNCHANGED stream /\ call[c].pc = "idle"
  BY <1>1 DEF RemoveIndexes, RemovePieceMetadata, Begin
<1>3. "removeIndexes" \in Adds \cup Removes /\ "removeMetadata" \in Adds \cup Removes
      /\ "scan" \in PCs /\ "deleteMetadata" \in PCs
  BY DEF Removes, PCs
<1>4. /\ acked' \in [Pieces -> SUBSET Hashes] /\ acked'[p] = {}
      /\ \A q \in Pieces : acked'[q] \subseteq acked[q]
  BY <1>1, StreamsTyped
<1> QED
  BY <1>1, <1>2, <1>3, <1>4, BeginInv, StreamsTyped

-----------------------------------------------------------------------------
(* Steps of a call that change no table. *)

LEMMA CallMoved ==
  ASSUME IInv, NEW c \in Callers, NEW k \in Call, call' = [call EXCEPT ![c] = k], Shape(k),
         k = NoCall \/ (k.op = call[c].op /\ k.piece = call[c].piece),
         stream' \in [Callers -> Stream], \A x \in Callers \ {c} : stream'[x] = stream[x],
         UNCHANGED <<tables, calls, acked>>, faults' \in 0..MaxFaults,
         excuses' \in [Pieces -> SUBSET Excuses], ExcusesGrow,
         AddRight(call[c], stream[c])', (call[c].op \in Removes => RemoveRight(call[c]))',
         call[c].op = "addIndex" =>
           \/ "cut" \in excuses'[call[c].piece]
           \/ /\ call[c].pc \notin {"hashes", "records"}
              /\ \/ k.op = "addIndex" /\ k.recs = call[c].recs
                 \/ call[c].recs = {}
                 \/ Safe(call[c].piece) => metadata[call[c].piece] # None
  PROVE  IInv'
<1>1. /\ call' \in [Callers -> Call] /\ call'[c] = k
      /\ \A x \in Callers \ {c} : call'[x] = call[x]
  BY DEF IInv, TypeOK
<1>2. Only(c) /\ GoesOn(c)
  BY <1>1 DEF Only, GoesOn
<1>3. TypeOK'
  <2>1. \A x \in Callers : Cardinality(call'[x].hand) <= call'[x].threads
    BY <1>1 DEF IInv, TypeOK, Shape
  <2> QED
    BY <1>1, <2>1 DEF IInv, TypeOK, tables
<1>4. Exclusive'
  BY <1>2, ExclusiveKept
<1>5. \A p \in Pieces : Indexing(call[c], p) =>
         Indexing(call'[c], p) \/ "cut" \in excuses'[p] \/ (Safe(p) => metadata[p] # None)
  BY <1>1, NoCallRight DEF Indexing
<1>6. \A p \in Pieces : \A h \in Hashes : Awaited(call[c], h, p) =>
         Awaited(call'[c], h, p) \/ "cut" \in excuses'[p]
  BY DEF Awaited
<1> QED
  BY <1>1, <1>2, <1>3, <1>4, <1>5, <1>6, Moved

\* A call ends.
LEMMA Ended ==
  ASSUME IInv, NEW c \in Callers, Return(c), UNCHANGED <<tables, calls, acked>>,
         faults' \in 0..MaxFaults,
         excuses' = excuses,
         stream' = stream \/ stream' = [stream EXCEPT ![c] = NoStream],
         call[c].op = "addIndex" =>
           \/ "cut" \in excuses'[call[c].piece]
           \/ /\ call[c].pc \notin {"hashes", "records"}
              /\ \/ call[c].recs = {}
                 \/ Safe(call[c].piece) => metadata[call[c].piece] # None,
         stream[c].error => stream' # stream
  PROVE  IInv'
<1>1. call' = [call EXCEPT ![c] = NoCall] /\ call'[c] = NoCall
  BY DEF Return, IInv, TypeOK
<1>2. /\ stream' \in [Callers -> Stream] /\ \A x \in Callers \ {c} : stream'[x] = stream[x]
      /\ ~stream'[c].error
  BY NoCallRight, StreamsTyped
<1>3. excuses' \in [Pieces -> SUBSET Excuses] /\ ExcusesGrow
  BY DEF IInv, TypeOK, ExcusesGrow
<1>4. AddRight(call[c], stream[c])' /\ (call[c].op \in Removes => RemoveRight(call[c]))'
  BY <1>1, <1>2, NoCallRight DEF AddRight, Removes
<1> QED
  BY <1>1, <1>2, <1>3, <1>4, NoCallRight, CallMoved

\* A removal, or an AddDealForPiece, that ends.
LEMMA OtherEnded ==
  ASSUME IInv, NEW c \in Callers, Return(c), call[c].op # "addIndex",
         UNCHANGED <<tables, stream, calls, history>>, faults' \in 0..MaxFaults
  PROVE  IInv'
<1>1. ~stream[c].error
  BY Typed DEF AddRight, Shape, Call, Ops
<1> QED
  BY <1>1, Ended DEF history

\* A removal goes on.
LEMMA RemovalMoved ==
  ASSUME IInv, NEW c \in Callers, call[c].op \in Removes,
         NEW k \in Call, call' = [call EXCEPT ![c] = k], Shape(k),
         k.op = call[c].op, k.piece = call[c].piece,
         UNCHANGED <<tables, stream, calls, acked>>, faults' \in 0..MaxFaults,
         excuses' \in [Pieces -> SUBSET Excuses], ExcusesGrow,
         RemoveRight(call[c])'
  PROVE  IInv'
<1>1. ~stream[c].error
  BY Typed DEF AddRight, Shape, Removes
<1>2. call'[c] = k
  BY DEF IInv, TypeOK
<1>3. AddRight(call[c], stream[c])'
  BY <1>1, <1>2 DEF AddRight, Removes
<1> QED
  BY <1>3, CallMoved, StreamsTyped DEF Removes

LEMMA BoundKept ==
  ASSUME IInv
  PROVE  /\ UNCHANGED faults => faults' \in 0..MaxFaults
         /\ Fault => faults' \in 0..MaxFaults
         /\ UNCHANGED excuses => ExcusesGrow /\ excuses' \in [Pieces -> SUBSET Excuses]
         /\ \A p \in Pieces : \A e \in Excuses : Excuse(p, e) =>
              ExcusesGrow /\ excuses' \in [Pieces -> SUBSET Excuses] /\ e \in excuses'[p]
BY DEF IInv, TypeOK, Fault, Excuse, ExcusesGrow

LEMMA RemainingInv ==
  ASSUME IInv, NEW c \in Callers, Remaining(c)
  PROVE  IInv'
<1> DEFINE p == call[c].piece
           k == [call[c] EXCEPT !.pc = "known"]
<1>1. call[c] \in Call /\ Shape(call[c]) /\ call[c].pc = "remaining"
  BY Typed DEF Remaining
<1>2. call[c].op = "removeDeal" /\ p \in Pieces
  BY <1>1 DEF Shape, Call, Ops
<1>3. faults' \in 0..MaxFaults /\ ExcusesGrow /\ excuses' \in [Pieces -> SUBSET Excuses]
  BY BoundKept DEF Remaining, bounds, history
<1>4. CASE GetPieceDeals(p) # {}
  BY <1>2, <1>3, <1>4, OtherEnded DEF Remaining, bounds
<1>5. CASE GetPieceDeals(p) = {}
  <2>1. call' = [call EXCEPT ![c] = k]
    BY <1>1, <1>5 DEF Remaining, Goto
  <2>2. /\ k \in Call /\ k.op = "removeDeal" /\ k.piece = p /\ k.pc = "known"
        /\ k.hand = call[c].hand /\ k.seen = call[c].seen /\ k.threads = call[c].threads
    BY <1>1, <1>2 DEF Call, PCs
  <2> HIDE DEF k
  <2>3. Shape(k)
    BY <1>1, <1>2, <2>2 DEF Shape
  <2>4. call'[c] = k
    BY <2>1 DEF IInv, TypeOK
  <2>5. RemoveRight(call[c])'
    <3>1. RemoveRight(call[c]) /\ UNCHANGED <<tables, history>>
      BY <1>2, Typed DEF Removes, Remaining
    <3>2. k.hand = {}
      BY <1>1, <2>2 DEF Shape
    <3> QED
      BY <1>1, <1>2, <1>5, <2>2, <2>4, <3>1, <3>2
         DEF RemoveRight, tables, history, GetPieceDeals, Safe
  <2> QED
    BY <1>2, <1>3, <2>1, <2>2, <2>3, <2>5, RemovalMoved DEF Remaining, bounds, history, Removes
<1> QED
  BY <1>4, <1>5

LEMMA GotoFields ==
  ASSUME IInv, NEW c \in Callers, NEW pc \in PCs, Goto(c, pc)
  PROVE  \E k \in Call :
           /\ call' = [call EXCEPT ![c] = k] /\ call'[c] = k
           /\ k.pc = pc /\ k.op = call[c].op /\ k.piece = call[c].piece
           /\ k.deal = call[c].deal /\ k.recs = call[c].recs /\ k.todo = call[c].todo
           /\ k.hand = call[c].hand /\ k.seen = call[c].seen /\ k.threads = call[c].threads
           /\ k.failed = call[c].failed
<1> DEFINE k == [call[c] EXCEPT !.pc = pc]
<1>1. call[c] \in Call
  BY Typed
<1>2. /\ k \in Call /\ k.pc = pc /\ k.op = call[c].op /\ k.piece = call[c].piece
      /\ k.deal = call[c].deal /\ k.recs = call[c].recs /\ k.todo = call[c].todo
      /\ k.hand = call[c].hand /\ k.seen = call[c].seen /\ k.threads = call[c].threads
      /\ k.failed = call[c].failed
  BY <1>1 DEF Call
<1>3. call' = [call EXCEPT ![c] = k] /\ call'[c] = k
  BY DEF Goto, IInv, TypeOK
<1> HIDE DEF k
<1> QED
  BY <1>2, <1>3

\* The operations and the empty hands that go with the program counters.
LEMMA Removal ==
  ASSUME IInv, NEW c \in Callers
  PROVE  /\ call[c].pc \in {"deleteDeal", "remaining", "known"} => call[c].op = "removeDeal"
         /\ call[c].pc \in {"scan", "scanKnown", "scanStuck", "drain"} =>
              call[c].op \in {"removeDeal", "removeIndexes"}
         /\ call[c].pc = "deleteMetadata" => call[c].op \in {"removeDeal", "removeMetadata"}
         /\ call[c].op \in Removes => call[c].piece \in Pieces /\ RemoveRight(call[c])
         /\ call[c].pc # "drain" => /\ call[c].hand = {} /\ call[c].seen = {}
                                     /\ IsFiniteSet(call[c].hand)
                                     /\ Cardinality(call[c].hand) <= call[c].threads
<1>1. call[c] \in Call /\ Shape(call[c])
  BY Typed
<1>2. call[c].op \in Removes => call[c].piece \in Pieces /\ RemoveRight(call[c])
  BY Typed DEF Removes
<1> QED
  BY <1>1, <1>2 DEF Shape, Call, Ops, PCs

LEMMA KnownInv ==
  ASSUME IInv, NEW c \in Callers, Known(c)
  PROVE  IInv'
<1>1. call[c].pc = "known" /\ call[c].op = "removeDeal" /\ call[c].piece \in Pieces
  BY Removal DEF Known, Removes
<1>2. faults' \in 0..MaxFaults /\ ExcusesGrow /\ excuses' \in [Pieces -> SUBSET Excuses]
      /\ UNCHANGED <<tables, stream, calls, history>>
  BY BoundKept DEF Known, bounds, history
<1>3. CASE Return(c)
  BY <1>1, <1>2, <1>3, OtherEnded
<1>4. CASE Goto(c, "scan")
  <2>1. PICK k \in Call :
          /\ call' = [call EXCEPT ![c] = k] /\ call'[c] = k
          /\ k.pc = "scan" /\ k.op = call[c].op /\ k.piece = call[c].piece
          /\ k.hand = call[c].hand /\ k.seen = call[c].seen /\ k.threads = call[c].threads
    BY <1>4, GotoFields DEF PCs
  <2>2. Shape(k)
    BY <1>1, <2>1, Removal DEF Shape
  <2>3. RemoveRight(call[c])'
    <3>1. RemoveRight(call[c]) /\ call[c].hand = {}
      BY <1>1, Removal DEF Removes
    <3> QED
      BY <1>1, <1>2, <2>1, <3>1 DEF RemoveRight, tables, history, GetPieceDeals, Safe
  <2> QED
    BY <1>1, <1>2, <2>1, <2>2, <2>3, RemovalMoved DEF history, Removes
<1> QED
  BY <1>1, <1>3, <1>4 DEF Known

LEMMA ScanInv ==
  ASSUME IInv, NEW c \in Callers, Scan(c)
  PROVE  IInv'
<1>1. call[c].pc = "scan" /\ call[c].op \in {"removeDeal", "removeIndexes"}
      /\ call[c].piece \in Pieces
  BY Removal DEF Scan, Removes
<1>2. faults' \in 0..MaxFaults /\ ExcusesGrow /\ excuses' \in [Pieces -> SUBSET Excuses]
      /\ UNCHANGED <<tables, stream, calls, history>>
  BY BoundKept DEF Scan, bounds, history
<1>3. RemoveRight(call[c]) /\ call[c].hand = {} /\ call[c].seen = {} /\ IsFiniteSet(call[c].hand)
      /\ Cardinality(call[c].hand) <= call[c].threads
  BY <1>1, Removal DEF Removes
<1>4. CASE records[call[c].piece] = {}
  <2>1. PICK k \in Call :
          /\ call' = [call EXCEPT ![c] = k] /\ call'[c] = k
          /\ k.pc = "scanKnown" /\ k.op = call[c].op /\ k.piece = call[c].piece
          /\ k.hand = call[c].hand /\ k.seen = call[c].seen /\ k.threads = call[c].threads
    BY <1>4, GotoFields DEF Scan, GetIndex, PCs
  <2>2. Shape(k)
    BY <1>1, <1>3, <2>1 DEF Shape
  <2>3. RemoveRight(call[c])'
    BY <1>1, <1>2, <1>3, <1>4, <2>1 DEF RemoveRight, tables, history, GetPieceDeals, Safe
  <2> QED
    BY <1>1, <1>2, <2>1, <2>2, <2>3, RemovalMoved DEF history, Removes
<1>5. CASE records[call[c].piece] # {}
  <2> DEFINE R == records[call[c].piece]
             k == [call[c] EXCEPT !.pc = "drain", !.todo = R, !.scanning = TRUE,
                                  !.threads = Threads]
  <2>1. call' = [call EXCEPT ![c] = k]
    BY <1>5 DEF Scan, GetIndex
  <2>2. R \subseteq Hashes
    BY <1>1 DEF IInv, TypeOK
  <2>3. call[c] \in Call
    BY Typed
  <2>4. k \in Call /\ k.pc = "drain" /\ k.op = call[c].op /\ k.piece = call[c].piece
        /\ k.hand = {} /\ k.threads = Threads /\ k.todo = R /\ k.scanning = TRUE
        /\ k.seen = call[c].seen
    BY <1>3, <2>2, <2>3, Threads \in 0..Threads DEF Call, PCs
  <2> HIDE DEF k
  <2>5. IsFiniteSet({}) /\ Cardinality({}) = 0
    BY FS_EmptySet
  <2>6. Shape(k)
    BY <1>1, <2>4, <2>5 DEF Shape
  <2>7. call'[c] = k
    BY <2>1 DEF IInv, TypeOK
  <2>9. RemoveRight(call[c])'
    BY <1>1, <1>2, <1>3, <2>4, <2>7
       DEF RemoveRight, tables, history, GetPieceDeals, Safe
  <2> QED
    BY <1>1, <1>2, <2>1, <2>4, <2>6, <2>9, RemovalMoved DEF history, Removes
<1> QED
  BY <1>4, <1>5

\* The removal of an index is through.
LEMMA AfterRemovalInv ==
  ASSUME IInv, NEW c \in Callers, AfterRemoval(c),
         call[c].op \in {"removeDeal", "removeIndexes"}, call[c].pc \in {"scanKnown", "drain"},
         UNCHANGED <<tables, stream, bounds, history>>,
         Safe(call[c].piece) =>
           records[call[c].piece] = {} \/ "scan" \in excuses[call[c].piece]
  PROVE  IInv'
<1>1. faults' \in 0..MaxFaults /\ ExcusesGrow /\ excuses' \in [Pieces -> SUBSET Excuses]
      /\ UNCHANGED <<calls, acked>>
  BY BoundKept DEF bounds, history
<1>2. CASE call[c].op = "removeIndexes"
  BY <1>1, <1>2, OtherEnded DEF AfterRemoval
<1>3. CASE call[c].op = "removeDeal"
  <2> DEFINE k == [NoCall EXCEPT !.op = "removeDeal", !.piece = call[c].piece,
                                 !.pc = "deleteMetadata"]
  <2>1. call' = [call EXCEPT ![c] = k]
    BY <1>3 DEF AfterRemoval
  <2>2. NoCall \in Call /\ NoCall.hand = {} /\ NoCall.seen = {} /\ NoCall.threads = 0
    BY NoCallRight DEF NoCall
  <2>3. call[c].piece \in Pieces /\ RemoveRight(call[c])
    BY <1>3, Removal DEF Removes
  <2>4. k \in Call /\ k.pc = "deleteMetadata" /\ k.op = "removeDeal" /\ k.piece = call[c].piece
        /\ k.hand = {} /\ k.seen = {} /\ k.threads = 0
    BY <2>2, <2>3 DEF Call, PCs, Ops
  <2> HIDE DEF k
  <2>5. Shape(k)
    BY <2>3, <2>4, FS_EmptySet DEF Shape
  <2>6. call'[c] = k
    BY <2>1 DEF IInv, TypeOK
  <2>7. Safe(call[c].piece) =>
          acked[call[c].piece] = {} /\ GetPieceDeals(call[c].piece) = {}
    BY <1>3, <2>3 DEF RemoveRight
  <2>8. RemoveRight(call[c])'
    BY <2>4, <2>6, <2>7 DEF RemoveRight, tables, history, GetPieceDeals, Safe
  <2> QED
    BY <1>1, <1>3, <2>1, <2>4, <2>5, <2>8, RemovalMoved DEF Removes
<1> QED
  BY <1>2, <1>3

LEMMA ScanKnownInv ==
  ASSUME IInv, NEW c \in Callers, ScanKnown(c)
  PROVE  IInv'
<1>1. call[c].pc = "scanKnown" /\ call[c].op \in {"removeDeal", "removeIndexes"}
      /\ RemoveRight(call[c])
  BY Removal DEF ScanKnown, Removes
<1>2. Safe(call[c].piece) => records[call[c].piece] = {}
  BY <1>1 DEF RemoveRight
<1>3. CASE Return(c)
  BY <1>1, <1>3, OtherEnded, BoundKept DEF ScanKnown, bounds
<1>4. CASE AfterRemoval(c)
  BY <1>1, <1>2, <1>4, AfterRemovalInv DEF ScanKnown
<1> QED
  BY <1>3, <1>4 DEF ScanKnown

LEMMA ScanStuckInv ==
  ASSUME IInv, NEW c \in Callers, ScanStuck(c)
  PROVE  IInv'
<1>1. call[c].pc = "scan" /\ call[c].op \in {"removeDeal", "removeIndexes"}
      /\ call[c].piece \in Pieces /\ RemoveRight(call[c])
      /\ call[c].hand = {} /\ call[c].seen = {} /\ IsFiniteSet(call[c].hand)
      /\ Cardinality(call[c].hand) <= call[c].threads
  BY Removal DEF ScanStuck, Removes
<1>2. faults' \in 0..MaxFaults /\ ExcusesGrow /\ excuses' \in [Pieces -> SUBSET Excuses]
      /\ UNCHANGED <<tables, stream, calls, history>>
  BY BoundKept DEF ScanStuck, history
<1>3. PICK k \in Call :
        /\ call' = [call EXCEPT ![c] = k] /\ call'[c] = k
        /\ k.pc = "scanStuck" /\ k.op = call[c].op /\ k.piece = call[c].piece
        /\ k.hand = call[c].hand /\ k.seen = call[c].seen /\ k.threads = call[c].threads
  BY GotoFields DEF ScanStuck, PCs
<1>4. Shape(k)
  BY <1>1, <1>3 DEF Shape
<1>5. RemoveRight(call[c])'
  BY <1>1, <1>2, <1>3 DEF RemoveRight, tables, history, GetPieceDeals, Safe
<1> QED
  BY <1>1, <1>2, <1>3, <1>4, <1>5, RemovalMoved DEF history, Removes

LEMMA ContextEndsInv ==
  ASSUME IInv, NEW c \in Callers, ContextEnds(c)
  PROVE  IInv'
<1>1. call[c].op # "addIndex"
  BY Removal DEF ContextEnds
<1> QED
  BY <1>1, OtherEnded, BoundKept DEF ContextEnds, bounds

LEMMA CallFailsInv ==
  ASSUME IInv, NEW c \in Callers, CallFails(c)
  PROVE  IInv'
BY OtherEnded, BoundKept DEF CallFails

\* A removal stays in the drain.
LEMMA DrainMoved ==
  ASSUME IInv, NEW c \in Callers, call[c].pc = "drain",
         NEW k \in Call, call' = [call EXCEPT ![c] = k],
         k.pc = "drain", k.op = call[c].op, k.piece = call[c].piece, k.todo = call[c].todo,
         IsFiniteSet(k.hand), Cardinality(k.hand) <= k.threads,
         ~k.failed => k.threads = Threads,
         UNCHANGED <<tables, stream, calls, acked>>, faults' \in 0..MaxFaults,
         excuses' \in [Pieces -> SUBSET Excuses], ExcusesGrow,
         k.hand \subseteq call[c].hand,
         ~k.failed => ~call[c].failed /\ k.hand = call[c].hand /\ k.seen = call[c].seen,
         ~k.scanning => \/ "scan" \in excuses'[call[c].piece]
                        \/ records[call[c].piece] \cap k.todo \subseteq k.seen
  PROVE  IInv'
<1>1. call[c].op \in {"removeDeal", "removeIndexes"} /\ call[c].op \in Removes
      /\ call[c].piece \in Pieces /\ RemoveRight(call[c])
  BY Removal DEF Removes
<1>2. Shape(k)
  BY <1>1 DEF Shape
<1>3. call'[c] = k
  BY DEF IInv, TypeOK
<1>4. excuses[call[c].piece] \subseteq excuses'[call[c].piece]
  BY <1>1 DEF ExcusesGrow
<1>5. RemoveRight(call[c])'
  BY <1>1, <1>3, <1>4 DEF RemoveRight, tables, GetPieceDeals, Safe
<1> QED
  BY <1>1, <1>2, <1>5, RemovalMoved

\* What a call in the drain is.
LEMMA Draining ==
  ASSUME IInv, NEW c \in Callers, call[c].pc = "drain"
  PROVE  /\ call[c] \in Call /\ call[c].piece \in Pieces
         /\ call[c].op \in {"removeDeal", "removeIndexes"} /\ RemoveRight(call[c])
         /\ IsFiniteSet(call[c].hand) /\ Cardinality(call[c].hand) \in Nat
         /\ Cardinality(call[c].hand) <= call[c].threads
         /\ ~call[c].failed => call[c].threads = Threads
         /\ Safe(call[c].piece) => records[call[c].piece] \subseteq call[c].todo
         /\ Safe(call[c].piece) /\ ~call[c].scanning =>
              records[call[c].piece] \subseteq call[c].seen \/ "scan" \in excuses[call[c].piece]
<1>1. /\ call[c] \in Call /\ call[c].piece \in Pieces
      /\ call[c].op \in {"removeDeal", "removeIndexes"} /\ RemoveRight(call[c])
  BY Typed, Removal DEF Removes
<1>2. /\ IsFiniteSet(call[c].hand) /\ Cardinality(call[c].hand) <= call[c].threads
      /\ ~call[c].failed => call[c].threads = Threads
  BY Typed DEF Shape
<1>3. Cardinality(call[c].hand) \in Nat
  BY <1>2, FS_CardinalityType
<1>4. Safe(call[c].piece) => records[call[c].piece] \subseteq call[c].todo
  BY <1>1 DEF RemoveRight
<1>5. Safe(call[c].piece) /\ ~call[c].scanning =>
        records[call[c].piece] \subseteq call[c].seen \/ "scan" \in excuses[call[c].piece]
  BY <1>1 DEF RemoveRight
<1> QED
  BY <1>1, <1>2, <1>3, <1>4, <1>5

LEMMA ThreadFailsInv ==
  ASSUME IInv, NEW c \in Callers, NEW h \in Hashes, ThreadFails(c, h)
  PROVE  IInv'
<1> DEFINE hand == call[c].hand \ {h}
           k == [call[c] EXCEPT !.seen = @ \cup {h}, !.hand = @ \ {h},
                                !.threads = @ - 1, !.failed = TRUE]
<1>1. call[c].pc = "drain" /\ call' = [call EXCEPT ![c] = k]
      /\ UNCHANGED <<tables, stream, calls, acked, excuses>>
  BY DEF ThreadFails, history
<1>2. /\ call[c] \in Call /\ IsFiniteSet(call[c].hand) /\ Cardinality(call[c].hand) \in Nat
      /\ Cardinality(call[c].hand) <= call[c].threads
      /\ Safe(call[c].piece) /\ ~call[c].scanning =>
           records[call[c].piece] \subseteq call[c].seen \/ "scan" \in excuses[call[c].piece]
      /\ call[c].piece \in Pieces
  BY <1>1, Draining
<1>3. /\ IsFiniteSet(hand) /\ Cardinality(hand) \in Nat
      /\ Cardinality(hand) = IF h \in call[c].hand THEN Cardinality(call[c].hand) - 1
                             ELSE Cardinality(call[c].hand)
  <2>1. IsFiniteSet(hand)
    BY <1>2, FS_RemoveElement
  <2> QED
    BY <1>2, <2>1, FS_RemoveElement, FS_CardinalityType
<1>4. call[c].threads \in 0..Threads /\ Threads \in Nat
  BY <1>2 DEF Call
<1>5. call[c].threads - 1 \in 0..Threads /\ Cardinality(hand) <= call[c].threads - 1
  <2>1. h \in call[c].hand \/ Cardinality(call[c].hand) < call[c].threads
    BY DEF ThreadFails
  <2> HIDE DEF hand
  <2> QED
    BY <1>2, <1>3, <1>4, <2>1
<1>6. /\ k \in Call /\ k.pc = "drain" /\ k.op = call[c].op /\ k.piece = call[c].piece
      /\ k.todo = call[c].todo /\ k.hand = hand /\ k.threads = call[c].threads - 1
      /\ k.failed = TRUE /\ k.scanning = call[c].scanning /\ k.seen = call[c].seen \cup {h}
  BY <1>1, <1>2, <1>5 DEF Call
<1>7. faults' \in 0..MaxFaults /\ ExcusesGrow /\ excuses' \in [Pieces -> SUBSET Excuses]
  BY <1>1, BoundKept DEF ThreadFails
<1> HIDE DEF k
<1>8. RemoveRight(call[c])
  BY <1>1, Draining
<1>9. RemoveRight(call[c])'
  <2>1. call'[c] = k
    BY <1>1 DEF IInv, TypeOK
  <2>2. k.op # "removeMetadata" /\ k.op = call[c].op
    BY <1>1, <1>6, Draining
  <2> QED
    BY <1>1, <1>6, <1>8, <2>1, <2>2 DEF RemoveRight, tables, GetPieceDeals, Safe
<1>10. Shape(k)
  <2>1. call[c].op \in {"removeDeal", "removeIndexes"}
    BY <1>1, Draining
  <2> QED
    BY <1>2, <1>3, <1>5, <1>6, <2>1 DEF Shape
<1> QED
  BY <1>1, <1>2, <1>6, <1>7, <1>9, <1>10, Draining, RemovalMoved DEF Removes

LEMMA ScanFailsInv ==
  ASSUME IInv, NEW c \in Callers, ScanFails(c)
  PROVE  IInv'
<1>1. /\ call[c].pc = "drain" /\ Cardinality(call[c].hand) < call[c].threads
      /\ Excuse(call[c].piece, "scan") /\ UNCHANGED <<tables, stream, calls, acked>>
  BY DEF ScanFails
<1>2. /\ call[c] \in Call /\ call[c].piece \in Pieces
      /\ IsFiniteSet(call[c].hand) /\ Cardinality(call[c].hand) \in Nat
      /\ ~call[c].failed => call[c].threads = Threads
  BY <1>1, Draining
<1>3. /\ faults' \in 0..MaxFaults /\ ExcusesGrow /\ excuses' \in [Pieces -> SUBSET Excuses]
      /\ "scan" \in excuses'[call[c].piece]
  BY <1>1, <1>2, BoundKept DEF ScanFails, Excuses
<1>4. CASE call' = [call EXCEPT ![c].scanning = FALSE]
  <2> DEFINE k == [call[c] EXCEPT !.scanning = FALSE]
  <2>1. call' = [call EXCEPT ![c] = k]
    BY <1>4
  <2>2. /\ k \in Call /\ k.pc = "drain" /\ k.op = call[c].op /\ k.piece = call[c].piece
        /\ k.todo = call[c].todo /\ k.hand = call[c].hand /\ k.threads = call[c].threads
        /\ k.failed = call[c].failed /\ k.scanning = FALSE /\ k.seen = call[c].seen
    BY <1>1, <1>2 DEF Call
  <2> HIDE DEF k
  <2>3. Cardinality(k.hand) <= k.threads
    BY <1>1, <1>2, <2>2 DEF Call
  <2> QED
    BY <1>1, <1>2, <1>3, <2>1, <2>2, <2>3, DrainMoved
<1>5. CASE call' = [call EXCEPT ![c].scanning = FALSE, ![c].threads = @ - 1,
                                ![c].failed = TRUE]
  <2> DEFINE k == [call[c] EXCEPT !.scanning = FALSE, !.threads = @ - 1, !.failed = TRUE]
  <2>1. call' = [call EXCEPT ![c] = k]
    BY <1>5
  <2>2. call[c].threads \in 0..Threads /\ Threads \in Nat
    BY <1>2 DEF Call
  <2>3. call[c].threads - 1 \in 0..Threads /\ Cardinality(call[c].hand) <= call[c].threads - 1
    BY <1>1, <1>2, <2>2
  <2>4. /\ k \in Call /\ k.pc = "drain" /\ k.op = call[c].op /\ k.piece = call[c].piece
        /\ k.todo = call[c].todo /\ k.hand = call[c].hand /\ k.threads = call[c].threads - 1
        /\ k.failed = TRUE /\ k.scanning = FALSE
    BY <1>1, <1>2, <2>3 DEF Call
  <2> HIDE DEF k
  <2> QED
    BY <1>1, <1>2, <1>3, <2>1, <2>3, <2>4, DrainMoved
<1> QED
  BY <1>4, <1>5 DEF ScanFails

LEMMA ScanEndsInv ==
  ASSUME IInv, NEW c \in Callers, ScanEnds(c)
  PROVE  IInv'
<1> DEFINE k == [call[c] EXCEPT !.scanning = FALSE]
<1>1. /\ call[c].pc = "drain" /\ UNCHANGED <<tables, stream, calls, acked, faults, excuses>>
      /\ call' = [call EXCEPT ![c] = k]
      /\ call[c].todo \cap records[call[c].piece] \subseteq call[c].seen
  BY DEF ScanEnds, bounds, history
<1>2. /\ call[c] \in Call /\ IsFiniteSet(call[c].hand)
      /\ Cardinality(call[c].hand) <= call[c].threads
      /\ ~call[c].failed => call[c].threads = Threads
  BY <1>1, Draining
<1>3. faults' \in 0..MaxFaults /\ ExcusesGrow /\ excuses' \in [Pieces -> SUBSET Excuses]
  BY <1>1, BoundKept
<1>4. /\ k \in Call /\ k.pc = "drain" /\ k.op = call[c].op /\ k.piece = call[c].piece
      /\ k.todo = call[c].todo /\ k.hand = call[c].hand /\ k.threads = call[c].threads
      /\ k.failed = call[c].failed /\ k.seen = call[c].seen
  BY <1>1, <1>2 DEF Call
<1> HIDE DEF k
<1> QED
  BY <1>1, <1>2, <1>3, <1>4, DrainMoved

LEMMA DrainedInv ==
  ASSUME IInv, NEW c \in Callers, Drained(c)
  PROVE  IInv'
<1>1. /\ call[c].pc = "drain" /\ call[c].hand = {}
      /\ ~call[c].scanning \/ call[c].threads = 0
      /\ UNCHANGED <<tables, stream, bounds, history>>
  BY DEF Drained
<1>2. /\ call[c].op \in {"removeDeal", "removeIndexes"} /\ RemoveRight(call[c])
      /\ call[c] \in Call /\ (~call[c].failed => call[c].threads = Threads)
  BY <1>1, Draining
<1>3. CASE call[c].failed
  BY <1>1, <1>2, <1>3, OtherEnded, BoundKept DEF Drained, bounds
<1>4. CASE ~call[c].failed
  <2>1. ~call[c].scanning
    BY <1>1, <1>2, <1>4
  <2>2. Safe(call[c].piece) =>
          records[call[c].piece] = {} \/ "scan" \in excuses[call[c].piece]
    <3> SUFFICES ASSUME Safe(call[c].piece), "scan" \notin excuses[call[c].piece]
                 PROVE  records[call[c].piece] = {}
      OBVIOUS
    <3>1. records[call[c].piece] \subseteq call[c].seen
      BY <1>1, <2>1, Draining
    <3>2. records[call[c].piece] \cap call[c].seen \subseteq {}
      BY <1>1, <1>2, <1>4 DEF RemoveRight
    <3> QED
      BY <3>1, <3>2
  <2> QED
    BY <1>1, <1>2, <1>4, <2>2, AfterRemovalInv DEF Drained
<1> QED
  BY <1>3, <1>4

-----------------------------------------------------------------------------
(* The end of AddIndex. *)

\* What an AddIndex that runs is.
LEMMA Adding ==
  ASSUME IInv, NEW c \in Callers,
         call[c].pc \in {"hashes", "records", "setIndexedAt", "complete", "closed"}
           \/ (call[c].pc = "createMetadata" /\ call[c].op = "addIndex")
  PROVE  /\ call[c] \in Call /\ call[c].op = "addIndex" /\ call[c].piece \in Pieces
         /\ call[c].recs \subseteq Hashes /\ call[c].todo \subseteq call[c].recs
         /\ stream[c] \in Stream /\ AddRight(call[c], stream[c]) /\ Shape(call[c])
<1>1. call[c] \in Call /\ Shape(call[c]) /\ AddRight(call[c], stream[c]) /\ stream[c] \in Stream
  BY Typed
<1>2. call[c].op = "addIndex" /\ call[c].piece \in Pieces
  BY <1>1 DEF Shape, Call, Ops, PCs
<1> QED
  BY <1>1, <1>2 DEF Call, AddRight

LEMMA AddIndexFailsInv ==
  ASSUME IInv, NEW c \in Callers, AddIndexFails(c)
  PROVE  IInv'
<1> DEFINE k == [call[c] EXCEPT !.pc = "complete", !.failed = TRUE]
<1>1. /\ call[c].pc \in {"hashes", "records", "createMetadata", "setIndexedAt"}
      /\ call[c].op = "addIndex"
      /\ call' = [call EXCEPT ![c] = k] /\ Excuse(call[c].piece, "cut")
      /\ UNCHANGED <<tables, stream, calls, acked>>
  BY DEF AddIndexFails
<1>2. /\ call[c] \in Call /\ call[c].piece \in Pieces /\ AddRight(call[c], stream[c])
      /\ Shape(call[c])
  BY <1>1, Adding
<1>3. /\ k \in Call /\ k.pc = "complete" /\ k.op = "addIndex" /\ k.piece = call[c].piece
      /\ k.todo = call[c].todo /\ k.hand = call[c].hand /\ k.threads = call[c].threads
      /\ k.failed = TRUE /\ k.seen = call[c].seen /\ k.recs = call[c].recs
  BY <1>1, <1>2 DEF Call, PCs
<1> HIDE DEF k
<1>4. faults' \in 0..MaxFaults /\ ExcusesGrow /\ excuses' \in [Pieces -> SUBSET Excuses]
      /\ "cut" \in excuses'[call[c].piece]
  BY <1>1, <1>2, BoundKept DEF AddIndexFails, Excuses
<1>5. call'[c] = k
  BY <1>1 DEF IInv, TypeOK
<1>6. Shape(k)
  BY <1>1, <1>2, <1>3 DEF Shape
<1>7. AddRight(call[c], stream[c])' /\ (call[c].op \in Removes => RemoveRight(call[c]))'
  BY <1>1, <1>2, <1>3, <1>4, <1>5 DEF AddRight, Removes
<1> QED
  BY <1>1, <1>3, <1>4, <1>6, <1>7, StreamsTyped, CallMoved

\* The channel is closed.
LEMMA Closed ==
  ASSUME IInv, NEW c \in Callers, call[c].pc = "complete", Goto(c, "closed"),
         stream' \in [Callers -> Stream], \A x \in Callers \ {c} : stream'[x] = stream[x],
         UNCHANGED <<tables, bounds, acked>>,
         excuses' \in [Pieces -> SUBSET Excuses], ExcusesGrow,
         stream'[c].error => call[c].failed,
         call[c].failed => "dropped" \in excuses'[call[c].piece]
                             \/ (stream'[c].error /\ stream'[c].buffered > 0)
  PROVE  IInv'
<1>1. /\ call[c] \in Call /\ call[c].op = "addIndex" /\ call[c].piece \in Pieces
      /\ AddRight(call[c], stream[c]) /\ Shape(call[c])
  BY Adding
<1>2. PICK k \in Call :
        /\ call' = [call EXCEPT ![c] = k] /\ call'[c] = k
        /\ k.pc = "closed" /\ k.op = call[c].op /\ k.piece = call[c].piece
        /\ k.recs = call[c].recs /\ k.todo = call[c].todo
        /\ k.hand = call[c].hand /\ k.seen = call[c].seen /\ k.threads = call[c].threads
        /\ k.failed = call[c].failed
  BY GotoFields DEF PCs
<1>3. faults' \in 0..MaxFaults /\ UNCHANGED calls
  BY BoundKept DEF bounds
<1>4. Shape(k)
  BY <1>1, <1>2 DEF Shape
<1>5. excuses[call[c].piece] \subseteq excuses'[call[c].piece]
  BY <1>1 DEF ExcusesGrow
<1>6. AddRight(call[c], stream[c])' /\ (call[c].op \in Removes => RemoveRight(call[c]))'
  BY <1>1, <1>2, <1>5 DEF AddRight, Removes, tables, Safe
<1> QED
  BY <1>1, <1>2, <1>3, <1>4, <1>6, CallMoved

LEMMA CompleteInv ==
  ASSUME IInv, NEW c \in Callers, CompleteProgress(c) \/ CompleteTimesOut(c)
  PROVE  IInv'
<1>1. call[c].pc = "complete" /\ Goto(c, "closed") /\ UNCHANGED <<tables, bounds, acked>>
  BY DEF CompleteProgress, CompleteTimesOut, history
<1>2. /\ call[c] \in Call /\ call[c].piece \in Pieces /\ stream[c] \in Stream
      /\ AddRight(call[c], stream[c])
  BY <1>1, Adding
<1>3. CASE CompleteProgress(c)
  <2> DEFINE last == call[c].failed \/ stream[c].pending
             n == IF last THEN stream[c].buffered + 1 ELSE stream[c].buffered
             s == [buffered |-> n, pending |-> FALSE, error |-> call[c].failed]
  <2>1. stream' = [stream EXCEPT ![c] = s] /\ UNCHANGED excuses
        /\ (last => stream[c].buffered < 2)
    BY <1>3 DEF CompleteProgress, history
  <2>2. n \in 0..2 /\ (call[c].failed => n > 0)
    BY <1>2, <2>1 DEF Stream
  <2>3. s \in Stream /\ s.error = call[c].failed /\ s.buffered = n
    BY <1>2, <2>2 DEF Stream, Call
  <2> HIDE DEF n, s
  <2>4. /\ stream' \in [Callers -> Stream] /\ stream'[c] = s
        /\ \A x \in Callers \ {c} : stream'[x] = stream[x]
    BY <2>1, <2>3, StreamsTyped
  <2> QED
    BY <1>1, <2>1, <2>2, <2>3, <2>4, BoundKept, Closed
<1>4. CASE CompleteTimesOut(c)
  <2>1. UNCHANGED stream
        /\ IF call[c].failed THEN Excuse(call[c].piece, "dropped") ELSE UNCHANGED excuses
    BY <1>4 DEF CompleteTimesOut
  <2>2. ~stream[c].error
    BY <1>1, <1>2 DEF AddRight
  <2>3. /\ excuses' \in [Pieces -> SUBSET Excuses] /\ ExcusesGrow
        /\ call[c].failed => "dropped" \in excuses'[call[c].piece]
    BY <1>2, <2>1, BoundKept DEF Excuses
  <2> QED
    BY <1>1, <2>1, <2>2, <2>3, StreamsTyped, Closed
<1> QED
  BY <1>3, <1>4

LEMMA ClientReceiveInv ==
  ASSUME IInv, NEW c \in Callers, ClientReceive(c)
  PROVE  IInv'
<1>1. stream[c] \in Stream /\ AddRight(call[c], stream[c]) /\ stream[c].buffered > 0
      /\ UNCHANGED <<tables, calls, faults, acked, excuses>>
  BY Typed DEF ClientReceive, bounds, history
<1>2. CASE stream[c].error /\ stream[c].buffered = 1
  <2>1. Return(c) /\ stream' = [stream EXCEPT ![c] = NoStream] /\ stream'[c] = NoStream
    BY <1>2, StreamsTyped DEF ClientReceive
  <2>2. call[c].pc = "closed" /\ call[c].failed
    BY <1>1, <1>2 DEF AddRight
  <2>3. "cut" \in excuses[call[c].piece]
    BY <1>1, <2>2, Adding DEF AddRight
  <2>4. stream' # stream
    BY <1>2, <2>1, NoCallRight
  <2> QED
    BY <1>1, <2>1, <2>3, <2>4, BoundKept, Ended
<1>3. CASE ~(stream[c].error /\ stream[c].buffered = 1)
  <2> DEFINE s == [stream[c] EXCEPT !.buffered = @ - 1]
  <2>1. UNCHANGED call /\ stream' = [stream EXCEPT ![c] = s]
    BY <1>3 DEF ClientReceive
  <2>2. /\ s \in Stream /\ s.error = stream[c].error /\ s.buffered = stream[c].buffered - 1
        /\ s.error => s.buffered > 0
    BY <1>1, <1>3 DEF Stream
  <2> HIDE DEF s
  <2>3. /\ stream' \in [Callers -> Stream] /\ stream'[c] = s
        /\ \A x \in Callers \ {c} : stream'[x] = stream[x]
    BY <2>1, <2>2, StreamsTyped
  <2>4. /\ call[c] \in Call /\ Shape(call[c]) /\ call' = [call EXCEPT ![c] = call[c]]
        /\ call'[c] = call[c]
        /\ call[c].op \in Removes => RemoveRight(call[c])
    BY <2>1, Typed DEF IInv, TypeOK
  <2>5. AddRight(call[c], stream[c])'
    BY <1>1, <2>1, <2>2, <2>3 DEF AddRight, tables, Safe
  <2>6. (call[c].op \in Removes => RemoveRight(call[c]))'
    BY <1>1, <2>1, <2>4 DEF RemoveRight, tables, Safe, GetPieceDeals
  <2>7. TypeOK' /\ ExcusesGrow
    BY <1>1, <2>1, <2>3 DEF IInv, TypeOK, tables, ExcusesGrow
  <2>8. Only(c) /\ GoesOn(c)
    BY <2>1, <2>3 DEF Only, GoesOn
  <2> QED
    BY <1>1, <2>1, <2>4, <2>5, <2>6, <2>7, <2>8, ExclusiveKept, Moved
<1> QED
  BY <1>2, <1>3


-----------------------------------------------------------------------------
(* Additions that write. *)

LEMMA StreamUpdated ==
  ASSUME IInv, NEW c \in Callers,
         \/ updateProgress(c, FALSE) \/ updateProgress(c, TRUE) \/ UNCHANGED stream
  PROVE  /\ stream' \in [Callers -> Stream] /\ stream'[c].error = stream[c].error
         /\ \A x \in Callers \ {c} : stream'[x] = stream[x]
<1>1. stream \in [Callers -> Stream] /\ stream[c] \in Stream
  BY StreamsTyped
<1>2. CASE UNCHANGED stream
  BY <1>1, <1>2
<1>3. CASE stream[c].buffered < 2 /\ stream' = [stream EXCEPT ![c].buffered = @ + 1]
  <2> DEFINE s == [stream[c] EXCEPT !.buffered = @ + 1]
  <2>1. s \in Stream /\ s.error = stream[c].error
    BY <1>1, <1>3 DEF Stream
  <2>2. stream' = [stream EXCEPT ![c] = s]
    BY <1>3
  <2> HIDE DEF s
  <2> QED
    BY <1>1, <2>1, <2>2
<1>4. ASSUME NEW last \in BOOLEAN, stream' = [stream EXCEPT ![c].pending = last]
      PROVE  /\ stream' \in [Callers -> Stream] /\ stream'[c].error = stream[c].error
             /\ \A x \in Callers \ {c} : stream'[x] = stream[x]
  <2> DEFINE s == [stream[c] EXCEPT !.pending = last]
  <2>1. s \in Stream /\ s.error = stream[c].error
    BY <1>1 DEF Stream
  <2>2. stream' = [stream EXCEPT ![c] = s]
    BY <1>4
  <2> HIDE DEF s
  <2> QED
    BY <1>1, <2>1, <2>2
<1> QED
  BY <1>2, <1>3, <1>4 DEF updateProgress

\* The variables of the calls after a step of c, which writes to the tables.
LEMMA WriterTyped ==
  ASSUME IInv, NEW c \in Callers, NEW k \in Call, call' = [call EXCEPT ![c] = k], Shape(k),
         k = NoCall \/ (k.op = call[c].op /\ k.piece = call[c].piece),
         stream' \in [Callers -> Stream], \A x \in Callers \ {c} : stream'[x] = stream[x],
         UNCHANGED bounds,
         metadata' \in [Pieces -> Row \cup {None}], dealRows' \subseteq Deals,
         hashRows' \subseteq Hashes \X Pieces, records' \in [Pieces -> SUBSET Hashes],
         acked' \in [Pieces -> SUBSET Hashes], excuses' \in [Pieces -> SUBSET Excuses]
  PROVE  /\ TypeOK' /\ Only(c) /\ GoesOn(c) /\ call'[c] = k
         /\ \A x \in Callers \ {c} : call'[x] = call[x]
<1>1. /\ call' \in [Callers -> Call] /\ call'[c] = k
      /\ \A x \in Callers \ {c} : call'[x] = call[x]
  BY DEF IInv, TypeOK
<1>2. \A x \in Callers : Cardinality(call'[x].hand) <= call'[x].threads
  BY <1>1 DEF IInv, TypeOK, Shape
<1>3. TypeOK'
  BY <1>1, <1>2 DEF IInv, TypeOK, bounds
<1> QED
  BY <1>1, <1>3 DEF Only, GoesOn

\* The tables and what is said of them have their types.
LEMMA TablesTyped ==
  ASSUME IInv
  PROVE  /\ metadata \in [Pieces -> Row \cup {None}] /\ dealRows \subseteq Deals
         /\ hashRows \subseteq Hashes \X Pieces /\ records \in [Pieces -> SUBSET Hashes]
         /\ acked \in [Pieces -> SUBSET Hashes] /\ excuses \in [Pieces -> SUBSET Excuses]
         /\ \A p \in Pieces : MetadataRight(p) /\ HashesRight(p) /\ AckedRight(p)
         /\ \A p \in Pieces : acked[p] \subseteq Hashes
BY DEF IInv, TypeOK

LEMMA CreateMetadataInv ==
  ASSUME IInv, NEW c \in Callers, CreateMetadata(c)
  PROVE  IInv'
<1>1. /\ call[c].pc = "createMetadata"
      /\ Goto(c, IF call[c].op = "addDeal" THEN "insertDeal" ELSE "setIndexedAt")
      /\ UNCHANGED <<dealRows, hashRows, records, bounds, acked, excuses>>
  BY DEF CreateMetadata, createPieceMetadata, history
<1>2. /\ call[c] \in Call /\ Shape(call[c]) /\ AddRight(call[c], stream[c])
  BY Typed
<1>3. call[c].op \in {"addDeal", "addIndex"} /\ call[c].piece \in Pieces
  BY <1>1, <1>2 DEF Shape, Call, Ops
<1>4. PICK p \in Pieces : call[c].piece = p
  BY <1>3
<1>5. metadata' = [metadata EXCEPT ![p] =
        IF @ = None THEN [created |-> TRUE, indexed |-> FALSE] ELSE @]
  BY <1>4 DEF CreateMetadata, createPieceMetadata
<1>6. /\ metadata' \in [Pieces -> Row \cup {None}] /\ metadata'[p] # None
      /\ metadata[p] # None => metadata'[p] = metadata[p]
      /\ \A q \in Pieces \ {p} : metadata'[q] = metadata[q]
  <2>1. [created |-> TRUE, indexed |-> FALSE] \in Row
    BY DEF Row
  <2>2. [created |-> TRUE, indexed |-> FALSE] # None
    BY <2>1
  <2>3. metadata \in [Pieces -> Row \cup {None}]
    BY TablesTyped
  <2> QED
    BY <1>5, <2>1, <2>2, <2>3
<1>7. /\ stream' \in [Callers -> Stream] /\ stream'[c].error = stream[c].error
      /\ \A x \in Callers \ {c} : stream'[x] = stream[x]
  BY StreamUpdated DEF CreateMetadata
<1>8. PICK k \in Call :
        /\ call' = [call EXCEPT ![c] = k] /\ call'[c] = k
        /\ k.pc = IF call[c].op = "addDeal" THEN "insertDeal" ELSE "setIndexedAt"
        /\ k.op = call[c].op /\ k.piece = call[c].piece
        /\ k.deal = call[c].deal /\ k.recs = call[c].recs /\ k.todo = call[c].todo
        /\ k.hand = call[c].hand /\ k.seen = call[c].seen /\ k.threads = call[c].threads
        /\ k.failed = call[c].failed
  BY <1>1, GotoFields DEF PCs
<1>9. Shape(k)
  BY <1>1, <1>2, <1>3, <1>8 DEF Shape
<1>10. TypeOK' /\ Only(c) /\ GoesOn(c)
  BY <1>1, <1>6, <1>7, <1>8, <1>9, TablesTyped, WriterTyped
<1>11. ExcusesGrow /\ Elsewhere(p) /\ Changes(c)
  BY <1>1, <1>3, <1>4, <1>6 DEF ExcusesGrow, Elsewhere, Changes, Grown, Adds, GetPieceDeals
<1>12. AddRight(call[c], stream[c])' /\ (call[c].op \in Removes => RemoveRight(call[c]))'
  BY <1>1, <1>2, <1>3, <1>4, <1>6, <1>7, <1>8 DEF AddRight, Removes, Safe
<1>13. MetadataRight(p)' /\ HashesRight(p)' /\ AckedRight(p)'
  <2>1. MetadataRight(p)'
    BY <1>6 DEF MetadataRight
  <2>2. \A x \in Callers, h \in Hashes : Awaited(call[x], h, p) => Awaited(call'[x], h, p)
    BY <1>1, <1>10 DEF Only, Awaited
  <2>3. HashesRight(p)'
    BY <1>1, <2>2, TablesTyped DEF HashesRight, Excused, Awaited
  <2>4. AckedRight(p)'
    BY <1>1, <1>6, TablesTyped DEF AckedRight, Excused
  <2> QED
    BY <2>1, <2>3, <2>4
<1> QED
  BY <1>3, <1>4, <1>8, <1>9, <1>10, <1>11, <1>12, <1>13, Written

LEMMA InsertDealInv ==
  ASSUME IInv, NEW c \in Callers, InsertDeal(c)
  PROVE  IInv'
<1>1. /\ call[c].pc = "insertDeal" /\ dealRows' = dealRows \cup {call[c].deal}
      /\ call' = [call EXCEPT ![c] = NoCall]
      /\ UNCHANGED <<metadata, hashRows, records, stream, bounds, acked, excuses>>
  BY DEF InsertDeal, Return, history
<1>2. /\ call[c] \in Call /\ Shape(call[c]) /\ AddRight(call[c], stream[c])
  BY Typed
<1>3. /\ call[c].op = "addDeal" /\ call[c].piece \in Pieces
      /\ call[c].deal \in Deals /\ DealPiece[call[c].deal] = call[c].piece
  BY <1>1, <1>2 DEF Shape, Call, Ops
<1>4. PICK p \in Pieces : call[c].piece = p
  BY <1>3
<1>5. TypeOK' /\ Only(c) /\ GoesOn(c) /\ call'[c] = NoCall
  <2>1. dealRows' \subseteq Deals
    BY <1>1, <1>3, TablesTyped
  <2>2. /\ call' = [call EXCEPT ![c] = NoCall]
        /\ UNCHANGED <<metadata, hashRows, records, stream, bounds, acked, excuses>>
    BY <1>1
  <2> QED
    BY <2>1, <2>2, TablesTyped, StreamsTyped, NoCallRight, WriterTyped
<1>6. ExcusesGrow /\ Elsewhere(p) /\ Changes(c)
  BY <1>1, <1>3, <1>4 DEF ExcusesGrow, Elsewhere, Changes, Grown, Adds, GetPieceDeals
<1>7. AddRight(call[c], stream[c])' /\ (call[c].op \in Removes => RemoveRight(call[c]))'
  <2>1. ~stream'[c].error
    BY <1>1, <1>2 DEF AddRight
  <2> QED
    BY <1>5, <2>1, NoCallRight DEF AddRight, Removes
<1>8. MetadataRight(p)' /\ HashesRight(p)' /\ AckedRight(p)'
  <2>1. Safe(p) => metadata[p] # None
    BY <1>1, <1>2, <1>3, <1>4 DEF AddRight
  <2>2. MetadataRight(p)'
    BY <1>1, <2>1 DEF MetadataRight, Excused, Safe
  <2>3. \A x \in Callers, h \in Hashes : Awaited(call[x], h, p) => Awaited(call'[x], h, p)
    BY <1>3, <1>5 DEF Only, Awaited
  <2>4. HashesRight(p)'
    BY <1>1, <2>3, TablesTyped DEF HashesRight, Excused, Awaited
  <2>5. AckedRight(p)'
    BY <1>1, TablesTyped DEF AckedRight, Excused
  <2> QED
    BY <2>2, <2>4, <2>5
<1> QED
  BY <1>3, <1>4, <1>5, <1>6, <1>7, <1>8, NoCallRight, Written

\* The call after a batch has been inserted.
Inserted(c, todo, pc) == call' = [call EXCEPT ![c].todo = todo, ![c].pc = pc]

LEMMA BatchFields ==
  ASSUME IInv, NEW c \in Callers, NEW todo \in SUBSET Hashes, NEW pc \in PCs,
         Inserted(c, todo, pc)
  PROVE  \E k \in Call :
           /\ call' = [call EXCEPT ![c] = k]
           /\ k.pc = pc /\ k.todo = todo /\ k.op = call[c].op /\ k.piece = call[c].piece
           /\ k.recs = call[c].recs /\ k.hand = call[c].hand /\ k.seen = call[c].seen
           /\ k.threads = call[c].threads /\ k.failed = call[c].failed
<1> DEFINE k == [call[c] EXCEPT !.todo = todo, !.pc = pc]
<1>1. call' = [call EXCEPT ![c] = k]
  BY DEF Inserted
<1>2. call[c] \in Call
  BY Typed
<1>3. /\ k \in Call /\ k.pc = pc /\ k.todo = todo /\ k.op = call[c].op /\ k.piece = call[c].piece
      /\ k.recs = call[c].recs /\ k.hand = call[c].hand /\ k.seen = call[c].seen
      /\ k.threads = call[c].threads /\ k.failed = call[c].failed
  BY <1>2 DEF Call
<1> HIDE DEF k
<1> QED
  BY <1>1, <1>3

LEMMA addMultihashesToPiecesInv ==
  ASSUME IInv, NEW c \in Callers, NEW h \in Hashes, addMultihashesToPieces(c, h)
  PROVE  IInv'
<1> DEFINE left == call[c].todo \ {h}
           todo == IF left = {} THEN call[c].recs ELSE left
           pc == IF left = {} THEN "records" ELSE "hashes"
<1>1. /\ call[c].pc = "hashes" /\ h \in call[c].todo
      /\ hashRows' = hashRows \cup {<<h, call[c].piece>>}
      /\ call' = [call EXCEPT ![c].todo = todo, ![c].pc = pc]
      /\ updateProgress(c, FALSE)
      /\ UNCHANGED <<metadata, dealRows, records, bounds, acked, excuses>>
  BY DEF addMultihashesToPieces, history
<1>2. /\ call[c] \in Call /\ call[c].op = "addIndex" /\ call[c].piece \in Pieces
      /\ call[c].recs \subseteq Hashes /\ call[c].todo \subseteq call[c].recs
      /\ AddRight(call[c], stream[c]) /\ Shape(call[c])
  BY <1>1, Adding
<1>3. PICK p \in Pieces : call[c].piece = p
  BY <1>2
<1>4. PICK k \in Call :
        /\ call' = [call EXCEPT ![c] = k]
        /\ k.pc = pc /\ k.todo = todo /\ k.op = call[c].op /\ k.piece = call[c].piece
        /\ k.recs = call[c].recs /\ k.hand = call[c].hand /\ k.seen = call[c].seen
        /\ k.threads = call[c].threads /\ k.failed = call[c].failed
  <2>1. todo \in SUBSET Hashes /\ pc \in PCs
    BY <1>2 DEF PCs
  <2> HIDE DEF todo, pc
  <2>2. PICK t \in SUBSET Hashes, i \in PCs : t = todo /\ i = pc
    BY <2>1
  <2>3. Inserted(c, t, i)
    BY <1>1, <2>2 DEF Inserted
  <2>4. PICK k \in Call :
          /\ call' = [call EXCEPT ![c] = k]
          /\ k.pc = i /\ k.todo = t /\ k.op = call[c].op /\ k.piece = call[c].piece
          /\ k.recs = call[c].recs /\ k.hand = call[c].hand /\ k.seen = call[c].seen
          /\ k.threads = call[c].threads /\ k.failed = call[c].failed
    BY <2>3, BatchFields
  <2> QED
    BY <2>2, <2>4
<1>5. Shape(k)
  BY <1>1, <1>2, <1>4 DEF Shape
<1>6. /\ stream' \in [Callers -> Stream] /\ stream'[c].error = stream[c].error
      /\ \A x \in Callers \ {c} : stream'[x] = stream[x]
  BY <1>1, StreamUpdated
<1>7. TypeOK' /\ Only(c) /\ GoesOn(c) /\ call'[c] = k
  <2>1. hashRows' \subseteq Hashes \X Pieces
    BY <1>1, <1>2, TablesTyped
  <2> QED
    <3>1. call' = [call EXCEPT ![c] = k] /\ k.op = call[c].op /\ k.piece = call[c].piece
      BY <1>4
    <3>2. UNCHANGED <<metadata, dealRows, records, bounds, acked, excuses>>
      BY <1>1
    <3> QED
      BY <1>5, <1>6, <2>1, <3>1, <3>2, TablesTyped, WriterTyped
<1>8. ExcusesGrow /\ Elsewhere(p) /\ Changes(c)
  BY <1>1, <1>2, <1>3 DEF ExcusesGrow, Elsewhere, Changes, Grown, Adds, GetPieceDeals
<1>9. AddRight(call[c], stream[c])' /\ (call[c].op \in Removes => RemoveRight(call[c]))'
  <2>1. \A i \in call[c].recs : <<i, p>> \in hashRows' <=> i = h \/ <<i, p>> \in hashRows
    BY <1>1, <1>3
  <2>2. /\ call[c].pc = "hashes" /\ h \in call[c].todo /\ h \in call[c].recs
        /\ UNCHANGED <<metadata, records, excuses>>
    BY <1>1, <1>2
  <2>3. ~call[c].failed /\ ~stream'[c].error
    BY <1>1, <1>2, <1>6 DEF AddRight
  <2>4. AddRight(call[c], stream[c])'
    BY <1>2, <1>3, <1>4, <1>7, <2>1, <2>2, <2>3 DEF AddRight, Safe
  <2> QED
    BY <1>2, <1>4, <1>7, <2>4 DEF Removes
<1>10. MetadataRight(p)' /\ HashesRight(p)' /\ AckedRight(p)'
  <2>1. \A x \in Callers : Indexing(call[x], p) => Indexing(call'[x], p)
    BY <1>4, <1>7 DEF Only, Indexing
  <2>2. MetadataRight(p)'
    BY <1>1, <2>1, TablesTyped DEF MetadataRight, Excused, Indexing, GetPieceDeals
  <2>3. \A x \in Callers, i \in Hashes : Awaited(call[x], i, p) => Awaited(call'[x], i, p)
    BY <1>1, <1>4, <1>7 DEF Only, Awaited
  <2>4. Awaited(call'[c], h, p)
    BY <1>1, <1>2, <1>3, <1>4, <1>7 DEF Awaited
  <2>5. \A i \in Hashes : <<i, p>> \in hashRows' => i = h \/ <<i, p>> \in hashRows
    BY <1>1, <1>3
  <2>6. HashesRight(p)'
    <3> SUFFICES ASSUME ~Excused(p, {"overlap", "cut"}), NEW i \in Hashes,
                        <<i, p>> \in hashRows'
                 PROVE  i \in records[p] \/ \E x \in Callers : Awaited(call'[x], i, p)
      BY <1>1 DEF HashesRight, Excused, Awaited
    <3>1. CASE i = h
      BY <2>4, <3>1
    <3>2. CASE <<i, p>> \in hashRows
      BY <2>3, <3>2, TablesTyped DEF HashesRight
    <3> QED
      BY <2>5, <3>1, <3>2
  <2>7. AckedRight(p)'
    BY <1>1, TablesTyped DEF AckedRight, Excused
  <2> QED
    BY <2>2, <2>6, <2>7
<1> QED
  BY <1>2, <1>3, <1>5, <1>7, <1>8, <1>9, <1>10, Written

LEMMA addPieceInfosInv ==
  ASSUME IInv, NEW c \in Callers, NEW h \in Hashes, addPieceInfos(c, h)
  PROVE  IInv'
<1> DEFINE left == call[c].todo \ {h}
           pc == IF left = {} THEN "createMetadata" ELSE "records"
<1>1. /\ call[c].pc = "records" /\ h \in call[c].todo
      /\ records' = [records EXCEPT ![call[c].piece] = @ \cup {h}]
      /\ call' = [call EXCEPT ![c].todo = left, ![c].pc = pc]
      /\ updateProgress(c, FALSE)
      /\ UNCHANGED <<metadata, dealRows, hashRows, bounds, acked, excuses>>
  BY DEF addPieceInfos, history
<1>2. /\ call[c] \in Call /\ call[c].op = "addIndex" /\ call[c].piece \in Pieces
      /\ call[c].recs \subseteq Hashes /\ call[c].todo \subseteq call[c].recs
      /\ AddRight(call[c], stream[c]) /\ Shape(call[c])
  BY <1>1, Adding
<1>3. PICK p \in Pieces : call[c].piece = p
  BY <1>2
<1>4. PICK k \in Call :
        /\ call' = [call EXCEPT ![c] = k]
        /\ k.pc = pc /\ k.todo = left /\ k.op = call[c].op /\ k.piece = call[c].piece
        /\ k.recs = call[c].recs /\ k.hand = call[c].hand /\ k.seen = call[c].seen
        /\ k.threads = call[c].threads /\ k.failed = call[c].failed
  <2>1. left \in SUBSET Hashes /\ pc \in PCs
    BY <1>2 DEF PCs
  <2> HIDE DEF left, pc
  <2>2. PICK t \in SUBSET Hashes, i \in PCs : t = left /\ i = pc
    BY <2>1
  <2>3. Inserted(c, t, i)
    BY <1>1, <2>2 DEF Inserted
  <2>4. PICK k \in Call :
          /\ call' = [call EXCEPT ![c] = k]
          /\ k.pc = i /\ k.todo = t /\ k.op = call[c].op /\ k.piece = call[c].piece
          /\ k.recs = call[c].recs /\ k.hand = call[c].hand /\ k.seen = call[c].seen
          /\ k.threads = call[c].threads /\ k.failed = call[c].failed
    BY <2>3, BatchFields
  <2> QED
    BY <2>2, <2>4
<1>5. Shape(k)
  BY <1>1, <1>2, <1>4 DEF Shape
<1>6. /\ stream' \in [Callers -> Stream] /\ stream'[c].error = stream[c].error
      /\ \A x \in Callers \ {c} : stream'[x] = stream[x]
  BY <1>1, StreamUpdated
<1>7. /\ records' \in [Pieces -> SUBSET Hashes] /\ records'[p] = records[p] \cup {h}
      /\ \A q \in Pieces \ {p} : records'[q] = records[q]
  BY <1>1, <1>3, TablesTyped
<1>8. TypeOK' /\ Only(c) /\ GoesOn(c) /\ call'[c] = k
  <2>1. call' = [call EXCEPT ![c] = k] /\ k.op = call[c].op /\ k.piece = call[c].piece
    BY <1>4
  <2>2. UNCHANGED <<metadata, dealRows, hashRows, bounds, acked, excuses>>
    BY <1>1
  <2> QED
    BY <1>5, <1>6, <1>7, <2>1, <2>2, TablesTyped, WriterTyped
<1>9. ExcusesGrow /\ Elsewhere(p) /\ Changes(c)
  BY <1>1, <1>2, <1>3, <1>7 DEF ExcusesGrow, Elsewhere, Changes, Grown, Adds, GetPieceDeals
<1>10. AddRight(call[c], stream[c])' /\ (call[c].op \in Removes => RemoveRight(call[c]))'
  BY <1>1, <1>2, <1>3, <1>4, <1>6, <1>7, <1>8 DEF AddRight, Removes, Safe
<1>11. MetadataRight(p)' /\ HashesRight(p)' /\ AckedRight(p)'
  <2>1. Indexing(call'[c], p)
    BY <1>1, <1>2, <1>3, <1>4, <1>8 DEF Indexing
  <2>2. MetadataRight(p)'
    BY <1>1, <2>1, TablesTyped DEF MetadataRight, Excused, Indexing, GetPieceDeals
  <2>3. \A x \in Callers, i \in Hashes \ {h} : Awaited(call[x], i, p) => Awaited(call'[x], i, p)
    BY <1>1, <1>4, <1>8 DEF Only, Awaited
  <2>4. HashesRight(p)'
    <3> SUFFICES ASSUME ~Excused(p, {"overlap", "cut"}), NEW i \in Hashes \ {h},
                        <<i, p>> \in hashRows
                 PROVE  i \in records[p] \/ \E x \in Callers : Awaited(call'[x], i, p)
      BY <1>1, <1>7 DEF HashesRight, Excused, Awaited
    <3> QED
      BY <2>3, TablesTyped DEF HashesRight
  <2>5. AckedRight(p)'
    BY <1>1, <1>7, TablesTyped DEF AckedRight, Excused
  <2> QED
    BY <2>2, <2>4, <2>5
<1> QED
  BY <1>2, <1>3, <1>5, <1>8, <1>9, <1>10, <1>11, Written

LEMMA SetIndexedAtInv ==
  ASSUME IInv, NEW c \in Callers, SetIndexedAt(c)
  PROVE  IInv'
<1>1. /\ call[c].pc = "setIndexedAt" /\ Goto(c, "complete") /\ updateProgress(c, TRUE)
      /\ UNCHANGED <<dealRows, hashRows, records, bounds, acked, excuses>>
  BY DEF SetIndexedAt, history
<1>2. /\ call[c] \in Call /\ call[c].op = "addIndex" /\ call[c].piece \in Pieces
      /\ AddRight(call[c], stream[c]) /\ Shape(call[c])
  BY <1>1, Adding
<1>3. PICK p \in Pieces : call[c].piece = p
  BY <1>2
<1>4. /\ metadata' \in [Pieces -> Row \cup {None}] /\ metadata'[p] # None
      /\ metadata'[p].indexed
      /\ \A q \in Pieces \ {p} : metadata'[q] = metadata[q]
  <2> DEFINE row == [created |-> metadata[p] # None /\ metadata[p].created, indexed |-> TRUE]
  <2>1. metadata' = [metadata EXCEPT ![p] = row]
    BY <1>3 DEF SetIndexedAt
  <2>2. metadata \in [Pieces -> Row \cup {None}]
    BY TablesTyped
  <2>3. row.indexed
    OBVIOUS
  <2>4. row \in Row
    <3>1. (metadata[p] # None /\ metadata[p].created) \in BOOLEAN
      OBVIOUS
    <3> QED
      BY <3>1 DEF Row
  <2> HIDE DEF row
  <2> QED
    BY <2>1, <2>2, <2>3, <2>4
<1>5. PICK k \in Call :
        /\ call' = [call EXCEPT ![c] = k] /\ call'[c] = k
        /\ k.pc = "complete" /\ k.op = call[c].op /\ k.piece = call[c].piece
        /\ k.deal = call[c].deal /\ k.recs = call[c].recs /\ k.todo = call[c].todo
        /\ k.hand = call[c].hand /\ k.seen = call[c].seen /\ k.threads = call[c].threads
        /\ k.failed = call[c].failed
  BY <1>1, GotoFields DEF PCs
<1>6. Shape(k)
  BY <1>1, <1>2, <1>5 DEF Shape
<1>7. /\ stream' \in [Callers -> Stream] /\ stream'[c].error = stream[c].error
      /\ \A x \in Callers \ {c} : stream'[x] = stream[x]
  BY <1>1, StreamUpdated
<1>8. TypeOK' /\ Only(c) /\ GoesOn(c)
  BY <1>1, <1>4, <1>5, <1>6, <1>7, TablesTyped, WriterTyped
<1>9. ExcusesGrow /\ Elsewhere(p) /\ Changes(c)
  BY <1>1, <1>2, <1>3, <1>4 DEF ExcusesGrow, Elsewhere, Changes, Grown, Adds, GetPieceDeals
<1>10. AddRight(call[c], stream[c])' /\ (call[c].op \in Removes => RemoveRight(call[c]))'
  BY <1>1, <1>2, <1>3, <1>4, <1>5, <1>7 DEF AddRight, Removes, Safe
<1>11. MetadataRight(p)' /\ HashesRight(p)' /\ AckedRight(p)'
  <2>1. MetadataRight(p)'
    BY <1>4 DEF MetadataRight
  <2>2. \A x \in Callers, h \in Hashes : Awaited(call[x], h, p) => Awaited(call'[x], h, p)
    BY <1>1, <1>8 DEF Only, Awaited
  <2>3. HashesRight(p)'
    BY <1>1, <2>2, TablesTyped DEF HashesRight, Excused, Awaited
  <2>4. AckedRight(p)'
    BY <1>1, <1>4, TablesTyped DEF AckedRight, Excused
  <2> QED
    BY <2>1, <2>3, <2>4
<1> QED
  BY <1>2, <1>3, <1>5, <1>6, <1>8, <1>9, <1>10, <1>11, Written

\* The client takes the index for stored: it is, or the error could not be sent.
LEMMA ClientDoneInv ==
  ASSUME IInv, NEW c \in Callers, ClientDone(c)
  PROVE  IInv'
<1>1. /\ call[c].pc = "closed" /\ stream[c].buffered = 0
      /\ acked' = [acked EXCEPT ![call[c].piece] = @ \cup call[c].recs]
      /\ call' = [call EXCEPT ![c] = NoCall] /\ stream' = [stream EXCEPT ![c] = NoStream]
      /\ UNCHANGED <<metadata, dealRows, hashRows, records, bounds, excuses>>
  BY DEF ClientDone, Return, tables
<1>2. /\ call[c] \in Call /\ call[c].op = "addIndex" /\ call[c].piece \in Pieces
      /\ call[c].recs \subseteq Hashes /\ stream[c] \in Stream /\ AddRight(call[c], stream[c])
  BY <1>1, Adding
<1>3. PICK p \in Pieces : call[c].piece = p
  BY <1>2
<1>4. /\ acked' \in [Pieces -> SUBSET Hashes] /\ acked'[p] = acked[p] \cup call[c].recs
      /\ \A q \in Pieces \ {p} : acked'[q] = acked[q]
  BY <1>1, <1>2, <1>3, TablesTyped
<1>5. /\ stream' \in [Callers -> Stream] /\ ~stream'[c].error
      /\ \A x \in Callers \ {c} : stream'[x] = stream[x]
  BY <1>1, StreamsTyped, NoCallRight
<1>6. TypeOK' /\ Only(c) /\ GoesOn(c) /\ call'[c] = NoCall
  <2>1. /\ call' = [call EXCEPT ![c] = NoCall]
        /\ UNCHANGED <<metadata, dealRows, hashRows, records, bounds, excuses>>
    BY <1>1
  <2> QED
    BY <1>4, <1>5, <2>1, TablesTyped, NoCallRight, WriterTyped
<1>7. ExcusesGrow /\ Elsewhere(p) /\ Changes(c)
  BY <1>1, <1>2, <1>3, <1>4 DEF ExcusesGrow, Elsewhere, Changes, Grown, Adds, GetPieceDeals
<1>8. AddRight(call[c], stream[c])' /\ (call[c].op \in Removes => RemoveRight(call[c]))'
  BY <1>5, <1>6, NoCallRight DEF AddRight, Removes
<1>9. /\ call[c].failed => "cut" \in excuses[p] /\ "dropped" \in excuses[p]
      /\ Safe(p) /\ ~call[c].failed => \A h \in call[c].recs :
           /\ h \in records[p] /\ <<h, p>> \in hashRows
           /\ metadata[p] # None /\ metadata[p].indexed
  BY <1>1, <1>2, <1>3 DEF AddRight
<1>10. MetadataRight(p)' /\ HashesRight(p)' /\ AckedRight(p)'
  <2>1. MetadataRight(p)'
    <3> SUFFICES ASSUME metadata[p] = None, ~Excused(p, {"overlap", "byHand", "scan"})
                 PROVE  /\ GetPieceDeals(p) = {}
                        /\ records[p] = {} \/ "cut" \in excuses[p]
                             \/ \E x \in Callers : Indexing(call'[x], p)
      BY <1>1 DEF MetadataRight, GetPieceDeals, Excused, Indexing
    <3>1. /\ GetPieceDeals(p) = {}
          /\ records[p] = {} \/ "cut" \in excuses[p] \/ \E x \in Callers : Indexing(call[x], p)
      BY TablesTyped DEF MetadataRight
    <3>2. Indexing(call[c], p) => "cut" \in excuses[p]
      <4>1. Safe(p)
        BY DEF Excused, Safe
      <4> QED
        BY <1>9, <4>1 DEF Indexing
    <3>3. \A x \in Callers \ {c} : Indexing(call[x], p) => Indexing(call'[x], p)
      BY <1>6 DEF Only
    <3> QED
      BY <3>1, <3>2, <3>3
  <2>2. \A x \in Callers, h \in Hashes : Awaited(call[x], h, p) => Awaited(call'[x], h, p)
    BY <1>1, <1>6 DEF Only, Awaited
  <2>3. HashesRight(p)'
    BY <1>1, <2>2, TablesTyped DEF HashesRight, Excused, Awaited
  <2>4. AckedRight(p)'
    BY <1>1, <1>4, <1>9, TablesTyped DEF AckedRight, Excused, Safe
  <2> QED
    BY <2>1, <2>3, <2>4
<1> QED
  BY <1>2, <1>3, <1>6, <1>7, <1>8, <1>10, NoCallRight, Written

-----------------------------------------------------------------------------
(* Removals that write. *)

LEMMA DeleteDealInv ==
  ASSUME IInv, NEW c \in Callers, DeleteDeal(c)
  PROVE  IInv'
<1>1. /\ call[c].pc = "deleteDeal" /\ Goto(c, "remaining")
      /\ dealRows' = dealRows \ {call[c].deal}
      /\ acked' = IF \E d \in dealRows \ {call[c].deal} : DealPiece[d] = call[c].piece
                  THEN acked ELSE [acked EXCEPT ![call[c].piece] = {}]
      /\ UNCHANGED <<metadata, hashRows, records, stream, bounds, excuses>>
  BY DEF DeleteDeal
<1>2. /\ call[c].op = "removeDeal" /\ call[c] \in Call /\ Shape(call[c])
      /\ AddRight(call[c], stream[c]) /\ call[c].hand = {}
  BY <1>1, Removal, Typed
<1>3. /\ call[c].piece \in Pieces /\ call[c].deal \in Deals
      /\ DealPiece[call[c].deal] = call[c].piece
  BY <1>1, <1>2 DEF Shape
<1>4. PICK p \in Pieces : call[c].piece = p
  BY <1>3
<1>5. /\ GetPieceDeals(p)' \subseteq GetPieceDeals(p)
      /\ GetPieceDeals(p)' = {} => acked'[p] = {}
      /\ acked' \in [Pieces -> SUBSET Hashes] /\ acked'[p] \subseteq acked[p]
      /\ \A q \in Pieces \ {p} : acked'[q] = acked[q] /\ GetPieceDeals(q)' = GetPieceDeals(q)
  <2>1. acked \in [Pieces -> SUBSET Hashes]
    BY TablesTyped
  <2>2. /\ acked' \in [Pieces -> SUBSET Hashes] /\ acked'[p] \subseteq acked[p]
        /\ \A q \in Pieces \ {p} : acked'[q] = acked[q]
    BY <1>1, <1>4, <2>1
  <2>3. /\ GetPieceDeals(p)' \subseteq GetPieceDeals(p)
        /\ \A q \in Pieces \ {p} : GetPieceDeals(q)' = GetPieceDeals(q)
    BY <1>1, <1>3, <1>4 DEF GetPieceDeals
  <2>4. GetPieceDeals(p)' = {} => acked'[p] = {}
    BY <1>1, <1>4, <2>1 DEF GetPieceDeals
  <2> QED
    BY <2>2, <2>3, <2>4
<1>6. PICK k \in Call :
        /\ call' = [call EXCEPT ![c] = k] /\ call'[c] = k
        /\ k.pc = "remaining" /\ k.op = call[c].op /\ k.piece = call[c].piece
        /\ k.deal = call[c].deal /\ k.recs = call[c].recs /\ k.todo = call[c].todo
        /\ k.hand = call[c].hand /\ k.seen = call[c].seen /\ k.threads = call[c].threads
        /\ k.failed = call[c].failed
  BY <1>1, GotoFields DEF PCs
<1>7. Shape(k)
  BY <1>1, <1>2, <1>3, <1>6 DEF Shape
<1>8. TypeOK' /\ Only(c) /\ GoesOn(c)
  BY <1>1, <1>5, <1>6, <1>7, TablesTyped, StreamsTyped, WriterTyped
<1>9. ExcusesGrow /\ Elsewhere(p) /\ Changes(c)
  <2>1. ExcusesGrow /\ Elsewhere(p)
    BY <1>1, <1>5 DEF ExcusesGrow, Elsewhere
  <2>2. Shrunk(p)
    BY <1>1, <1>5 DEF Shrunk
  <2> QED
    BY <1>2, <1>4, <2>1, <2>2 DEF Changes, Removes
<1>10. AddRight(call[c], stream[c])' /\ (call[c].op \in Removes => RemoveRight(call[c]))'
  BY <1>1, <1>2, <1>4, <1>5, <1>6 DEF AddRight, RemoveRight, Safe
<1>11. MetadataRight(p)' /\ HashesRight(p)' /\ AckedRight(p)'
  <2>1. \A x \in Callers : Indexing(call[x], p) => Indexing(call'[x], p)
    BY <1>2, <1>8 DEF Only, Indexing
  <2>2. MetadataRight(p)'
    BY <1>1, <1>5, <2>1, TablesTyped DEF MetadataRight, Excused, Indexing
  <2>3. \A x \in Callers, h \in Hashes : Awaited(call[x], h, p) => Awaited(call'[x], h, p)
    BY <1>2, <1>8 DEF Only, Awaited
  <2>4. HashesRight(p)'
    BY <1>1, <2>3, TablesTyped DEF HashesRight, Excused, Awaited
  <2>5. AckedRight(p)'
    BY <1>1, <1>5, TablesTyped DEF AckedRight, Excused
  <2> QED
    BY <2>2, <2>4, <2>5
<1> QED
  BY <1>2, <1>4, <1>6, <1>7, <1>8, <1>9, <1>10, <1>11, Written

\* What a step of the drain leaves alone, and what it may take away.
LEMMA DrainWrites ==
  ASSUME IInv, NEW c \in Callers, call[c].pc = "drain",
         NEW k \in Call, call' = [call EXCEPT ![c] = k], Shape(k),
         k.op = call[c].op, k.piece = call[c].piece,
         NEW p \in Pieces, p = call[c].piece,
         hashRows' \subseteq hashRows, records' \in [Pieces -> SUBSET Hashes],
         records'[p] \subseteq records[p],
         \A q \in Pieces \ {p} :
           /\ records'[q] = records[q]
           /\ \A h \in Hashes : <<h, q>> \in hashRows' <=> <<h, q>> \in hashRows,
         Safe(p) => \A h \in records[p] \ records'[p] : <<h, p>> \notin hashRows,
         UNCHANGED <<metadata, dealRows, stream, bounds, acked, excuses>>,
         RemoveRight(call[c])'
  PROVE  IInv'
<1>1. /\ call[c] \in Call /\ call[c].op \in {"removeDeal", "removeIndexes"}
      /\ RemoveRight(call[c])
  BY Draining
<1>2. Safe(p) => acked[p] = {}
  BY <1>1 DEF RemoveRight
<1>3. TypeOK' /\ Only(c) /\ GoesOn(c) /\ call'[c] = k
  BY TablesTyped, StreamsTyped, WriterTyped
<1>4. ExcusesGrow /\ Elsewhere(p) /\ Changes(c)
  BY <1>1 DEF ExcusesGrow, Elsewhere, Changes, Shrunk, Removes, GetPieceDeals
<1>5. AddRight(call[c], stream[c])'
  <2>1. ~stream[c].error
    BY Typed DEF AddRight
  <2> QED
    BY <1>1, <1>3, <2>1 DEF AddRight
<1>6. MetadataRight(p)' /\ HashesRight(p)' /\ AckedRight(p)'
  <2>1. \A x \in Callers : Indexing(call[x], p) => Indexing(call'[x], p)
    BY <1>1, <1>3 DEF Only, Indexing
  <2>2. MetadataRight(p)'
    BY <2>1, TablesTyped DEF MetadataRight, Excused, Indexing, GetPieceDeals
  <2>3. \A x \in Callers, h \in Hashes : Awaited(call[x], h, p) => Awaited(call'[x], h, p)
    BY <1>1, <1>3 DEF Only, Awaited
  <2>4. HashesRight(p)'
    <3> SUFFICES ASSUME ~Excused(p, {"overlap", "cut"}), NEW h \in Hashes,
                        <<h, p>> \in hashRows'
                 PROVE  h \in records'[p] \/ \E x \in Callers : Awaited(call'[x], h, p)
      BY DEF HashesRight, Excused, Awaited
    <3>1. Safe(p) /\ <<h, p>> \in hashRows
      BY DEF Excused, Safe
    <3>2. h \in records[p] \/ \E x \in Callers : Awaited(call[x], h, p)
      BY <3>1, TablesTyped DEF HashesRight
    <3> QED
      BY <2>3, <3>1, <3>2
  <2>5. AckedRight(p)'
    BY <1>2 DEF AckedRight, Excused, Safe
  <2> QED
    BY <2>2, <2>4, <2>5
<1> QED
  BY <1>1, <1>3, <1>4, <1>5, <1>6, Written

LEMMA DeleteHashInv ==
  ASSUME IInv, NEW c \in Callers, NEW h \in Hashes, DeleteHash(c, h)
  PROVE  IInv'
<1> DEFINE k == [call[c] EXCEPT !.seen = @ \cup {h}, !.hand = @ \cup {h}]
<1>1. /\ call[c].pc = "drain" /\ call[c].scanning
      /\ Cardinality(call[c].hand) < call[c].threads
      /\ hashRows' = hashRows \ {<<h, call[c].piece>>}
      /\ call' = [call EXCEPT ![c] = k]
      /\ UNCHANGED <<metadata, dealRows, records, stream, bounds, acked, excuses>>
  BY DEF DeleteHash, history
<1>2. /\ call[c] \in Call /\ call[c].piece \in Pieces
      /\ call[c].op \in {"removeDeal", "removeIndexes"} /\ RemoveRight(call[c])
      /\ IsFiniteSet(call[c].hand) /\ Cardinality(call[c].hand) \in Nat
      /\ ~call[c].failed => call[c].threads = Threads
  BY <1>1, Draining
<1>3. PICK p \in Pieces : call[c].piece = p
  BY <1>2
<1>4. /\ IsFiniteSet(call[c].hand \cup {h})
      /\ Cardinality(call[c].hand \cup {h}) <= call[c].threads
  <2>1. /\ IsFiniteSet(call[c].hand \cup {h})
        /\ Cardinality(call[c].hand \cup {h}) =
             IF h \in call[c].hand THEN Cardinality(call[c].hand)
             ELSE Cardinality(call[c].hand) + 1
    BY <1>2, FS_AddElement
  <2>2. call[c].threads \in Nat
    BY <1>2 DEF Call
  <2> QED
    BY <1>1, <1>2, <2>1, <2>2
<1>5. /\ k \in Call /\ k.pc = "drain" /\ k.op = call[c].op /\ k.piece = p
      /\ k.todo = call[c].todo /\ k.hand = call[c].hand \cup {h}
      /\ k.seen = call[c].seen \cup {h} /\ k.threads = call[c].threads
      /\ k.failed = call[c].failed /\ k.scanning = call[c].scanning
  BY <1>1, <1>2, <1>3 DEF Call
<1> HIDE DEF k
<1>6. Shape(k)
  BY <1>2, <1>4, <1>5 DEF Shape
<1>7. call'[c] = k
  BY <1>1 DEF IInv, TypeOK
<1>8. RemoveRight(call[c])'
  <2>1. /\ <<h, p>> \notin hashRows' /\ hashRows' \subseteq hashRows
        /\ UNCHANGED <<records, dealRows, acked, excuses>>
    BY <1>1, <1>3
  <2> QED
    <3>1. Safe(p) =>
            /\ acked[p] = {} /\ (k.op = "removeDeal" => GetPieceDeals(p) = {})
            /\ \A i \in call[c].hand : <<i, p>> \notin hashRows
            /\ records[p] \subseteq call[c].todo
            /\ ~call[c].failed => records[p] \cap call[c].seen \subseteq call[c].hand
      BY <1>1, <1>2, <1>3, <1>5 DEF RemoveRight, Safe, GetPieceDeals
    <3>2. k.scanning /\ k.op \in {"removeDeal", "removeIndexes"}
      BY <1>1, <1>2, <1>5
    <3> QED
      BY <1>5, <1>7, <2>1, <3>1, <3>2 DEF RemoveRight, Safe, GetPieceDeals
<1>9. \A q \in Pieces \ {p} : \A i \in Hashes :
        <<i, q>> \in hashRows' <=> <<i, q>> \in hashRows
  BY <1>1, <1>3
<1> QED
  BY <1>1, <1>3, <1>5, <1>6, <1>8, <1>9, TablesTyped, DrainWrites

LEMMA DeleteRecordInv ==
  ASSUME IInv, NEW c \in Callers, NEW h \in Hashes, DeleteRecord(c, h)
  PROVE  IInv'
<1> DEFINE k == [call[c] EXCEPT !.hand = @ \ {h}]
<1>1. /\ h \in call[c].hand
      /\ records' = [records EXCEPT ![call[c].piece] = @ \ {h}]
      /\ call' = [call EXCEPT ![c] = k]
      /\ UNCHANGED <<metadata, dealRows, hashRows, stream, bounds, acked, excuses>>
  BY DEF DeleteRecord, history
<1>2. call[c].pc = "drain"
  BY <1>1, Removal
<1>3. /\ call[c] \in Call /\ call[c].piece \in Pieces
      /\ call[c].op \in {"removeDeal", "removeIndexes"} /\ RemoveRight(call[c])
      /\ IsFiniteSet(call[c].hand) /\ Cardinality(call[c].hand) \in Nat
      /\ Cardinality(call[c].hand) <= call[c].threads
      /\ ~call[c].failed => call[c].threads = Threads
  BY <1>2, Draining
<1>4. PICK p \in Pieces : call[c].piece = p
  BY <1>3
<1>5. /\ IsFiniteSet(call[c].hand \ {h})
      /\ Cardinality(call[c].hand \ {h}) <= call[c].threads
  <2>1. /\ IsFiniteSet(call[c].hand \ {h})
        /\ Cardinality(call[c].hand \ {h}) = Cardinality(call[c].hand) - 1
    BY <1>1, <1>3, FS_RemoveElement
  <2>2. call[c].threads \in Nat
    BY <1>3 DEF Call
  <2> QED
    BY <1>3, <2>1, <2>2
<1>6. /\ k \in Call /\ k.pc = "drain" /\ k.op = call[c].op /\ k.piece = p
      /\ k.todo = call[c].todo /\ k.hand = call[c].hand \ {h}
      /\ k.seen = call[c].seen /\ k.threads = call[c].threads
      /\ k.failed = call[c].failed /\ k.scanning = call[c].scanning
  BY <1>2, <1>3, <1>4 DEF Call
<1> HIDE DEF k
<1>7. Shape(k)
  BY <1>3, <1>5, <1>6 DEF Shape
<1>8. call'[c] = k
  BY <1>1 DEF IInv, TypeOK
<1>9. /\ records' \in [Pieces -> SUBSET Hashes] /\ records'[p] = records[p] \ {h}
      /\ \A q \in Pieces \ {p} : records'[q] = records[q]
  BY <1>1, <1>4, TablesTyped
<1>10. RemoveRight(call[c])'
  BY <1>1, <1>2, <1>3, <1>4, <1>6, <1>8, <1>9 DEF RemoveRight, Safe, GetPieceDeals
<1>11. Safe(p) => <<h, p>> \notin hashRows
  BY <1>1, <1>3, <1>4 DEF RemoveRight
<1> QED
  BY <1>1, <1>2, <1>4, <1>6, <1>7, <1>9, <1>10, <1>11, DrainWrites

LEMMA DeleteMetadataInv ==
  ASSUME IInv, NEW c \in Callers, DeleteMetadata(c)
  PROVE  IInv'
<1>1. /\ call[c].pc = "deleteMetadata"
      /\ metadata' = [metadata EXCEPT ![call[c].piece] = None]
      /\ call' = [call EXCEPT ![c] = NoCall]
      /\ IF call[c].op = "removeMetadata" THEN Excuse(call[c].piece, "byHand")
         ELSE UNCHANGED excuses
      /\ UNCHANGED <<dealRows, hashRows, records, stream, bounds, acked>>
  BY DEF DeleteMetadata, Return
<1>2. /\ call[c] \in Call /\ call[c].op \in {"removeDeal", "removeMetadata"}
      /\ call[c].piece \in Pieces /\ RemoveRight(call[c]) /\ AddRight(call[c], stream[c])
  BY <1>1, Removal, Typed DEF Removes
<1>3. PICK p \in Pieces : call[c].piece = p
  BY <1>2
<1>4. /\ metadata' \in [Pieces -> Row \cup {None}]
      /\ \A q \in Pieces \ {p} : metadata'[q] = metadata[q]
  BY <1>1, <1>3, TablesTyped
<1>5. /\ excuses' \in [Pieces -> SUBSET Excuses] /\ ExcusesGrow
      /\ \A q \in Pieces \ {p} : excuses'[q] = excuses[q]
      /\ call[c].op = "removeMetadata" => "byHand" \in excuses'[p]
      /\ call[c].op = "removeDeal" => excuses'[p] = excuses[p]
  <2>1. CASE call[c].op = "removeMetadata"
    <3>1. /\ ExcusesGrow /\ excuses' \in [Pieces -> SUBSET Excuses] /\ "byHand" \in excuses'[p]
      BY <1>1, <1>3, <2>1, BoundKept DEF Excuses
    <3>2. \A q \in Pieces \ {p} : excuses'[q] = excuses[q]
      BY <1>1, <1>3, <2>1, TablesTyped DEF Excuse
    <3> QED
      BY <2>1, <3>1, <3>2
  <2>2. CASE call[c].op = "removeDeal"
    BY <1>1, <2>2, TablesTyped DEF ExcusesGrow
  <2> QED
    BY <1>2, <2>1, <2>2
<1>6. TypeOK' /\ Only(c) /\ GoesOn(c) /\ call'[c] = NoCall
  <2>1. /\ call' = [call EXCEPT ![c] = NoCall]
        /\ UNCHANGED <<dealRows, hashRows, records, stream, bounds, acked>>
    BY <1>1
  <2> QED
    BY <1>4, <1>5, <2>1, TablesTyped, StreamsTyped, NoCallRight, WriterTyped
<1>7. Elsewhere(p) /\ Changes(c)
  <2>1. UNCHANGED <<dealRows, hashRows, records, acked>>
    BY <1>1
  <2>2. Elsewhere(p)
    BY <1>4, <1>5, <2>1 DEF Elsewhere, GetPieceDeals
  <2>3. Shrunk(p)
    BY <2>1 DEF Shrunk, GetPieceDeals
  <2> QED
    BY <1>2, <1>3, <2>2, <2>3 DEF Changes, Removes
<1>8. AddRight(call[c], stream[c])' /\ (call[c].op \in Removes => RemoveRight(call[c]))'
  <2>1. ~stream[c].error
    BY <1>1, <1>2 DEF AddRight
  <2> QED
    BY <1>1, <1>6, <2>1, NoCallRight DEF AddRight, Removes
<1>9. MetadataRight(p)' /\ HashesRight(p)' /\ AckedRight(p)'
  <2>1. excuses[p] \subseteq excuses'[p]
    BY <1>5 DEF ExcusesGrow
  <2>2. MetadataRight(p)'
    <3> SUFFICES ASSUME ~Excused(p, {"overlap", "byHand", "scan"})'
                 PROVE  GetPieceDeals(p) = {} /\ records[p] = {}
      BY <1>1 DEF MetadataRight, GetPieceDeals
    <3>1. call[c].op = "removeDeal" /\ Safe(p) /\ "scan" \notin excuses[p]
      BY <1>2, <1>5 DEF Excused, Safe
    <3> QED
      BY <1>1, <1>2, <1>3, <3>1 DEF RemoveRight
  <2>3. \A x \in Callers, h \in Hashes : Awaited(call[x], h, p) => Awaited(call'[x], h, p)
    BY <1>2, <1>6 DEF Only, Awaited
  <2>4. HashesRight(p)'
    BY <1>1, <2>1, <2>3, TablesTyped DEF HashesRight, Excused, Awaited
  <2>5. AckedRight(p)'
    <3>1. Safe(p) => acked[p] = {}
      BY <1>1, <1>2, <1>3 DEF RemoveRight
    <3> QED
      BY <1>1, <2>1, <3>1 DEF AckedRight, Excused, Safe
  <2> QED
    BY <2>2, <2>4, <2>5
<1> QED
  BY <1>2, <1>3, <1>5, <1>6, <1>7, <1>8, <1>9, NoCallRight, Written DEF Removes

-----------------------------------------------------------------------------

LEMMA StartInv ==
  ASSUME IInv, Start
  PROVE  IInv'
<1>1. /\ UNCHANGED <<metadata, dealRows, hashRows, records, calls, acked>>
      /\ call' = [c \in Callers |-> NoCall] /\ stream' = [c \in Callers |-> NoStream]
      /\ excuses' = [p \in Pieces |-> IF Running(p, {"addIndex"}) THEN excuses[p] \cup {"cut"}
                                      ELSE excuses[p]]
  BY DEF Start, tables
<1>2. \A c \in Callers : /\ call'[c] = NoCall /\ Shape(call'[c]) /\ call'[c].op = "none"
                         /\ ~stream'[c].error
  BY <1>1, NoCallRight
<1>3. excuses' \in [Pieces -> SUBSET Excuses]
  BY <1>1, TablesTyped DEF Excuses
<1>4. \A p \in Pieces : /\ excuses[p] \subseteq excuses'[p]
                        /\ Running(p, {"addIndex"}) => "cut" \in excuses'[p]
  BY <1>1
<1>5. TypeOK'
  <2>1. \A c \in Callers : Cardinality(call'[c].hand) <= call'[c].threads
    BY <1>2 DEF Shape
  <2>2. faults' \in 0..MaxFaults
    BY BoundKept DEF Start
  <2>3. call' \in [Callers -> Call] /\ stream' \in [Callers -> Stream]
    BY <1>1, NoCallRight
  <2> QED
    BY <1>1, <1>3, <2>1, <2>2, <2>3 DEF IInv, TypeOK
<1>6. Exclusive' /\ \A c \in Callers : call'[c].op \notin Removes
  BY <1>2 DEF Exclusive, Adds, Removes
<1>7. \A c \in Callers : AddRight(call[c], stream[c])'
  BY <1>2 DEF AddRight
<1>8. ASSUME NEW p \in Pieces
      PROVE  (MetadataRight(p) /\ HashesRight(p) /\ AckedRight(p))'
  <2>1. MetadataRight(p)'
    <3>1. (\E c \in Callers : Indexing(call[c], p)) => "cut" \in excuses'[p]
      BY <1>4 DEF Indexing, Running
    <3> QED
      BY <1>1, <1>4, <3>1, TablesTyped DEF MetadataRight, Excused, GetPieceDeals
  <2>2. HashesRight(p)'
    <3>1. \A h \in Hashes :
            (\E c \in Callers : Awaited(call[c], h, p)) => "cut" \in excuses'[p]
      BY <1>4 DEF Awaited, Running
    <3> QED
      BY <1>1, <1>4, <3>1, TablesTyped DEF HashesRight, Excused
  <2>3. AckedRight(p)'
    BY <1>1, <1>4, TablesTyped DEF AckedRight, Excused
  <2> QED
    BY <2>1, <2>2, <2>3
<1> QED
  BY <1>2, <1>5, <1>6, <1>7, <1>8 DEF IInv

LEMMA InitInv == Init => IInv
<1> SUFFICES ASSUME Init PROVE IInv
  OBVIOUS
<1>1. \A c \in Callers : /\ call[c] = NoCall /\ Shape(call[c]) /\ call[c].op = "none"
                         /\ ~stream[c].error
  BY NoCallRight DEF Init
<1>2. TypeOK
  <2>1. \A c \in Callers : Cardinality(call[c].hand) <= call[c].threads
    BY <1>1 DEF Shape
  <2>2. call \in [Callers -> Call] /\ stream \in [Callers -> Stream]
    BY NoCallRight DEF Init
  <2> QED
    BY <2>1, <2>2 DEF Init, TypeOK
<1>3. Exclusive /\ \A c \in Callers : call[c].op \notin Removes
  BY <1>1 DEF Exclusive, Adds, Removes
<1>4. \A c \in Callers : AddRight(call[c], stream[c])
  BY <1>1 DEF AddRight
<1>5. \A p \in Pieces : MetadataRight(p) /\ HashesRight(p) /\ AckedRight(p)
  BY DEF Init, MetadataRight, HashesRight, AckedRight, GetPieceDeals
<1> QED
  BY <1>1, <1>2, <1>3, <1>4, <1>5 DEF IInv

LEMMA StepInv ==
  ASSUME IInv, NEW c \in Callers, Step(c)
  PROVE  IInv'
<1>1. CASE CreateMetadata(c)
  BY <1>1, CreateMetadataInv
<1>2. CASE InsertDeal(c)
  BY <1>2, InsertDealInv
<1>3. CASE \E h \in Hashes : addMultihashesToPieces(c, h) \/ addPieceInfos(c, h)
  BY <1>3, addMultihashesToPiecesInv, addPieceInfosInv
<1>4. CASE SetIndexedAt(c)
  BY <1>4, SetIndexedAtInv
<1>5. CASE CompleteProgress(c) \/ CompleteTimesOut(c)
  BY <1>5, CompleteInv
<1>6. CASE DeleteDeal(c)
  BY <1>6, DeleteDealInv
<1>7. CASE Remaining(c) \/ Known(c)
  BY <1>7, RemainingInv, KnownInv
<1>8. CASE Scan(c) \/ ScanKnown(c)
  BY <1>8, ScanInv, ScanKnownInv
<1>9. CASE \E h \in Hashes : DeleteHash(c, h) \/ DeleteRecord(c, h)
  BY <1>9, DeleteHashInv, DeleteRecordInv
<1>10. CASE ScanEnds(c) \/ Drained(c)
  BY <1>10, ScanEndsInv, DrainedInv
<1>11. CASE DeleteMetadata(c)
  BY <1>11, DeleteMetadataInv
<1> QED
  BY <1>1, <1>2, <1>3, <1>4, <1>5, <1>6, <1>7, <1>8, <1>9, <1>10, <1>11 DEF Step

LEMMA NextInv == IInv /\ [Next]_vars => IInv'
<1> SUFFICES ASSUME IInv, [Next]_vars PROVE IInv'
  OBVIOUS
<1>1. CASE Start
  BY <1>1, StartInv
<1>2. ASSUME NEW c \in Callers,
             AddDealForPiece(c) \/ AddIndex(c) \/ RemoveDealForPiece(c)
               \/ RemoveIndexes(c) \/ RemovePieceMetadata(c)
      PROVE  IInv'
  BY <1>2, AddDealForPieceInv, AddIndexInv, RemoveDealForPieceInv, BeginRemovalInv
<1>3. ASSUME NEW c \in Callers, Step(c)
      PROVE  IInv'
  BY <1>3, StepInv
<1>4. ASSUME NEW c \in Callers, Faulty(c) \/ ContextEnds(c)
      PROVE  IInv'
  BY <1>4, AddIndexFailsInv, CallFailsInv, ScanStuckInv, ScanFailsInv, ThreadFailsInv,
     ContextEndsInv DEF Faulty
<1>5. ASSUME NEW c \in Callers, ClientReceive(c) \/ ClientDone(c)
      PROVE  IInv'
  BY <1>5, ClientReceiveInv, ClientDoneInv
<1>6. CASE UNCHANGED vars
  <2>1. UNCHANGED <<metadata, dealRows, hashRows, records, call, stream, calls, faults,
                    acked, excuses>>
    BY <1>6 DEF vars, tables, bounds, history
  <2>2. TypeOK' /\ Exclusive'
    BY <2>1 DEF IInv, TypeOK, Exclusive, Safe
  <2>3. ASSUME NEW c \in Callers
        PROVE  /\ Shape(call[c])' /\ AddRight(call[c], stream[c])'
               /\ (call[c].op \in Removes => RemoveRight(call[c]))'
    <3>1. /\ Shape(call[c]) /\ AddRight(call[c], stream[c])
          /\ call[c].op \in Removes => RemoveRight(call[c])
      BY Typed
    <3>2. AddRight(call[c], stream[c])'
      BY <2>1, <3>1 DEF AddRight, Safe
    <3>3. (call[c].op \in Removes => RemoveRight(call[c]))'
      BY <2>1, <3>1 DEF RemoveRight, Safe, GetPieceDeals
    <3> QED
      BY <2>1, <3>1, <3>2, <3>3
  <2>4. ASSUME NEW p \in Pieces
        PROVE  (MetadataRight(p) /\ HashesRight(p) /\ AckedRight(p))'
    BY <2>1, TablesTyped DEF MetadataRight, HashesRight, AckedRight, Excused, GetPieceDeals
  <2> QED
    BY <2>2, <2>3, <2>4 DEF IInv
<1> QED
  BY <1>1, <1>2, <1>3, <1>4, <1>5, <1>6 DEF Next

THEOREM Invariance == Spec => []IInv
<1>1. Init => IInv
  BY InitInv
<1>2. IInv /\ [Next]_vars => IInv'
  BY NextInv
<1> QED
  BY <1>1, <1>2, PTL DEF Spec

\* Whatever statements of the calls interleave and fail, the variables have their types,
\* and the threads of RemoveIndexes hold no more rows than there are threads left
\* (service.go 877-942).
THEOREM TypeCorrect == Spec => []TypeOK
<1>1. IInv => TypeOK
  BY DEF IInv
<1> QED
  BY <1>1, Invariance, PTL

\* For any number of callers and deals, RemoveDealForPiece takes the metadata of a piece
\* away only after its deals and its records (service.go 805-848), and AddDealForPiece and
\* AddIndex put it there before the deal and before they end: a piece that ListPieces does
\* not give has nothing left that only a further removal could take away.
THEOREM MetadataKept == Spec => []MetadataOutlives
<1>1. IInv => MetadataOutlives
  <2> SUFFICES ASSUME IInv, NEW p \in Pieces, metadata[p] = None,
                      ~Excused(p, {"overlap", "byHand", "scan"})
               PROVE  /\ GetPieceDeals(p) = {}
                      /\ records[p] # {} => Excused(p, {"cut"}) \/ Running(p, {"addIndex"})
    BY DEF MetadataOutlives, ListPieces, GetIndex
  <2>1. /\ GetPieceDeals(p) = {}
        /\ records[p] = {} \/ "cut" \in excuses[p] \/ \E c \in Callers : Indexing(call[c], p)
    BY TablesTyped DEF MetadataRight
  <2> QED
    BY <2>1 DEF Excused, Running, Indexing
<1> QED
  BY <1>1, Invariance, PTL

\* For any number of threads, whichever of them fails and however RemoveIndexes and other
\* removals of the same piece interleave, a multihash row that stays has its record, through
\* which a later removal finds it (service.go 913-922).
THEOREM HashesFound == Spec => []HashesReachable
<1>1. IInv => HashesReachable
  <2> SUFFICES ASSUME IInv, NEW p \in Pieces, ~Excused(p, {"overlap", "cut"}),
                      ~Running(p, {"addIndex"}), NEW h \in Hashes, <<h, p>> \in hashRows
               PROVE  h \in records[p]
    BY DEF HashesReachable, PiecesContainingMultihash, GetOffsetSize
  <2>1. \A c \in Callers : ~Awaited(call[c], h, p)
    BY DEF Running, Awaited
  <2> QED
    BY <2>1, TablesTyped DEF HashesRight
<1> QED
  BY <1>1, Invariance, PTL

\* However many calls run at once on a piece, an index that AddIndex has acknowledged
\* (service.go 435-543) keeps its records, its multihash rows and IndexedAt until somebody
\* asks for their removal; a RemoveDealForPiece of another deal does not touch them.
THEOREM AckedKept == Spec => []AckedIndexKept
<1>1. IInv => AckedIndexKept
  <2> SUFFICES ASSUME IInv, NEW p \in Pieces, ~Excused(p, {"overlap", "dropped"}),
                      NEW h \in acked[p]
               PROVE  /\ GetOffsetSize(p)[h] /\ p \in PiecesContainingMultihash(h)
                      /\ IsIndexed(p)
    BY DEF AckedIndexKept
  <2>1. /\ h \in Hashes /\ h \in records[p] /\ <<h, p>> \in hashRows
        /\ metadata[p] # None /\ metadata[p].indexed
    BY TablesTyped DEF AckedRight
  <2> QED
    BY <2>1 DEF GetOffsetSize, PiecesContainingMultihash, IsIndexed, IndexedAt, getPieceMetadata
<1> QED
  BY <1>1, Invariance, PTL
=============================================================================
