--------------------------- MODULE RetrievalProofs ---------------------------
(***************************************************************************)
(* Theorems about Retrieval, for any number of callers, pieces, blocks,    *)
(* deals and sectors, any number of failures and changes around the calls, *)
(* and any sharing of locks among sectors.                                 *)
(*                                                                         *)
(* A call that fails had no deal that could have served it all along.  Two *)
(* things can stand between a call and such a deal: its own way to the     *)
(* deal (OnWay), and the call of somebody else that fills the shared       *)
(* reader the call waits for (KeptUntried, KeptUnspoiled).                 *)
(*                                                                         *)
(* The second half is about what a call returns (ReturnsRight), for which  *)
(* ReadAt is shown to read the concatenation of its parts, whatever their  *)
(* sizes.                                                                  *)
(***************************************************************************)
EXTENDS Retrieval, SequenceTheorems, TLAPS

InCall(k) == k.pc \in PCs

\* A call that fills the shared reader of its piece.
Filling(k) == k.pc \in TryPCs /\ k.op = "get"

Calls == {NoCall} \cup Returned \cup Call

Typed ==
  /\ located \subseteq Blocks \X Pieces
  /\ records \in [Pieces -> [Blocks -> Record \cup {None}]]
  /\ unsealed \subseteq Deals
  /\ cache \in [Sectors -> BOOLEAN \cup {None}]
  /\ lock \in [Stripes -> Callers \cup {None}]
  /\ shared \in [Pieces -> {None, "filling", "ok", "err"}]
  /\ call \in [Callers -> Calls]

\* What a call has at each place.
Shape(k) ==
  InCall(k) =>
    /\ k.op = "get" => k.pc \in {"list", "piece", "shared", "wait", "offset", "read"} \cup TryPCs
    /\ k.op = "size" => k.pc \in {"list", "piece", "size", "complete", "build", "sizeAgain"}
    /\ k.op = "view" => k.pc \in {"index", "layout"} \cup TryPCs /\ k.pieces = {}
    /\ k.op # "view" => k.block \in Blocks
    /\ k.pc \notin {"list", "piece"} => k.piece \in Pieces
    /\ k.pc = "shared" => k.deals = DealsOf(k.piece)
    /\ k.pc \in TryPCs => k.deals \subseteq DealsOf(k.piece)
    /\ k.pc \in DealPCs => k.deal \in DealsOf(k.piece)
    /\ k.pc = "read" => k.at \in Blocks

Shaped == \A c \in Callers : Shape(call[c])

\* A lock is held by the one who asks for the state of a sector of its stripe.
Locks ==
  \A c \in Callers, t \in Stripes : lock[t] = c <=> At(c, "ask") /\ StripeOf[Sector(c)] = t

\* A shared reader is being filled by one call at most, and nothing else happens to it.
Fills ==
  /\ \A c \in Callers : Filling(call[c]) => shared[call[c].piece] = "filling"
  /\ \A c, e \in Callers :
       Filling(call[c]) /\ Filling(call[e]) /\ call[c].piece = call[e].piece => c = e

CallsRight == Typed /\ Shaped /\ Locks /\ Fills

\* The deal is still to be tried, or being tried.
Untried(k, d) == d \in k.deals \/ (k.deal = d /\ k.pc \in DealPCs)

\* Where a call is on its way to deal d, which can serve it.
OnWay(k, d) ==
  /\ k.op # "view" /\ k.pc # "list" => PieceOf[d] \in k.pieces \cup {k.piece}
  /\ k.pc = "piece" => PieceOf[d] \in k.pieces
  /\ k.pc = "read" /\ PieceOf[d] = k.piece => k.at = k.block
  /\ k.pc = "complete" /\ PieceOf[d] = k.piece => k.piece \in Complete
  /\ k.pc \in {"build", "sizeAgain"} => PieceOf[d] # k.piece

KeptServe ==
  \A b \in Callers : InCall(call[b]) =>
    \A d \in kept[b] : Serves(call[b], d) /\ OnWay(call[b], d)

\* b gets its reader from what c does, or may.
WaitsFor(b, c) == b = c \/ (call[b].op = "get" /\ call[c].op = "get")

KeptUntried ==
  \A b, c \in Callers :
    InCall(call[b]) /\ call[c].pc \in TryPCs /\ WaitsFor(b, c) =>
      \A d \in kept[b] : PieceOf[d] = call[c].piece => Untried(call[c], d)

KeptUnspoiled ==
  \A b \in Callers : InCall(call[b]) /\ call[b].op = "get" =>
    \A d \in kept[b] : shared[PieceOf[d]] # "err"

KeptRight ==
  /\ kept \in [Callers -> SUBSET Deals]
  /\ KeptServe
  /\ KeptUntried
  /\ KeptUnspoiled
  /\ ServedIfPossible

IInv == CallsRight /\ KeptRight

-----------------------------------------------------------------------------
(* How a call changes. *)

Becomes(c, m) == m \in Calls /\ call' = [call EXCEPT ![c] = m]

\* c is still in its call, at m.
Moves(c, m) ==
  /\ m \in Call
  /\ Becomes(c, m)
  /\ m.op = call[c].op /\ m.block = call[c].block

\* Nothing but the place changes.
Stays(c, m) ==
  /\ Moves(c, m)
  /\ m.pieces = call[c].pieces /\ m.piece = call[c].piece /\ m.at = call[c].at
  /\ m.deals = call[c].deals /\ m.deal = call[c].deal

Ends(c, m, result) ==
  /\ m \in Returned
  /\ Becomes(c, m)
  /\ m.op = call[c].op /\ m.block = call[c].block /\ m.piece = call[c].piece
  /\ m.result = result

LEMMA CallFields ==
  ASSUME Typed, NEW c \in Callers, InCall(call[c])
  PROVE  /\ call[c] \in Call /\ call[c].pc \in PCs /\ call[c].op \in Ops
         /\ call[c].block \in Blocks \cup {None} /\ call[c].pieces \in SUBSET Pieces
         /\ call[c].piece \in Pieces \cup {None} /\ call[c].deals \in SUBSET Deals
         /\ call[c].deal \in Deals \cup {None} /\ call[c].at \in Blocks \cup {None}
<1>1. call[c] \in Call
  BY DEF Typed, Calls, InCall, Returned, NoCall, PCs
<1> QED
  BY <1>1 DEF Call

LEMMA Shapes ==
  ASSUME CallsRight, NEW c \in Callers
  PROVE  Shape(call[c])
BY DEF CallsRight, Shaped

LEMMA GoesTo ==
  ASSUME Typed, NEW c \in Callers, InCall(call[c]), NEW pc \in PCs, Goto(c, pc)
  PROVE  \E m \in Call : m.pc = pc /\ Stays(c, m)
<1> DEFINE m == [call[c] EXCEPT !.pc = pc]
<1>1. m \in Call /\ m.pc = pc
  BY CallFields DEF Call
<1>2. call' = [call EXCEPT ![c] = m]
  BY DEF Goto
<1>3. /\ m.op = call[c].op /\ m.block = call[c].block /\ m.pieces = call[c].pieces
      /\ m.piece = call[c].piece /\ m.at = call[c].at
      /\ m.deals = call[c].deals /\ m.deal = call[c].deal
  BY CallFields DEF Call
<1> HIDE DEF m
<1> QED
  BY <1>1, <1>2, <1>3 DEF Stays, Moves, Becomes, Calls

LEMMA EndsWith ==
  ASSUME Typed, NEW c \in Callers, InCall(call[c]), NEW result \in Result, Return(c, result)
  PROVE  \E m \in Returned : Ends(c, m, result)
<1> DEFINE k == call[c]
           m == [pc |-> "returned", op |-> k.op, block |-> k.block, piece |-> k.piece,
                 result |-> result]
<1>1. m \in Returned
  BY CallFields DEF Returned
<1>2. call' = [call EXCEPT ![c] = m]
  BY DEF Return
<1>3. m.op = k.op /\ m.block = k.block /\ m.piece = k.piece /\ m.result = result
  OBVIOUS
<1> HIDE DEF m
<1> QED
  BY <1>1, <1>2, <1>3 DEF Ends, Becomes, Calls

LEMMA PieceFailsTo ==
  ASSUME Typed, NEW c \in Callers, InCall(call[c]), PieceFails(c)
  PROVE  \/ call[c].pieces = {} /\ \E m \in Returned : Ends(c, m, Failed)
         \/ call[c].pieces # {} /\ \E m \in Call : m.pc = "piece" /\ Stays(c, m)
<1>1. Failed \in Result /\ "piece" \in PCs
  BY DEF Result, PCs
<1> QED
  BY <1>1, EndsWith, GoesTo DEF PieceFails

-----------------------------------------------------------------------------
(* Steps and the first half of the invariant. *)

LEMMA CallMoved ==
  ASSUME CallsRight, Typed', NEW c \in Callers, NEW m \in Calls, Becomes(c, m), Shape(m),
         \A e \in Callers \ {c}, t \in Stripes : lock'[t] = e <=> lock[t] = e,
         \A t \in Stripes : lock'[t] = c <=> m.pc = "ask" /\ StripeOf[SectorOf[m.deal]] = t,
         Filling(m) => shared'[m.piece] = "filling",
         \A p \in Pieces : shared[p] = "filling" /\ shared'[p] # "filling" =>
                             Filling(call[c]) /\ call[c].piece = p,
         Filling(m) => \/ Filling(call[c]) /\ m.piece = call[c].piece
                       \/ shared[m.piece] # "filling"
  PROVE  CallsRight'
<1>1. call'[c] = m /\ \A e \in Callers \ {c} : call'[e] = call[e]
  BY DEF Becomes, CallsRight, Typed
<1>2. Shaped'
  BY <1>1 DEF CallsRight, Shaped
<1>3. Locks'
  BY <1>1 DEF CallsRight, Locks, At, Sector
<1>4. \A e \in Callers : Filling(call[e]) => call[e].piece \in Pieces
  BY Shapes DEF Filling, Shape, InCall, PCs, TryPCs, DealPCs
<1>5. Fills'
  <2>1. ASSUME NEW e \in Callers \ {c}, Filling(call[e])
        PROVE  shared[call[e].piece] = "filling" /\ shared'[call[e].piece] = "filling"
    BY <1>4, <2>1 DEF CallsRight, Fills
  <2>2. ASSUME NEW e \in Callers \ {c}, Filling(call[e]), Filling(m), m.piece = call[e].piece
        PROVE  FALSE
    BY <2>1, <2>2 DEF CallsRight, Fills
  <2> QED
    BY <1>1, <2>1, <2>2 DEF CallsRight, Fills
<1> QED
  BY <1>2, <1>3, <1>5 DEF CallsRight

\* A step that takes and releases no lock and leaves the readers alone.
LEMMA CallMovedOnly ==
  ASSUME CallsRight, NEW c \in Callers, NEW m \in Calls, Becomes(c, m), Shape(m),
         UNCHANGED <<tables, sectors, lock, shared>>,
         call[c].pc # "ask", m.pc # "ask",
         Filling(m) => Filling(call[c]) /\ m.piece = call[c].piece
  PROVE  CallsRight'
<1>1. Typed'
  BY DEF CallsRight, Typed, Becomes, tables, sectors
<1>2. \A t \in Stripes : lock'[t] # c
  BY DEF CallsRight, Locks, At
<1>3. Filling(m) => shared'[m.piece] = "filling"
  BY DEF CallsRight, Fills
<1> QED
  BY <1>1, <1>2, <1>3, CallMoved

-----------------------------------------------------------------------------
(* Steps and the deals kept. *)

LEMMA KeptTyped ==
  ASSUME KeptRight, NEW P, Keep(P)
  PROVE  kept' \in [Callers -> SUBSET Deals]
BY DEF KeptRight, Keep

\* What a deal still kept for b says of b's call before the step.
LEMMA KeptBefore ==
  ASSUME IInv, NEW P, Keep(P), NEW b \in Callers, InCall(call[b]), call'[b].pc # "idle",
         NEW d \in kept'[b]
  PROVE  /\ d \in Deals /\ d \in kept[b] /\ PieceOf[d] \in Pieces /\ <<b, PieceOf[d]>> \notin P
         /\ Serves(call[b], d) /\ OnWay(call[b], d)
<1>1. ~At(b, "idle") /\ ~At(b, "returned")
  BY DEF InCall, At, PCs
<1>2. d \in kept[b] /\ <<b, PieceOf[d]>> \notin P
  BY <1>1 DEF Keep
<1> QED
  BY <1>2, RetrievalAssumption DEF IInv, KeptRight, KeptServe

LEMMA KeptAfter ==
  ASSUME NEW P, Keep(P), NEW b \in Callers, call'[b].pc # "idle", ~At(b, "returned"),
         NEW d \in kept'[b]
  PROVE  Serves(call[b], d)'
BY DEF Keep

LEMMA KeptMoved ==
  ASSUME IInv, NEW P, Keep(P), NEW c \in Callers, NEW m \in Calls, Becomes(c, m),
         InCall(call[c]) \/ m = NoCall,
         InCall(m) => m.op = call[c].op /\ \A d \in kept'[c] : OnWay(m, d),
         m.pc = "returned" /\ m.result = Failed => kept'[c] = {},
         \A b \in Callers : InCall(call'[b]) /\ m.pc \in TryPCs
                            /\ (b = c \/ (call[b].op = "get" /\ m.op = "get")) =>
           \A d \in kept'[b] : PieceOf[d] = m.piece => Untried(m, d),
         \A b \in Callers : InCall(call[b]) /\ InCall(call'[b]) /\ call[b].op = "get" =>
           \A d \in kept'[b] : shared'[PieceOf[d]] # "err"
  PROVE  KeptRight'
<1>1. call'[c] = m /\ \A e \in Callers \ {c} : call'[e] = call[e]
  BY DEF Becomes, IInv, CallsRight, Typed
<1>2. \A b \in Callers : InCall(call'[b]) =>
        /\ InCall(call[b]) /\ call'[b].op = call[b].op
        /\ call'[b].pc # "idle" /\ ~At(b, "returned")
  BY <1>1 DEF InCall, NoCall, PCs, At
<1>3. KeptServe'
  <2>1. ASSUME NEW b \in Callers, InCall(call'[b]), NEW d \in kept'[b]
        PROVE  Serves(call[b], d)' /\ OnWay(call'[b], d)
    <3>1. Serves(call[b], d)'
      BY <1>2, <2>1, KeptAfter
    <3>2. CASE b = c
      BY <1>1, <2>1, <3>1, <3>2
    <3>3. CASE b # c
      BY <1>1, <1>2, <2>1, <3>1, <3>3, KeptBefore
    <3> QED
      BY <3>2, <3>3
  <2> QED
    BY <2>1 DEF KeptServe
<1>4. KeptUntried'
  <2>1. ASSUME NEW b \in Callers, NEW e \in Callers, InCall(call'[b]), call'[e].pc \in TryPCs,
               WaitsFor(b, e)', NEW d \in kept'[b], PieceOf[d] = call'[e].piece
        PROVE  Untried(call'[e], d)
    <3>1. InCall(call[b]) /\ call'[b].op = call[b].op /\ d \in kept[b]
      BY <1>2, <2>1, KeptBefore
    <3>2. CASE e = c
      BY <1>1, <2>1, <3>1, <3>2 DEF WaitsFor
    <3>3. CASE e # c
      BY <1>1, <2>1, <3>1, <3>3 DEF WaitsFor, IInv, KeptRight, KeptUntried
    <3> QED
      BY <3>2, <3>3
  <2> QED
    BY <2>1 DEF KeptUntried
<1>5. KeptUnspoiled'
  BY <1>2 DEF KeptUnspoiled
<1>6. ServedIfPossible'
  <2>1. ASSUME NEW b \in Callers, At(b, "returned")', call'[b].result = Failed
        PROVE  kept'[b] = {}
    <3>1. CASE b = c
      BY <1>1, <2>1, <3>1 DEF At
    <3>2. CASE b # c
      BY <1>1, <2>1, <3>2 DEF At, IInv, KeptRight, ServedIfPossible, Keep
    <3> QED
      BY <3>1, <3>2
  <2> QED
    BY <2>1 DEF ServedIfPossible
<1> QED
  BY <1>3, <1>4, <1>5, <1>6, KeptTyped DEF KeptRight, IInv

\* The readers of the deals that others keep are as they were.
LEMMA StillUnspoiled ==
  ASSUME IInv, NEW P, Keep(P), UNCHANGED shared
  PROVE  \A b \in Callers : InCall(call[b]) /\ InCall(call'[b]) /\ call[b].op = "get" =>
           \A d \in kept'[b] : shared'[PieceOf[d]] # "err"
<1>1. ASSUME NEW b \in Callers, InCall(call[b]), InCall(call'[b]), call[b].op = "get",
             NEW d \in kept'[b]
      PROVE  shared'[PieceOf[d]] # "err"
  <2>1. d \in kept[b]
    BY <1>1, KeptBefore DEF InCall, PCs
  <2> QED
    BY <1>1, <2>1 DEF IInv, KeptRight, KeptUnspoiled
<1> QED
  BY <1>1

\* A step that makes nobody else wait and leaves the readers alone.
LEMMA KeptOnward ==
  ASSUME IInv, NEW P, Keep(P), NEW c \in Callers, InCall(call[c]), UNCHANGED shared,
         NEW m \in Call, Moves(c, m), m.pc \notin TryPCs,
         \A d \in kept'[c] : OnWay(m, d)
  PROVE  KeptRight'
<1>1. m \in Calls /\ Becomes(c, m) /\ m.op = call[c].op /\ m.pc \in PCs
  BY DEF Moves, Calls, Call
<1>2. \A b \in Callers : InCall(call[b]) /\ InCall(call'[b]) /\ call[b].op = "get" =>
        \A d \in kept'[b] : shared'[PieceOf[d]] # "err"
  BY StillUnspoiled
<1>3. m.pc # "returned"
  BY <1>1 DEF PCs
<1> QED
  BY <1>1, <1>2, <1>3, KeptMoved

\* A call returns.
LEMMA KeptAtEnd ==
  ASSUME IInv, NEW P, Keep(P), NEW c \in Callers, InCall(call[c]), UNCHANGED shared,
         NEW m \in Returned, NEW result, Ends(c, m, result),
         result = Failed => kept'[c] = {}
  PROVE  KeptRight'
<1>1. m \in Calls /\ Becomes(c, m) /\ m.result = result /\ m.pc = "returned"
  BY DEF Ends, Calls, Returned
<1>2. \A b \in Callers : InCall(call[b]) /\ InCall(call'[b]) /\ call[b].op = "get" =>
        \A d \in kept'[b] : shared'[PieceOf[d]] # "err"
  BY StillUnspoiled
<1>3. ~InCall(m) /\ m.pc \notin TryPCs
  BY <1>1 DEF InCall, PCs, TryPCs, DealPCs
<1> QED
  BY <1>1, <1>2, <1>3, KeptMoved

\* The call ends with something else than a failure.
LEMMA EndInv ==
  ASSUME IInv, NEW P, Keep(P), NEW c \in Callers, InCall(call[c]), call[c].pc # "ask",
         UNCHANGED <<tables, sectors, lock, shared>>,
         NEW result \in Result, Return(c, result), result = Failed => kept'[c] = {}
  PROVE  IInv'
<1>1. PICK m \in Returned : Ends(c, m, result)
  BY EndsWith DEF IInv, CallsRight
<1>2. m \in Calls /\ Becomes(c, m) /\ m.pc = "returned"
  BY <1>1 DEF Ends, Calls, Returned
<1>3. Shape(m) /\ ~Filling(m)
  BY <1>2 DEF Shape, InCall, PCs, Filling, TryPCs, DealPCs
<1>4. CallsRight'
  BY <1>2, <1>3, CallMovedOnly DEF IInv
<1>5. KeptRight'
  BY <1>1, KeptAtEnd
<1> QED
  BY <1>4, <1>5 DEF IInv

\* A step outside of the search for a reader.
LEMMA OnwardInv ==
  ASSUME IInv, NEW P, Keep(P), NEW c \in Callers, InCall(call[c]), call[c].pc # "ask",
         UNCHANGED <<tables, sectors, lock, shared>>,
         NEW m \in Call, Moves(c, m), Shape(m), m.pc \notin TryPCs,
         \A d \in kept'[c] : OnWay(m, d)
  PROVE  IInv'
<1>1. m \in Calls /\ Becomes(c, m)
  BY DEF Moves, Calls
<1>2. ~Filling(m) /\ m.pc # "ask"
  BY DEF Filling, TryPCs, DealPCs
<1>3. CallsRight'
  BY <1>1, <1>2, CallMovedOnly DEF IInv
<1> QED
  BY <1>3, KeptOnward DEF IInv

\* The piece fails, and none of the deals that are kept is of this piece.
LEMMA PieceFailsInv ==
  ASSUME IInv, NEW P, Keep(P), NEW c \in Callers, InCall(call[c]), PieceFails(c),
         call[c].pc \notin {"list", "piece", "ask"}, UNCHANGED <<tables, sectors, lock>>,
         shared' \in [Pieces -> {None, "filling", "ok", "err"}],
         \A p \in Pieces : shared[p] = "filling" /\ shared'[p] # "filling" =>
                             Filling(call[c]) /\ call[c].piece = p,
         call'[c].pc # "idle" => \A d \in kept'[c] : PieceOf[d] # call[c].piece,
         \A b \in Callers : InCall(call[b]) /\ InCall(call'[b]) /\ call[b].op = "get" =>
           \A d \in kept'[b] : shared'[PieceOf[d]] # "err"
  PROVE  IInv'
<1>1. PICK m \in Calls :
        /\ Becomes(c, m)
        /\ \/ m.pc = "returned" /\ call[c].pieces = {}
           \/ m.pc = "piece" /\ call[c].pieces # {} /\ Stays(c, m)
  <2>1. CASE call[c].pieces = {} /\ \E m \in Returned : Ends(c, m, Failed)
    BY <2>1 DEF Ends, Becomes, Returned
  <2>2. CASE call[c].pieces # {} /\ \E m \in Call : m.pc = "piece" /\ Stays(c, m)
    BY <2>2 DEF Stays, Moves, Becomes
  <2> QED
    BY <2>1, <2>2, PieceFailsTo DEF IInv, CallsRight
<1>2. call'[c] = m /\ m.pc # "idle"
  BY <1>1 DEF Becomes, IInv, CallsRight, Typed
<1>3. \A d \in kept'[c] : PieceOf[d] \in call[c].pieces
  <2>1. ASSUME NEW d \in kept'[c] PROVE PieceOf[d] \in call[c].pieces
    <3>1. PieceOf[d] # call[c].piece /\ Serves(call[c], d) /\ OnWay(call[c], d)
      BY <1>2, KeptBefore
    <3>2. call[c].op # "view"
      BY <3>1 DEF Serves
    <3> QED
      BY <3>1, <3>2 DEF OnWay
  <2> QED
    BY <2>1
<1>4. Typed'
  BY <1>1 DEF IInv, CallsRight, Typed, Becomes, tables, sectors
<1>5. CallsRight'
  <2>1. Shape(m) /\ ~Filling(m) /\ m.pc # "ask"
    <3>1. Shape(call[c])
      BY Shapes DEF IInv
    <3>2. m.pc = "piece" => m \in Call
      BY <1>1 DEF Stays, Moves
    <3> QED
      BY <1>1, <3>1, <3>2 DEF Shape, InCall, PCs, Filling, TryPCs, DealPCs, Stays, Moves
  <2>2. \A t \in Stripes : lock'[t] # c
    BY DEF IInv, CallsRight, Locks, At
  <2> QED
    BY <1>1, <1>4, <2>1, <2>2, CallMoved DEF IInv
<1>6. KeptRight'
  <2>1. InCall(m) => m.op = call[c].op /\ \A d \in kept'[c] : OnWay(m, d)
    BY <1>1, <1>3 DEF InCall, PCs, Stays, Moves, OnWay
  <2>2. m.pc = "returned" /\ m.result = Failed => kept'[c] = {}
    BY <1>1, <1>3
  <2>3. m.pc \notin TryPCs
    BY <1>1 DEF TryPCs, DealPCs
  <2> QED
    BY <1>1, <2>1, <2>2, <2>3, KeptMoved
<1> QED
  BY <1>5, <1>6 DEF IInv

\* The usual case: the readers stay.
LEMMA PieceFailsQuietly ==
  ASSUME IInv, NEW P, Keep(P), NEW c \in Callers, InCall(call[c]), PieceFails(c),
         call[c].pc \notin {"list", "piece", "ask"},
         UNCHANGED <<tables, sectors, lock, shared>>,
         call'[c].pc # "idle" => \A d \in kept'[c] : PieceOf[d] # call[c].piece
  PROVE  IInv'
<1>1. \A b \in Callers : InCall(call[b]) /\ InCall(call'[b]) /\ call[b].op = "get" =>
        \A d \in kept'[b] : shared'[PieceOf[d]] # "err"
  BY StillUnspoiled
<1>2. shared' \in [Pieces -> {None, "filling", "ok", "err"}]
  BY DEF IInv, CallsRight, Typed
<1> QED
  BY <1>1, <1>2, PieceFailsInv

-----------------------------------------------------------------------------
(* A call begins, chooses its pieces, and is done.                         *)

LEMMA BeginInv ==
  ASSUME IInv, NEW P, Keep(P), NEW c \in Callers, NEW op \in Ops, NEW b \in Blocks \cup {None},
         NEW p \in Pieces \cup {None}, NEW pc \in {"list", "deals"}, Begin(c, op, b, p, pc),
         op = "view" => pc = "deals" /\ p \in Pieces,
         op # "view" => pc = "list" /\ b \in Blocks
  PROVE  IInv'
<1> DEFINE m == [pc |-> pc, op |-> op, block |-> b, pieces |-> {}, piece |-> p,
                 deals |-> {d \in Deals : PieceOf[d] = p}, deal |-> None, at |-> None]
<1>1. m \in Call
  BY DEF Call, PCs
<1>2. /\ m.pc = pc /\ m.op = op /\ m.block = b /\ m.pieces = {} /\ m.piece = p
      /\ m.deals = {d \in Deals : PieceOf[d] = p}
  OBVIOUS
<1>3. call' = [call EXCEPT ![c] = m] /\ At(c, "idle")
      /\ UNCHANGED <<tables, sectors, lock, shared>>
  BY DEF Begin
<1> HIDE DEF m
<1>4. m \in Calls /\ Becomes(c, m)
  BY <1>1, <1>3 DEF Calls, Becomes
<1>5. Shape(m) /\ ~Filling(m) /\ m.pc # "ask" /\ InCall(m)
  BY <1>2 DEF Shape, InCall, PCs, Filling, TryPCs, DealPCs, DealsOf, Ops
<1>6. CallsRight'
  BY <1>3, <1>4, <1>5, CallMovedOnly DEF IInv, At
<1>7. call'[c] = m /\ \A e \in Callers \ {c} : call'[e] = call[e]
  BY <1>3 DEF IInv, CallsRight, Typed
<1>8. ASSUME NEW d \in kept'[c]
      PROVE  d \in Deals /\ Serves(m, d)' /\ shared[PieceOf[d]] \in {None, "ok"}
  BY <1>3, <1>5, <1>7, <1>8 DEF Keep, At, InCall, PCs
<1>9. \A e \in Callers \ {c} : InCall(call[e]) =>
        \A d \in kept'[e] : d \in kept[e] /\ Serves(call[e], d)'
  <2>1. ASSUME NEW e \in Callers \ {c}, InCall(call[e]), NEW d \in kept'[e]
        PROVE  d \in kept[e] /\ Serves(call[e], d)'
    <3>1. call'[e].pc # "idle" /\ ~At(e, "returned")
      BY <1>7, <2>1 DEF InCall, PCs, At
    <3> QED
      BY <2>1, <3>1, KeptBefore, KeptAfter
  <2> QED
    BY <2>1
<1>10. KeptServe'
  <2>1. \A d \in kept'[c] : OnWay(m, d)
    BY <1>2 DEF OnWay
  <2>2. \A d \in kept'[c] : Serves(call[c], d)'
    <3>1. call'[c].pc # "idle" /\ ~At(c, "returned")
      BY <1>3, <1>5, <1>7 DEF At, InCall, PCs
    <3> QED
      BY <3>1, KeptAfter
  <2> QED
    BY <1>7, <1>9, <2>1, <2>2 DEF KeptServe, IInv, KeptRight
<1>11. KeptUntried'
  <2>1. ASSUME NEW e \in Callers, InCall(call'[e]), m.pc \in TryPCs, WaitsFor(e, c)',
               NEW d \in kept'[e], PieceOf[d] = m.piece
        PROVE  Untried(m, d)
    <3>1. m.op = "view" /\ e = c
      BY <1>2, <1>7, <2>1 DEF WaitsFor, TryPCs, DealPCs
    <3> QED
      BY <1>2, <1>8, <2>1, <3>1 DEF Untried
  <2>2. ASSUME NEW e \in Callers \ {c}, call[e].pc \in TryPCs, WaitsFor(c, e)',
               NEW d \in kept'[c], PieceOf[d] = call[e].piece
        PROVE  FALSE
    <3>1. Filling(call[e])
      BY <1>7, <2>2 DEF Filling, WaitsFor
    <3>2. shared[PieceOf[d]] = "filling"
      BY <2>2, <3>1 DEF IInv, CallsRight, Fills
    <3> QED
      BY <1>8, <3>2, RetrievalAssumption
  <2>3. ASSUME NEW e \in Callers \ {c}, NEW f \in Callers \ {c}, InCall(call[e]),
               call[f].pc \in TryPCs, WaitsFor(e, f)', NEW d \in kept'[e],
               PieceOf[d] = call[f].piece
        PROVE  Untried(call[f], d)
    BY <1>7, <1>9, <2>3 DEF WaitsFor, IInv, KeptRight, KeptUntried
  <2> QED
    BY <1>7, <2>1, <2>2, <2>3 DEF KeptUntried
<1>12. KeptUnspoiled'
  BY <1>3, <1>7, <1>8, <1>9, RetrievalAssumption DEF KeptUnspoiled, IInv, KeptRight
<1>13. ServedIfPossible'
  BY <1>5, <1>7 DEF ServedIfPossible, IInv, KeptRight, At, InCall, PCs, Keep
<1> QED
  BY <1>6, <1>10, <1>11, <1>12, <1>13, KeptTyped DEF IInv, KeptRight

LEMMA DoneInv ==
  ASSUME IInv, NEW P, Keep(P), NEW c \in Callers, Done(c)
  PROVE  IInv'
<1>1. call' = [call EXCEPT ![c] = NoCall] /\ UNCHANGED <<tables, sectors, lock, shared>>
      /\ call[c].pc = "returned"
  BY DEF Done, CallOnly, At
<1>2. NoCall \in Calls /\ Becomes(c, NoCall) /\ NoCall.pc = "idle"
  BY <1>1 DEF Becomes, Calls, NoCall
<1>3. ~InCall(NoCall) /\ Shape(NoCall) /\ ~Filling(NoCall) /\ NoCall.pc \notin TryPCs
  BY <1>2 DEF Shape, InCall, PCs, Filling, TryPCs, DealPCs
<1>4. CallsRight'
  BY <1>1, <1>2, <1>3, CallMovedOnly DEF IInv
<1>5. \A b \in Callers : InCall(call[b]) /\ InCall(call'[b]) /\ call[b].op = "get" =>
        \A d \in kept'[b] : shared'[PieceOf[d]] # "err"
  BY <1>1, StillUnspoiled
<1>6. KeptRight'
  BY <1>2, <1>3, <1>5, KeptMoved
<1> QED
  BY <1>4, <1>6 DEF IInv

LEMMA ListFailsTo ==
  ASSUME NEW c \in Callers, call[c].block \in Blocks, ListFails(c)
  PROVE  \E result \in Result :
           Return(c, result) /\ (result.kind = "block" => result.block = call[c].block)
                             /\ result.kind # "store"
<1> DEFINE b == call[c].block
<1>1. PICK r : r = IF b \in Identity /\ call[c].op = "get"
                   THEN [kind |-> "block", block |-> b] ELSE Failed
  OBVIOUS
<1>2. r \in Result /\ (r.kind = "block" => r.block = b) /\ r.kind # "store"
  BY <1>1 DEF Result, Failed
<1>3. Return(c, r)
  BY <1>1 DEF ListFails
<1> QED
  BY <1>2, <1>3

\* A piece that can serve is in the multihash table.
LEMMA ListInv ==
  ASSUME IInv, NEW P, Keep(P), NEW c \in Callers, PiecesContainingMultihash(c)
  PROVE  IInv'
<1> DEFINE b == call[c].block
           L == {p \in Pieces : <<b, p>> \in located}
<1>1. At(c, "list") /\ UNCHANGED <<tables, sectors, lock, shared>>
  BY DEF PiecesContainingMultihash, CallOnly
<1>2. InCall(call[c]) /\ Shape(call[c]) /\ call[c] \in Call
  BY <1>1, Shapes, CallFields DEF InCall, PCs, At, IInv, CallsRight
<1>3. call[c].op \in {"get", "size"} /\ b \in Blocks
  BY <1>1, <1>2, CallFields DEF Shape, At, Ops, IInv, CallsRight, TryPCs, DealPCs
<1>4. call'[c].pc # "idle" => \A d \in kept'[c] : PieceOf[d] \in L
  <2>1. ASSUME call'[c].pc # "idle", NEW d \in kept'[c] PROVE PieceOf[d] \in L
    <3>1. Serves(call[c], d) /\ PieceOf[d] \in Pieces
      BY <1>2, <2>1, KeptBefore
    <3> QED
      BY <1>3, <3>1 DEF Serves
  <2> QED
    BY <2>1
<1>5. CASE L # {}
  <2> DEFINE m == [[call[c] EXCEPT !.pc = "piece"] EXCEPT !.pieces = L]
  <2>1. m \in Call
    BY <1>2 DEF Call, PCs
  <2>2. m.pc = "piece" /\ m.pieces = L /\ m.op = call[c].op /\ m.block = b
    BY <1>2 DEF Call
  <2>3. call' = [call EXCEPT ![c] = m]
    BY <1>5 DEF PiecesContainingMultihash
  <2> HIDE DEF m, L
  <2>4. Moves(c, m) /\ m.pc \notin TryPCs /\ call[c].pc # "ask"
    BY <1>1, <2>1, <2>2, <2>3 DEF Moves, Becomes, Calls, TryPCs, DealPCs, At
  <2>5. Shape(m)
    BY <1>3, <2>2 DEF Shape, TryPCs, DealPCs
  <2>6. call'[c].pc # "idle"
    BY <2>2, <2>3 DEF IInv, CallsRight, Typed
  <2>7. \A d \in kept'[c] : OnWay(m, d)
    BY <1>4, <2>2, <2>6 DEF OnWay
  <2> QED
    BY <1>1, <1>2, <2>1, <2>4, <2>5, <2>7, OnwardInv
<1>6. CASE L = {}
  <2>1. PICK result \in Result : Return(c, result)
    BY <1>3, <1>6, ListFailsTo DEF PiecesContainingMultihash
  <2>2. kept'[c] = {}
    <3>1. call'[c].pc = "returned"
      BY <2>1 DEF Return, IInv, CallsRight, Typed
    <3> QED
      BY <1>4, <1>6, <3>1
  <2>3. call[c].pc # "ask"
    BY <1>1 DEF At
  <2> QED
    BY <1>1, <1>2, <2>1, <2>2, <2>3, EndInv
<1> QED
  BY <1>5, <1>6

LEMMA NextPieceInv ==
  ASSUME IInv, NEW P, Keep(P), NEW c \in Callers, NextPiece(c)
  PROVE  IInv'
<1>1. At(c, "piece") /\ UNCHANGED <<tables, sectors, lock, shared>>
  BY DEF NextPiece, CallOnly
<1>2. InCall(call[c]) /\ Shape(call[c]) /\ call[c] \in Call
  BY <1>1, Shapes, CallFields DEF InCall, PCs, At, IInv, CallsRight
<1>3. call[c].op \in {"get", "size"} /\ call[c].block \in Blocks
      /\ call[c].pieces \in SUBSET Pieces
  BY <1>1, <1>2, CallFields DEF Shape, At, Ops, IInv, CallsRight, TryPCs, DealPCs
<1>4. PICK p \in call[c].pieces :
        call' = [call EXCEPT ![c].piece = p, ![c].pieces = @ \ {p}, ![c].deals = DealsOf(p),
                             ![c].pc = IF call[c].op = "get" THEN "shared" ELSE "size"]
  BY DEF NextPiece
<1> DEFINE pc == IF call[c].op = "get" THEN "shared" ELSE "size"
           k == [[call[c] EXCEPT !.piece = p] EXCEPT !.pieces = call[c].pieces \ {p}]
           m == [[k EXCEPT !.deals = DealsOf(p)] EXCEPT !.pc = pc]
<1>5. p \in Pieces /\ DealsOf(p) \in SUBSET Deals /\ pc \in {"shared", "size"}
  BY <1>3 DEF DealsOf
<1>6. k \in Call /\ k.piece = p /\ k.pieces = call[c].pieces \ {p} /\ k.op = call[c].op
      /\ k.block = call[c].block
  BY <1>2, <1>3, <1>5 DEF Call
<1>7. call' = [call EXCEPT ![c] = m]
  BY <1>4
<1> HIDE DEF k
<1>8. m \in Call
  BY <1>5, <1>6 DEF Call, PCs
<1>9. /\ m.pc = pc /\ m.deals = DealsOf(p)
      /\ m.piece = p /\ m.pieces = k.pieces /\ m.op = k.op /\ m.block = k.block
  BY <1>6 DEF Call
<1> HIDE DEF m
<1>10. Moves(c, m) /\ m.pc \notin TryPCs /\ call[c].pc # "ask"
  BY <1>1, <1>6, <1>7, <1>8, <1>9 DEF Moves, Becomes, Calls, TryPCs, DealPCs, At
<1>11. Shape(m)
  BY <1>3, <1>5, <1>6, <1>9 DEF Shape, TryPCs, DealPCs
<1>12. ASSUME NEW d \in kept'[c] PROVE OnWay(m, d)
  <2>1. call'[c].pc # "idle"
    BY <1>5, <1>7, <1>9 DEF IInv, CallsRight, Typed
  <2>2. PieceOf[d] \in call[c].pieces
    BY <1>1, <1>2, <2>1, KeptBefore DEF OnWay, At
  <2> QED
    BY <1>5, <1>6, <1>9, <2>2 DEF OnWay
<1> QED
  BY <1>1, <1>2, <1>8, <1>10, <1>11, <1>12, OnwardInv

-----------------------------------------------------------------------------
(* The reader.                                                             *)

\* The caller that starts to fill a reader has every deal to try.
LEMMA GetSharedPieceReaderInv ==
  ASSUME IInv, NEW P, Keep(P), NEW c \in Callers, GetSharedPieceReader(c)
  PROVE  IInv'
<1>0. PICK p : p = call[c].piece
  OBVIOUS
<1>1. At(c, "shared") /\ UNCHANGED <<tables, sectors, lock>>
  BY DEF GetSharedPieceReader
<1>2. InCall(call[c]) /\ Shape(call[c]) /\ call[c].op = "get" /\ p \in Pieces
      /\ call[c].deals = DealsOf(p) /\ call[c].op \in Ops
  BY <1>0, <1>1, Shapes, CallFields
  DEF InCall, PCs, At, IInv, CallsRight, Shape, TryPCs, DealPCs, Ops
<1>3. CASE shared[p] # None
  <2>1. Goto(c, "wait") /\ UNCHANGED shared
    BY <1>0, <1>3 DEF GetSharedPieceReader
  <2>2. PICK m \in Call : m.pc = "wait" /\ Stays(c, m)
    BY <1>2, <2>1, GoesTo DEF PCs, IInv, CallsRight
  <2>3. Shape(m) /\ m.pc \notin TryPCs /\ Moves(c, m)
    BY <1>0, <1>2, <2>2 DEF Shape, Stays, Moves, TryPCs, DealPCs
  <2>4. \A d \in kept'[c] : OnWay(m, d)
    <3>1. call'[c].pc # "idle"
      BY <2>2 DEF Stays, Moves, Becomes, IInv, CallsRight, Typed
    <3>2. \A d \in kept'[c] : OnWay(call[c], d)
      BY <1>2, <3>1, KeptBefore
    <3> QED
      BY <1>1, <2>2, <3>2 DEF OnWay, Stays, Moves, At
  <2> QED
    BY <1>1, <1>2, <2>1, <2>3, <2>4, OnwardInv DEF At
<1>4. CASE shared[p] = None
  <2>1. Goto(c, "deals") /\ shared' = [shared EXCEPT ![p] = "filling"]
    BY <1>0, <1>4 DEF GetSharedPieceReader
  <2>2. PICK m \in Call : m.pc = "deals" /\ Stays(c, m)
    BY <1>2, <2>1, GoesTo DEF PCs, IInv, CallsRight
  <2>3. m \in Calls /\ Becomes(c, m) /\ m.op = "get" /\ m.piece = p /\ m.deals = DealsOf(p)
        /\ m.pieces = call[c].pieces /\ m.block = call[c].block
    BY <1>0, <1>2, <2>2 DEF Stays, Moves, Calls
  <2>4. Shape(m)
    BY <1>2, <2>2, <2>3 DEF Shape, TryPCs, DealPCs
  <2>5. shared \in [Pieces -> {None, "filling", "ok", "err"}]
    BY DEF IInv, CallsRight, Typed
  <2>6. CallsRight'
    <3>1. Typed'
      BY <1>1, <1>2, <2>1, <2>3, <2>5 DEF IInv, CallsRight, Typed, Becomes, tables, sectors
    <3>2. \A t \in Stripes : lock'[t] # c
      BY <1>1 DEF IInv, CallsRight, Locks, At
    <3> QED
      BY <1>1, <1>2, <1>4, <2>1, <2>2, <2>3, <2>4, <2>5, <3>1, <3>2, CallMoved,
         RetrievalAssumption DEF IInv
  <2>7. call'[c] = m /\ call'[c].pc # "idle"
    BY <2>2, <2>3 DEF Becomes, IInv, CallsRight, Typed
  <2>8. \A d \in kept'[c] : OnWay(m, d)
    <3>1. \A d \in kept'[c] : OnWay(call[c], d)
      BY <1>2, <2>7, KeptBefore
    <3> QED
      BY <1>0, <1>1, <1>2, <2>2, <2>3, <3>1 DEF OnWay, At
  <2>9. \A b \in Callers : \A d \in kept'[b] : PieceOf[d] = m.piece => Untried(m, d)
    BY <2>3, KeptTyped DEF Untried, DealsOf, IInv
  <2>10. \A b \in Callers : InCall(call[b]) /\ InCall(call'[b]) /\ call[b].op = "get" =>
           \A d \in kept'[b] : shared'[PieceOf[d]] # "err"
    <3>1. ASSUME NEW b \in Callers, InCall(call[b]), InCall(call'[b]), call[b].op = "get",
                 NEW d \in kept'[b]
          PROVE  shared'[PieceOf[d]] # "err"
      <4>1. d \in kept[b] /\ PieceOf[d] \in Pieces
        BY <3>1, KeptBefore DEF InCall, PCs
      <4>2. shared[PieceOf[d]] # "err"
        BY <3>1, <4>1 DEF IInv, KeptRight, KeptUnspoiled
      <4> QED
        BY <2>1, <2>5, <4>1, <4>2
    <3> QED
      BY <3>1
  <2>11. m.pc # "returned"
    BY <2>2
  <2>12. KeptRight'
    BY <1>2, <2>3, <2>8, <2>9, <2>10, <2>11, KeptMoved
  <2> QED
    BY <2>6, <2>12 DEF IInv
<1> QED
  BY <1>3, <1>4

\* The reader another call could not fill is of a piece no kept deal is of.
LEMMA AwaitReaderInv ==
  ASSUME IInv, NEW P, Keep(P), NEW c \in Callers, AwaitReader(c)
  PROVE  IInv'
<1>1. At(c, "wait") /\ UNCHANGED <<tables, sectors, lock, shared>>
  BY DEF AwaitReader, CallOnly
<1>2. InCall(call[c]) /\ Shape(call[c]) /\ call[c].op = "get"
  BY <1>1, Shapes, CallFields
  DEF InCall, PCs, At, IInv, CallsRight, Shape, TryPCs, DealPCs, Ops
<1>3. CASE shared[call[c].piece] = "err"
  <2>1. PieceFails(c)
    BY <1>3 DEF AwaitReader
  <2>2. ASSUME call'[c].pc # "idle", NEW d \in kept'[c] PROVE PieceOf[d] # call[c].piece
    BY <1>2, <1>3, <2>2, KeptBefore DEF IInv, KeptRight, KeptUnspoiled
  <2> QED
    BY <1>1, <1>2, <2>1, <2>2, PieceFailsQuietly DEF At
<1>4. CASE shared[call[c].piece] # "err"
  <2>1. Goto(c, "offset")
    BY <1>4 DEF AwaitReader
  <2>2. PICK m \in Call : m.pc = "offset" /\ Stays(c, m)
    BY <1>2, <2>1, GoesTo DEF PCs, IInv, CallsRight
  <2>3. Shape(m) /\ m.pc \notin TryPCs /\ Moves(c, m)
    BY <1>1, <1>2, <2>2 DEF Shape, Stays, Moves, TryPCs, DealPCs, At
  <2>4. \A d \in kept'[c] : OnWay(m, d)
    <3>1. call'[c].pc # "idle"
      BY <2>2 DEF Stays, Moves, Becomes, IInv, CallsRight, Typed
    <3>2. \A d \in kept'[c] : OnWay(call[c], d)
      BY <1>2, <3>1, KeptBefore
    <3> QED
      BY <1>1, <2>2, <3>2 DEF OnWay, Stays, Moves, At
  <2> QED
    BY <1>1, <1>2, <2>3, <2>4, OnwardInv DEF At
<1> QED
  BY <1>3, <1>4

\* With m, c still goes through the deals of its piece that others keep, or itself.
StillUntried(c, m, P) ==
  \A b \in Callers : \A d \in kept'[b] :
    (/\ InCall(call[b]) /\ call'[b].pc # "idle" /\ call[b].op # "size"
     /\ d \in kept[b] /\ Serves(call[b], d) /\ <<b, PieceOf[d]>> \notin P
     /\ b = c \/ (call[b].op = "get" /\ call[c].op = "get")
     /\ PieceOf[d] = call[c].piece /\ Untried(call[c], d))
      => Untried(m, d)

\* A call that goes on looking for a reader among the deals of its piece.
LEMMA TryInv ==
  ASSUME IInv, NEW P, Keep(P), NEW c \in Callers, call[c].pc \in TryPCs, Typed',
         UNCHANGED shared, NEW m \in Call, Moves(c, m), m.pc \in TryPCs,
         m.piece = call[c].piece, m.pieces = call[c].pieces,
         m.deals \subseteq call[c].deals, m.pc \in DealPCs => m.deal \in DealsOf(m.piece),
         \A e \in Callers \ {c}, t \in Stripes : lock'[t] = e <=> lock[t] = e,
         \A t \in Stripes : lock'[t] = c <=> m.pc = "ask" /\ StripeOf[SectorOf[m.deal]] = t,
         StillUntried(c, m, P)
  PROVE  IInv'
<1>1. m \in Calls /\ Becomes(c, m) /\ m.op = call[c].op /\ m.block = call[c].block
  BY DEF Moves, Calls
<1>2. InCall(call[c]) /\ Shape(call[c]) /\ call[c].op \in {"get", "view"} /\ call[c].op \in Ops
  BY Shapes, CallFields DEF InCall, PCs, IInv, CallsRight, Shape, TryPCs, DealPCs, Ops
<1>3. Shape(m)
  BY <1>1, <1>2 DEF Shape, TryPCs, DealPCs
<1>4. call'[c] = m /\ m.pc # "idle" /\ m.pc # "returned"
  BY <1>1 DEF Becomes, IInv, CallsRight, Typed, TryPCs, DealPCs
<1>5. CallsRight'
  <2>1. Filling(m) => Filling(call[c])
    BY <1>1 DEF Filling
  <2>2. Filling(m) => shared'[m.piece] = "filling"
    BY <2>1 DEF IInv, CallsRight, Fills
  <2> QED
    BY <1>1, <1>3, <2>1, <2>2, CallMoved DEF IInv
<1>6. \A d \in kept'[c] : OnWay(m, d)
  <2>1. \A d \in kept'[c] : OnWay(call[c], d)
    BY <1>2, <1>4, KeptBefore
  <2> QED
    BY <1>1, <2>1 DEF OnWay, TryPCs, DealPCs
<1>7. ASSUME NEW b \in Callers, InCall(call'[b]), b = c \/ (call[b].op = "get" /\ m.op = "get"),
             NEW d \in kept'[b], PieceOf[d] = m.piece
      PROVE  Untried(m, d)
  <2>1. InCall(call[b])
    BY <1>1, <1>2, <1>7 DEF Becomes, IInv, CallsRight, Typed
  <2>2. call'[b].pc # "idle"
    BY <1>7 DEF InCall, PCs
  <2>3. d \in kept[b] /\ Serves(call[b], d) /\ <<b, PieceOf[d]>> \notin P
    BY <1>7, <2>1, <2>2, KeptBefore
  <2>4. Untried(call[c], d)
    BY <1>1, <1>7, <2>1, <2>3 DEF IInv, KeptRight, KeptUntried, WaitsFor
  <2>5. call[b].op # "size"
    BY <1>2, <1>7
  <2> QED
    BY <1>1, <1>7, <2>1, <2>2, <2>3, <2>4, <2>5 DEF StillUntried
<1>8. KeptRight'
  BY <1>1, <1>2, <1>4, <1>6, <1>7, StillUnspoiled, KeptMoved
<1> QED
  BY <1>5, <1>8 DEF IInv

LEMMA NoLock ==
  ASSUME CallsRight, NEW c \in Callers, call[c].pc # "ask"
  PROVE  \A t \in Stripes : lock[t] # c
BY DEF CallsRight, Locks, At

LEMMA StripeTaken ==
  ASSUME CallsRight, NEW c \in Callers, call[c].pc \in DealPCs
  PROVE  /\ call[c].deal \in DealsOf(call[c].piece) /\ call[c].deal \in Deals
         /\ Sector(c) \in Sectors /\ StripeOf[Sector(c)] \in Stripes
<1>1. call[c].deal \in DealsOf(call[c].piece)
  BY Shapes DEF Shape, InCall, PCs, DealPCs
<1> QED
  BY <1>1 DEF DealsOf, Sector, Sectors, Stripes

\* The call turns to its next deal.
LEMMA TryDealInv ==
  ASSUME IInv, NEW P, Keep(P), NEW c \in Callers, At(c, "deals"), TryDeal(c),
         UNCHANGED <<tables, sectors, lock>>
  PROVE  IInv'
<1>1. PICK d \in call[c].deals :
        call' = [call EXCEPT ![c].deal = d, ![c].deals = @ \ {d}, ![c].pc = GetReader(d)]
  BY DEF TryDeal
<1>2. InCall(call[c]) /\ Shape(call[c]) /\ call[c] \in Call /\ call[c].deals \in SUBSET Deals
  BY Shapes, CallFields DEF InCall, PCs, At, IInv, CallsRight
<1>3. d \in Deals /\ d \in DealsOf(call[c].piece) /\ call[c].deals \subseteq DealsOf(call[c].piece)
  BY <1>2 DEF Shape, At, TryPCs
<1>4. PICK pc : pc = GetReader(d)
  OBVIOUS
<1>5. pc \in {"cached", "deals"} /\ (d \in Registered => pc = "cached")
  BY <1>4 DEF GetReader
<1> DEFINE k == [[call[c] EXCEPT !.deal = d] EXCEPT !.deals = call[c].deals \ {d}]
           m == [k EXCEPT !.pc = pc]
<1>6. k \in Call /\ k.deal = d /\ k.deals = call[c].deals \ {d} /\ k.op = call[c].op
      /\ k.block = call[c].block /\ k.piece = call[c].piece /\ k.pieces = call[c].pieces
  BY <1>2, <1>3 DEF Call
<1>7. call' = [call EXCEPT ![c] = m]
  BY <1>1, <1>4
<1> HIDE DEF k
<1>8. m \in Call
  BY <1>5, <1>6 DEF Call, PCs
<1>9. /\ m.pc = pc /\ m.deal = d /\ m.deals = call[c].deals \ {d} /\ m.op = call[c].op
      /\ m.block = call[c].block /\ m.piece = call[c].piece /\ m.pieces = call[c].pieces
  BY <1>6 DEF Call
<1> HIDE DEF m
<1>10. Moves(c, m)
  BY <1>7, <1>8, <1>9 DEF Moves, Becomes, Calls
<1>11. Typed' /\ UNCHANGED shared
  BY <1>10 DEF TryDeal, IInv, CallsRight, Typed, Moves, Becomes, tables, sectors
<1>12. \A t \in Stripes : lock'[t] # c
  BY NoLock DEF At, IInv
<1>13. ASSUME NEW e, Untried(call[c], e), e # d \/ d \in Registered
       PROVE  Untried(m, e)
  BY <1>5, <1>9, <1>13 DEF Untried, At, DealPCs
<1>14. ASSUME NEW b \in Callers, call[b].op # "size", Serves(call[b], d) PROVE d \in Registered
  BY <1>14 DEF Serves
<1>15. call[c].pc \in TryPCs /\ m.pc \in TryPCs /\ m.pc # "ask"
       /\ (m.pc \in DealPCs => m.deal \in DealsOf(m.piece)) /\ m.deals \subseteq call[c].deals
  BY <1>3, <1>5, <1>9 DEF At, TryPCs, DealPCs
<1>16. StillUntried(c, m, P)
  BY <1>13, <1>14 DEF StillUntried
<1>17. \A e \in Callers \ {c}, t \in Stripes : lock'[t] = e <=> lock[t] = e
  OBVIOUS
<1>18. \A t \in Stripes : lock'[t] = c <=> m.pc = "ask" /\ StripeOf[SectorOf[m.deal]] = t
  BY <1>12, <1>15
<1>19. m.piece = call[c].piece /\ m.pieces = call[c].pieces
  BY <1>9
<1> QED
  BY <1>8, <1>10, <1>11, <1>15, <1>16, <1>17, <1>18, <1>19, TryInv

\* The deal in hand serves nobody who waits for it and has not lost its piece.
Dropped(c, P) ==
  \A b \in Callers :
    InCall(call[b]) /\ call[b].op # "size" /\ WaitsFor(b, c) /\ Serves(call[b], call[c].deal) =>
      <<b, PieceOf[call[c].deal]>> \in P

\* The call goes on with the deal it has in hand, or drops it because it cannot serve.
LEMMA DealInv ==
  ASSUME IInv, NEW P, Keep(P), NEW c \in Callers, call[c].pc \in DealPCs,
         NEW pc \in TryPCs, Goto(c, pc), UNCHANGED <<tables, unsealed, shared>>,
         cache' \in [Sectors -> BOOLEAN \cup {None}],
         lock' \in [Stripes -> Callers \cup {None}],
         \A e \in Callers \ {c}, t \in Stripes : lock'[t] = e <=> lock[t] = e,
         \A t \in Stripes : lock'[t] = c <=> pc = "ask" /\ StripeOf[Sector(c)] = t,
         pc = "deals" => Dropped(c, P)
  PROVE  IInv'
<1>1. InCall(call[c]) /\ pc \in PCs
  BY DEF InCall, PCs, DealPCs, TryPCs
<1>2. PICK m \in Call : m.pc = pc /\ Stays(c, m)
  BY <1>1, GoesTo DEF IInv, CallsRight
<1>3. /\ Moves(c, m) /\ m.deal = call[c].deal /\ m.deals = call[c].deals
      /\ m.piece = call[c].piece /\ m.pieces = call[c].pieces
  BY <1>2 DEF Stays
<1>4. Typed'
  BY <1>3 DEF IInv, CallsRight, Typed, Moves, Becomes, tables
<1>5. m.deal \in DealsOf(m.piece)
  BY <1>3, StripeTaken DEF IInv
<1>6. \A t \in Stripes : lock'[t] = c <=> m.pc = "ask" /\ StripeOf[SectorOf[m.deal]] = t
  BY <1>2, <1>3 DEF Sector
<1>7. ASSUME NEW b \in Callers, NEW d, InCall(call[b]), call[b].op # "size", Serves(call[b], d),
             WaitsFor(b, c), <<b, PieceOf[d]>> \notin P, Untried(call[c], d)
      PROVE  Untried(m, d)
  <2>1. CASE d \in call[c].deals
    BY <1>3, <2>1 DEF Untried
  <2>2. CASE d = call[c].deal
    BY <1>2, <1>3, <1>7, <2>2 DEF Untried, TryPCs, Dropped
  <2> QED
    BY <1>7, <2>1, <2>2 DEF Untried
<1>8. call[c].pc \in TryPCs /\ m.pc \in TryPCs
  BY <1>2 DEF TryPCs
<1>9. StillUntried(c, m, P)
  BY <1>7 DEF StillUntried, WaitsFor
<1>10. m.deals \subseteq call[c].deals /\ (m.pc \in DealPCs => m.deal \in DealsOf(m.piece))
  BY <1>3, <1>5
<1>11. Moves(c, m) /\ m.piece = call[c].piece /\ m.pieces = call[c].pieces
  BY <1>3
<1> QED
  BY <1>4, <1>6, <1>8, <1>9, <1>10, <1>11, TryInv

\* No deal of the piece gives a reader, and none is kept for those who wait for it.
LEMMA NoReaderInv ==
  ASSUME IInv, NEW P, Keep(P), NEW c \in Callers, At(c, "deals"), GotReader(c, FALSE),
         UNCHANGED <<tables, sectors, lock>>,
         \A b \in Callers : InCall(call[b]) /\ call'[b].pc # "idle" /\ WaitsFor(b, c) =>
           \A d \in kept'[b] : PieceOf[d] # call[c].piece
  PROVE  IInv'
<1>1. PICK p : p = call[c].piece
  OBVIOUS
<1>2. InCall(call[c]) /\ Shape(call[c]) /\ p \in Pieces /\ call[c].op \in {"get", "view"}
      /\ call[c].pc \in TryPCs
  BY <1>1, Shapes, CallFields
  DEF InCall, PCs, At, IInv, CallsRight, Shape, TryPCs, Ops
<1>3. PieceFails(c)
      /\ shared' = IF call[c].op = "view" THEN shared ELSE [shared EXCEPT ![p] = "err"]
  BY <1>1 DEF GotReader
<1>4. shared \in [Pieces -> {None, "filling", "ok", "err"}]
  BY DEF IInv, CallsRight, Typed
<1>5. ASSUME NEW b \in Callers, InCall(call[b]), InCall(call'[b]), call[b].op = "get",
             NEW d \in kept'[b]
      PROVE  shared'[PieceOf[d]] # "err"
  <2>1. call'[b].pc # "idle"
    BY <1>5 DEF InCall, PCs
  <2>2. d \in kept[b] /\ PieceOf[d] \in Pieces
    BY <1>5, <2>1, KeptBefore
  <2>3. shared[PieceOf[d]] # "err"
    BY <1>5, <2>2 DEF IInv, KeptRight, KeptUnspoiled
  <2>4. CASE call[c].op = "view"
    BY <1>3, <2>3, <2>4
  <2>5. CASE call[c].op = "get"
    BY <1>1, <1>3, <1>4, <1>5, <2>1, <2>2, <2>3, <2>5 DEF WaitsFor
  <2> QED
    BY <1>2, <2>4, <2>5
<1>6. call'[c].pc # "idle" => \A d \in kept'[c] : PieceOf[d] # call[c].piece
  BY <1>1, <1>2 DEF WaitsFor
<1>7. \A q \in Pieces : shared[q] = "filling" /\ shared'[q] # "filling" =>
                          Filling(call[c]) /\ call[c].piece = q
  BY <1>1, <1>2, <1>3, <1>4 DEF Filling
<1>8. shared' \in [Pieces -> {None, "filling", "ok", "err"}]
  BY <1>2, <1>3, <1>4
<1> QED
  BY <1>2, <1>3, <1>5, <1>6, <1>7, <1>8, PieceFailsInv DEF At

LEMMA NextDealInv ==
  ASSUME IInv, NEW P, Keep(P), NEW c \in Callers, NextDeal(c)
  PROVE  IInv'
<1>1. At(c, "deals") /\ UNCHANGED <<tables, sectors, lock>>
  BY DEF NextDeal
<1>2. CASE call[c].deals # {}
  BY <1>1, <1>2, TryDealInv DEF NextDeal
<1>3. CASE call[c].deals = {}
  <2>1. InCall(call[c]) /\ ~ \E d : Untried(call[c], d)
    BY <1>1, <1>3 DEF InCall, PCs, Untried, At, DealPCs
  <2>2. ASSUME NEW b \in Callers, InCall(call[b]), call'[b].pc # "idle", WaitsFor(b, c),
               NEW d \in kept'[b]
        PROVE  PieceOf[d] # call[c].piece
    <3>1. d \in kept[b] /\ call[c].pc \in TryPCs
      BY <1>1, <2>2, KeptBefore DEF At, TryPCs
    <3> QED
      BY <2>1, <2>2, <3>1 DEF IInv, KeptRight, KeptUntried
  <2>3. GotReader(c, FALSE)
    BY <1>3 DEF NextDeal
  <2> QED
    BY <1>1, <2>2, <2>3, NoReaderInv
<1> QED
  BY <1>2, <1>3

LEMMA IsUnsealedCachedInv ==
  ASSUME IInv, NEW P, Keep(P), NEW c \in Callers, IsUnsealedCached(c)
  PROVE  IInv'
<1>1. At(c, "cached") /\ UNCHANGED <<tables, sectors, lock, shared>> /\ call[c].pc \in DealPCs
  BY DEF IsUnsealedCached, CallOnly, At, DealPCs
<1>2. cache \in [Sectors -> BOOLEAN \cup {None}] /\ lock \in [Stripes -> Callers \cup {None}]
  BY DEF IInv, CallsRight, Typed
<1>3. PICK pc \in {"lock", "open", "deals"} :
        Goto(c, pc) /\ (pc = "deals" => cache[Sector(c)] = FALSE)
  <2>1. cache[Sector(c)] \in BOOLEAN \cup {None}
    BY <1>1, <1>2, StripeTaken DEF IInv
  <2> QED
    BY <2>1 DEF IsUnsealedCached, AfterIsUnsealed
<1>4. pc = "deals" => Dropped(c, P)
  BY <1>3 DEF Dropped, Serves, Sector
<1>5. \A t \in Stripes : lock'[t] # c
  BY <1>1, NoLock DEF At, IInv
<1>6. pc \in TryPCs /\ pc # "ask" /\ UNCHANGED <<unsealed, cache, lock>>
  BY <1>1 DEF TryPCs, DealPCs, sectors
<1> QED
  BY <1>1, <1>2, <1>3, <1>4, <1>5, <1>6, DealInv

LEMMA TakeLockInv ==
  ASSUME IInv, NEW P, Keep(P), NEW c \in Callers, TakeLock(c)
  PROVE  IInv'
<1>1. At(c, "lock") /\ UNCHANGED <<tables, sectors, shared>> /\ call[c].pc \in DealPCs
      /\ UNCHANGED <<unsealed, cache>>
  BY DEF TakeLock, At, DealPCs, sectors
<1>2. cache \in [Sectors -> BOOLEAN \cup {None}] /\ lock \in [Stripes -> Callers \cup {None}]
  BY DEF IInv, CallsRight, Typed
<1>3. \A t \in Stripes : lock[t] # c
  BY <1>1, NoLock DEF At, IInv
<1>4. CASE cache[Sector(c)] # None
  <2>1. PICK pc \in {"open", "deals"} :
          Goto(c, pc) /\ (pc = "deals" => cache[Sector(c)] = FALSE)
    <3>1. cache[Sector(c)] \in BOOLEAN
      BY <1>1, <1>2, <1>4, StripeTaken DEF IInv
    <3> QED
      BY <1>4, <3>1 DEF TakeLock, AfterIsUnsealed
  <2>2. pc = "deals" => Dropped(c, P)
    BY <2>1 DEF Dropped, Serves, Sector
  <2>3. pc \in TryPCs /\ pc # "ask"
    BY DEF TryPCs, DealPCs
  <2>4. UNCHANGED lock
    BY <1>4 DEF TakeLock
  <2> QED
    BY <1>1, <1>2, <1>3, <2>1, <2>2, <2>3, <2>4, DealInv
<1>5. CASE cache[Sector(c)] = None
  <2>1. PICK x \in Stripes : x = StripeOf[Sector(c)]
    BY <1>1, StripeTaken DEF IInv
  <2>2. Goto(c, "ask") /\ lock' = [lock EXCEPT ![x] = c] /\ lock[x] = None
    BY <1>5, <2>1 DEF TakeLock
  <2>3. None \notin Callers
    BY RetrievalAssumption
  <2>4. \A e \in Callers \ {c}, t \in Stripes : lock'[t] = e <=> lock[t] = e
    BY <1>2, <2>2, <2>3
  <2>5. \A t \in Stripes : lock'[t] = c <=> StripeOf[Sector(c)] = t
    BY <1>2, <1>3, <2>1, <2>2
  <2>6. lock' \in [Stripes -> Callers \cup {None}] /\ "ask" \in TryPCs
    BY <1>2, <2>2 DEF TryPCs, DealPCs
  <2> QED
    BY <1>1, <1>2, <2>2, <2>4, <2>5, <2>6, DealInv
<1> QED
  BY <1>4, <1>5

\* The lock is given back by the one who has it.
LEMMA UnlockRight ==
  ASSUME IInv, NEW c \in Callers, At(c, "ask"), Unlock(c)
  PROVE  /\ lock' \in [Stripes -> Callers \cup {None}]
         /\ \A e \in Callers \ {c}, t \in Stripes : lock'[t] = e <=> lock[t] = e
         /\ \A t \in Stripes : lock'[t] # c
<1>1. lock \in [Stripes -> Callers \cup {None}] /\ None \notin Callers
  BY RetrievalAssumption DEF IInv, CallsRight, Typed
<1>2. PICK x \in Stripes : x = StripeOf[Sector(c)]
  BY StripeTaken DEF IInv, At, DealPCs
<1>3. lock' = [lock EXCEPT ![x] = None] /\ \A t \in Stripes : lock[t] = c <=> t = x
  BY <1>2 DEF Unlock, IInv, CallsRight, Locks
<1> QED
  BY <1>1, <1>2, <1>3

LEMMA IsUnsealedInv ==
  ASSUME IInv, NEW P, Keep(P), NEW c \in Callers, IsUnsealed(c)
  PROVE  IInv'
<1>1. At(c, "ask") /\ UNCHANGED <<tables, unsealed, shared>> /\ call[c].pc \in DealPCs
      /\ Unlock(c)
  BY DEF IsUnsealed, At, DealPCs
<1>2. cache' \in [Sectors -> BOOLEAN \cup {None}]
  <2>1. PICK yes \in BOOLEAN : yes = (call[c].deal \in unsealed)
    <3>1. (call[c].deal \in unsealed) \in BOOLEAN
      OBVIOUS
    <3> QED
      BY <3>1
  <2>2. cache' = [cache EXCEPT ![Sector(c)] = yes]
    BY <2>1 DEF IsUnsealed
  <2> QED
    BY <2>2 DEF IInv, CallsRight, Typed
<1>3. PICK pc \in {"open", "deals"} :
        Goto(c, pc) /\ (pc = "deals" => call[c].deal \notin unsealed)
  BY DEF IsUnsealed, AfterIsUnsealed
<1>4. pc = "deals" => Dropped(c, P)
  BY <1>3 DEF Dropped, Serves
<1>5. pc \in TryPCs /\ pc # "ask"
  BY DEF TryPCs, DealPCs
<1> QED
  BY <1>1, <1>2, <1>3, <1>4, <1>5, UnlockRight, DealInv

\* A failure that drops the deal in hand hits every call that waits for the reader.
LEMMA DealLost ==
  ASSUME IInv, NEW c \in Callers, call[c].pc \in DealPCs
  PROVE  Dropped(c, Lost(c))
<1>1. PieceOf[call[c].deal] = call[c].piece /\ call[c].piece \in Pieces
  BY StripeTaken, RetrievalAssumption DEF IInv, DealsOf
<1>2. call[c].pc \in TryPCs
  BY DEF TryPCs
<1> QED
  BY <1>1, <1>2 DEF Dropped, Lost, WaitsFor, InCall

LEMMA IsUnsealedFailsInv ==
  ASSUME IInv, NEW P, Keep(P), NEW c \in Callers, P = Lost(c), IsUnsealedFails(c)
  PROVE  IInv'
<1>1. At(c, "ask") /\ UNCHANGED <<tables, unsealed, shared, cache>> /\ call[c].pc \in DealPCs
      /\ Unlock(c) /\ Goto(c, "deals")
  BY DEF IsUnsealedFails, At, DealPCs, sectors
<1>2. cache' \in [Sectors -> BOOLEAN \cup {None}]
  BY <1>1 DEF IInv, CallsRight, Typed
<1>3. Dropped(c, P)
  BY <1>1, DealLost
<1>4. "deals" \in TryPCs
  BY DEF TryPCs
<1> QED
  BY <1>1, <1>2, <1>3, <1>4, UnlockRight, DealInv

\* A deal that is open gives the reader, or its range is not unsealed.
LEMMA UnsealSectorAtInv ==
  ASSUME IInv, NEW P, Keep(P), NEW c \in Callers, UnsealSectorAt(c)
  PROVE  IInv'
<1>1. At(c, "open") /\ UNCHANGED <<tables, sectors, lock>> /\ call[c].pc \in DealPCs
      /\ UNCHANGED <<unsealed, cache>>
  BY DEF UnsealSectorAt, At, DealPCs, sectors
<1>2. PICK p : p = call[c].piece
  OBVIOUS
<1>3. InCall(call[c]) /\ Shape(call[c]) /\ p \in Pieces /\ call[c].op \in {"get", "view"}
  BY <1>1, <1>2, Shapes, CallFields
  DEF InCall, PCs, At, IInv, CallsRight, Shape, TryPCs, DealPCs, Ops
<1>4. shared \in [Pieces -> {None, "filling", "ok", "err"}] /\ \A t \in Stripes : lock[t] # c
  BY <1>1, NoLock DEF IInv, CallsRight, Typed, At
<1>5. CASE call[c].deal \notin unsealed /\ Goto(c, "deals") /\ UNCHANGED shared
  <2>1. Dropped(c, P)
    BY <1>5 DEF Dropped, Serves
  <2>2. "deals" \in TryPCs /\ cache' \in [Sectors -> BOOLEAN \cup {None}]
        /\ lock' \in [Stripes -> Callers \cup {None}]
    BY <1>1 DEF TryPCs, IInv, CallsRight, Typed
  <2> QED
    BY <1>1, <1>4, <1>5, <2>1, <2>2, DealInv
<1>6. CASE GotReader(c, TRUE)
  <2>1. PICK pc \in {"index", "offset"} : Goto(c, pc) /\ (pc = "index" <=> call[c].op = "view")
    BY <1>6 DEF GotReader
  <2>2. shared' = IF call[c].op = "view" THEN shared ELSE [shared EXCEPT ![p] = "ok"]
    BY <1>2, <1>6 DEF GotReader
  <2>3. PICK m \in Call : m.pc = pc /\ Stays(c, m)
    BY <1>3, <2>1, GoesTo DEF PCs, IInv, CallsRight
  <2>4. m \in Calls /\ Becomes(c, m) /\ m.op = call[c].op /\ m.piece = p /\ m.block = call[c].block
        /\ m.pieces = call[c].pieces
    BY <1>2, <2>3 DEF Stays, Moves, Calls
  <2>5. Shape(m) /\ ~Filling(m) /\ m.pc # "ask" /\ m.pc \notin TryPCs /\ m.pc # "returned"
    BY <1>1, <1>3, <2>1, <2>3, <2>4 DEF Shape, InCall, PCs, Filling, TryPCs, DealPCs, At
  <2>6. CallsRight'
    <3>1. Typed'
      BY <1>1, <1>3, <1>4, <2>2, <2>4 DEF IInv, CallsRight, Typed, Becomes, tables
    <3>2. \A q \in Pieces : shared[q] = "filling" /\ shared'[q] # "filling" =>
                              Filling(call[c]) /\ call[c].piece = q
      BY <1>1, <1>2, <1>3, <1>4, <2>2 DEF Filling, TryPCs
    <3> QED
      BY <1>1, <1>4, <2>4, <2>5, <3>1, <3>2, CallMoved DEF IInv
  <2>7. \A d \in kept'[c] : OnWay(m, d)
    <3>1. call'[c].pc # "idle"
      BY <2>1, <2>3, <2>4 DEF Becomes, IInv, CallsRight, Typed
    <3>2. \A d \in kept'[c] : OnWay(call[c], d)
      BY <1>3, <3>1, KeptBefore
    <3> QED
      BY <1>1, <1>2, <2>1, <2>3, <2>4, <3>2 DEF OnWay, At
  <2>8. \A b \in Callers : InCall(call[b]) /\ InCall(call'[b]) /\ call[b].op = "get" =>
          \A d \in kept'[b] : shared'[PieceOf[d]] # "err"
    <3>1. ASSUME NEW b \in Callers, InCall(call[b]), InCall(call'[b]), call[b].op = "get",
                 NEW d \in kept'[b]
          PROVE  shared'[PieceOf[d]] # "err"
      <4>1. d \in kept[b] /\ PieceOf[d] \in Pieces
        BY <3>1, KeptBefore DEF InCall, PCs
      <4>2. shared[PieceOf[d]] # "err"
        BY <3>1, <4>1 DEF IInv, KeptRight, KeptUnspoiled
      <4> QED
        BY <1>4, <2>2, <4>1, <4>2
    <3> QED
      BY <3>1
  <2>9. KeptRight'
    BY <1>3, <2>4, <2>5, <2>7, <2>8, KeptMoved
  <2> QED
    BY <2>6, <2>9 DEF IInv
<1> QED
  BY <1>1, <1>5, <1>6 DEF UnsealSectorAt

-----------------------------------------------------------------------------
(* With a piece, or with a reader.                                         *)

\* What is at the offset of the block a call asks for.
LEMMA RecordTyped ==
  ASSUME IInv, NEW c \in Callers, InCall(call[c]), call[c].op # "view",
         call[c].pc \notin {"list", "piece"}
  PROVE  RecordOf(c) \in Record \cup {None}
<1>1. call[c].block \in Blocks /\ call[c].piece \in Pieces
  BY Shapes DEF Shape, IInv
<1> QED
  BY <1>1 DEF RecordOf, IInv, CallsRight, Typed

\* The block's record, in a piece with a deal that is kept.
LEMMA KeptRecord ==
  ASSUME IInv, NEW P, Keep(P), NEW c \in Callers, InCall(call[c]), call'[c].pc # "idle",
         NEW d \in kept'[c], PieceOf[d] = call[c].piece
  PROVE  /\ call[c].op = "get" => RecordOf(c) # None /\ RecordOf(c).at = call[c].block
         /\ call[c].op = "size" => /\ RecordOf(c) # None
                                   /\ RecordOf(c).sized \/ call[c].piece \in Complete
         /\ call[c].op = "view" => \E b \in Blocks : records[call[c].piece][b] # None
<1>1. Serves(call[c], d) /\ call[c].op \in Ops
  BY KeptBefore, CallFields DEF IInv, CallsRight
<1> QED
  BY <1>1 DEF Serves, RecordOf

\* A call goes on to a place outside of the search for a reader.
LEMMA GotoInv ==
  ASSUME IInv, NEW P, Keep(P), NEW c \in Callers, InCall(call[c]), call[c].pc # "ask",
         UNCHANGED <<tables, sectors, lock, shared>>,
         NEW pc \in {"complete", "build", "sizeAgain"}, Goto(c, pc), call[c].op = "size",
         call[c].pc \notin {"list", "piece"},
         \A d \in kept'[c] : PieceOf[d] = call[c].piece =>
                               pc = "complete" /\ call[c].piece \in Complete
  PROVE  IInv'
<1>1. PICK m \in Call : m.pc = pc /\ Stays(c, m)
  BY GoesTo DEF PCs, IInv, CallsRight
<1>2. /\ Moves(c, m) /\ m.op = call[c].op /\ m.piece = call[c].piece
      /\ m.pieces = call[c].pieces /\ m.block = call[c].block
  BY <1>1 DEF Stays, Moves
<1>3. Shape(call[c])
  BY Shapes DEF IInv
<1>4. Shape(m) /\ m.pc \notin TryPCs
  BY <1>1, <1>2, <1>3 DEF Shape, TryPCs, DealPCs
<1>5. \A d \in kept'[c] : OnWay(m, d)
  <2>1. call'[c].pc # "idle"
    BY <1>1, <1>2 DEF Moves, Becomes, IInv, CallsRight, Typed
  <2>2. \A d \in kept'[c] : OnWay(call[c], d)
    BY <2>1, KeptBefore
  <2> QED
    BY <1>1, <1>2, <2>2 DEF OnWay
<1> QED
  BY <1>2, <1>4, <1>5, OnwardInv

LEMMA GetOffsetSizeInv ==
  ASSUME IInv, NEW P, Keep(P), NEW c \in Callers, GetOffsetSize(c)
  PROVE  IInv'
<1>1. call[c].pc = "offset" /\ UNCHANGED <<tables, sectors, lock, shared>>
  BY DEF GetOffsetSize, CallOnly, At
<1>2. InCall(call[c]) /\ Shape(call[c]) /\ call[c].op = "get" /\ call[c] \in Call
  BY <1>1, Shapes, CallFields DEF InCall, PCs, IInv, CallsRight, Shape, TryPCs, DealPCs, Ops
<1>3. CASE RecordOf(c) = None
  <2>1. PieceFails(c)
    BY <1>3 DEF GetOffsetSize
  <2>2. ASSUME call'[c].pc # "idle", NEW d \in kept'[c] PROVE PieceOf[d] # call[c].piece
    BY <1>2, <1>3, <2>2, KeptRecord
  <2> QED
    BY <1>1, <1>2, <2>1, <2>2, PieceFailsQuietly
<1>4. CASE RecordOf(c) # None
  <2>1. PICK a \in Blocks : a = RecordOf(c).at
    BY <1>1, <1>2, <1>4, RecordTyped DEF Record
  <2> DEFINE m == [[call[c] EXCEPT !.at = a] EXCEPT !.pc = "read"]
  <2>2. m \in Call
    BY <1>2, <2>1 DEF Call, PCs
  <2>3. m.pc = "read" /\ m.at = a /\ m.op = call[c].op /\ m.block = call[c].block
        /\ m.piece = call[c].piece /\ m.pieces = call[c].pieces
    BY <1>2 DEF Call
  <2>4. call' = [call EXCEPT ![c] = m]
    BY <1>4, <2>1 DEF GetOffsetSize
  <2> HIDE DEF m
  <2>5. Moves(c, m) /\ m.pc \notin TryPCs /\ Shape(m)
    BY <1>1, <1>2, <2>2, <2>3, <2>4 DEF Moves, Becomes, Calls, TryPCs, DealPCs, Shape, InCall, PCs
  <2>6. \A d \in kept'[c] : OnWay(m, d)
    <3>1. call'[c].pc # "idle"
      BY <2>3, <2>4 DEF IInv, CallsRight, Typed
    <3>2. ASSUME NEW d \in kept'[c] PROVE OnWay(m, d)
      <4>1. OnWay(call[c], d)
        BY <1>2, <3>1, KeptBefore
      <4>2. PieceOf[d] = call[c].piece => a = call[c].block
        BY <1>2, <2>1, <3>1, KeptRecord
      <4> QED
        BY <1>1, <2>3, <4>1, <4>2 DEF OnWay
    <3> QED
      BY <3>2
  <2> QED
    BY <1>1, <1>2, <2>2, <2>5, <2>6, OnwardInv
<1> QED
  BY <1>3, <1>4

\* A block that is read has the right multihash, wherever a kept deal is.
LEMMA ReadNodeInv ==
  ASSUME IInv, NEW P, Keep(P), NEW c \in Callers, ReadNode(c)
  PROVE  IInv'
<1>1. call[c].pc = "read" /\ UNCHANGED <<tables, sectors, lock, shared>>
  BY DEF ReadNode, CallOnly, At
<1>2. InCall(call[c]) /\ Shape(call[c]) /\ call[c].at \in Blocks
  BY <1>1, Shapes DEF InCall, PCs, IInv, Shape
<1>3. CASE call[c].at = call[c].block
  <2>1. PICK result \in Result : Return(c, result) /\ result # Failed
    <3>1. [kind |-> "block", block |-> call[c].at] \in Result
          /\ [kind |-> "block", block |-> call[c].at] # Failed
      BY <1>2 DEF Result, Failed
    <3> QED
      BY <1>3, <3>1 DEF ReadNode
  <2> QED
    BY <1>1, <1>2, <2>1, EndInv
<1>4. CASE call[c].at # call[c].block
  <2>1. PieceFails(c)
    BY <1>4 DEF ReadNode
  <2>2. ASSUME call'[c].pc # "idle", NEW d \in kept'[c] PROVE PieceOf[d] # call[c].piece
    BY <1>1, <1>2, <1>4, <2>2, KeptBefore DEF OnWay
  <2> QED
    BY <1>1, <1>2, <2>1, <2>2, PieceFailsQuietly
<1> QED
  BY <1>3, <1>4

\* A failure takes from a call what is kept for its piece.
LEMMA PieceLost ==
  ASSUME IInv, NEW P, Keep(P), NEW c \in Callers, P = Lost(c), InCall(call[c]),
         call'[c].pc # "idle", NEW d \in kept'[c]
  PROVE  PieceOf[d] # call[c].piece /\ ~At(c, "list")
<1>1. PieceOf[d] \in Pieces /\ <<c, PieceOf[d]>> \notin Lost(c)
  BY KeptBefore
<1> QED
  BY <1>1 DEF Lost

LEMMA ReadFailsInv ==
  ASSUME IInv, NEW P, Keep(P), NEW c \in Callers, P = Lost(c), ReadFails(c)
  PROVE  IInv'
<1>1. UNCHANGED <<tables, sectors, lock, shared>> /\ UNCHANGED <<unsealed, cache>>
  BY DEF ReadFails, sectors
<1>2. CASE At(c, "open")
  <2>1. Goto(c, "deals") /\ call[c].pc \in DealPCs /\ "deals" \in TryPCs
    BY <1>2 DEF ReadFails, At, DealPCs, TryPCs
  <2>2. Dropped(c, P)
    BY <2>1, DealLost
  <2>3. \A t \in Stripes : lock[t] # c
    BY <1>2, NoLock DEF IInv, At
  <2>4. cache' \in [Sectors -> BOOLEAN \cup {None}] /\ lock' \in [Stripes -> Callers \cup {None}]
    BY <1>1 DEF IInv, CallsRight, Typed
  <2> QED
    BY <1>1, <2>1, <2>2, <2>3, <2>4, DealInv
<1>3. CASE ~At(c, "open")
  <2>1. call[c].pc \in {"read", "layout"} /\ PieceFails(c)
    BY <1>3 DEF ReadFails, At
  <2>2. InCall(call[c])
    BY <2>1 DEF InCall, PCs
  <2>3. ASSUME call'[c].pc # "idle", NEW d \in kept'[c] PROVE PieceOf[d] # call[c].piece
    BY <2>2, <2>3, PieceLost
  <2> QED
    BY <1>1, <2>1, <2>2, <2>3, PieceFailsQuietly
<1> QED
  BY <1>2, <1>3

\* The store fails: nothing is left to keep of the piece, or of any piece.
LEMMA StoreFailsInv ==
  ASSUME IInv, NEW P, Keep(P), NEW c \in Callers, P = Lost(c), StoreFails(c)
  PROVE  IInv'
<1>1. UNCHANGED <<tables, sectors, lock>>
  BY DEF StoreFails
<1>2. CASE At(c, "list") /\ ListFails(c) /\ UNCHANGED shared
  <2>1. InCall(call[c]) /\ Shape(call[c]) /\ call[c].block \in Blocks /\ call[c].pc # "ask"
    BY <1>2, Shapes DEF InCall, PCs, At, IInv, Shape, TryPCs, DealPCs
  <2>2. PICK result \in Result : Return(c, result)
    BY <1>2, <2>1, ListFailsTo
  <2>3. call'[c].pc = "returned"
    BY <2>2 DEF Return, IInv, CallsRight, Typed
  <2>4. kept'[c] = {}
    BY <1>2, <2>1, <2>3, PieceLost
  <2> QED
    BY <1>1, <1>2, <2>1, <2>2, <2>4, EndInv
<1>3. CASE NoDealTried(c) /\ GotReader(c, FALSE)
  <2>1. At(c, "deals")
    BY <1>3 DEF NoDealTried
  <2>2. ASSUME NEW b \in Callers, InCall(call[b]), call'[b].pc # "idle", WaitsFor(b, c),
               NEW d \in kept'[b]
        PROVE  PieceOf[d] # call[c].piece
    <3>1. PieceOf[d] \in Pieces /\ <<b, PieceOf[d]>> \notin Lost(c)
      BY <2>2, KeptBefore
    <3> QED
      BY <2>1, <2>2, <3>1 DEF Lost, WaitsFor, InCall, At, TryPCs
  <2> QED
    BY <1>1, <1>3, <2>1, <2>2, NoReaderInv
<1>4. CASE /\ call[c].pc \in {"offset", "size", "complete", "sizeAgain", "index"}
           /\ PieceFails(c) /\ UNCHANGED shared
  <2>1. InCall(call[c]) /\ call[c].pc \notin {"list", "piece", "ask"}
    BY <1>4 DEF InCall, PCs
  <2>2. ASSUME call'[c].pc # "idle", NEW d \in kept'[c] PROVE PieceOf[d] # call[c].piece
    BY <2>1, <2>2, PieceLost
  <2> QED
    BY <1>1, <1>4, <2>1, <2>2, PieceFailsQuietly
<1> QED
  BY <1>2, <1>3, <1>4 DEF StoreFails

LEMMA SizeResults ==
  ASSUME NEW r \in Record
  PROVE  SizeResult(r) \in Result /\ SizeResult(r) # Failed
<1>1. r.sized \in BOOLEAN
  BY DEF Record
<1> QED
  BY <1>1 DEF SizeResult, Result, Failed

LEMMA GetSizeInv ==
  ASSUME IInv, NEW P, Keep(P), NEW c \in Callers, GetSize(c)
  PROVE  IInv'
<1>1. call[c].pc = "size" /\ UNCHANGED <<tables, sectors, lock, shared>>
  BY DEF GetSize, CallOnly, At
<1>2. InCall(call[c]) /\ Shape(call[c]) /\ call[c].op = "size"
  BY <1>1, Shapes, CallFields DEF InCall, PCs, IInv, CallsRight, Shape, TryPCs, DealPCs, Ops
<1>3. CASE RecordOf(c) = None
  <2>1. PieceFails(c)
    BY <1>3 DEF GetSize
  <2>2. ASSUME call'[c].pc # "idle", NEW d \in kept'[c] PROVE PieceOf[d] # call[c].piece
    BY <1>2, <1>3, <2>2, KeptRecord
  <2> QED
    BY <1>1, <1>2, <2>1, <2>2, PieceFailsQuietly
<1>4. CASE RecordOf(c) # None /\ RecordOf(c).sized
  <2>1. PICK result \in Result : Return(c, result) /\ result # Failed
    <3>1. RecordOf(c) \in Record
      BY <1>1, <1>2, <1>4, RecordTyped
    <3> QED
      BY <1>4, <3>1, SizeResults DEF GetSize
  <2> QED
    BY <1>1, <1>2, <2>1, EndInv
<1>5. CASE RecordOf(c) # None /\ ~RecordOf(c).sized
  <2>1. Goto(c, "complete")
    BY <1>5 DEF GetSize
  <2>2. call'[c].pc # "idle"
    BY <2>1 DEF Goto, IInv, CallsRight, Typed
  <2>3. \A d \in kept'[c] : PieceOf[d] = call[c].piece => call[c].piece \in Complete
    BY <1>2, <1>5, <2>2, KeptRecord
  <2> QED
    BY <1>1, <1>2, <2>1, <2>3, GotoInv
<1> QED
  BY <1>3, <1>4, <1>5

LEMMA IsCompleteIndexInv ==
  ASSUME IInv, NEW P, Keep(P), NEW c \in Callers, IsCompleteIndex(c)
  PROVE  IInv'
<1>1. call[c].pc = "complete" /\ UNCHANGED <<tables, sectors, lock, shared>>
  BY DEF IsCompleteIndex, CallOnly, At
<1>2. InCall(call[c]) /\ Shape(call[c]) /\ call[c].op = "size"
  BY <1>1, Shapes, CallFields DEF InCall, PCs, IInv, CallsRight, Shape, TryPCs, DealPCs, Ops
<1>3. CASE call[c].piece \in Complete
  <2>1. [kind |-> "size", sized |-> FALSE] \in Result /\ [kind |-> "size", sized |-> FALSE] # Failed
    BY DEF Result, Failed
  <2>2. Return(c, [kind |-> "size", sized |-> FALSE])
    BY <1>3 DEF IsCompleteIndex
  <2> QED
    BY <1>1, <1>2, <2>1, <2>2, EndInv
<1>4. CASE call[c].piece \notin Complete
  <2>1. Goto(c, "build")
    BY <1>4 DEF IsCompleteIndex
  <2>2. call'[c].pc # "idle"
    BY <2>1 DEF Goto, IInv, CallsRight, Typed
  <2>3. \A d \in kept'[c] : PieceOf[d] # call[c].piece
    BY <1>1, <1>2, <1>4, <2>2, KeptBefore DEF OnWay
  <2> QED
    BY <1>1, <1>2, <2>1, <2>3, GotoInv
<1> QED
  BY <1>3, <1>4

LEMMA BuildIndexForPieceInv ==
  ASSUME IInv, NEW P, Keep(P), NEW c \in Callers, BuildIndexForPiece(c)
  PROVE  IInv'
<1>1. call[c].pc = "build" /\ UNCHANGED <<tables, sectors, lock, shared>>
  BY DEF BuildIndexForPiece, CallOnly, At
<1>2. InCall(call[c]) /\ Shape(call[c]) /\ call[c].op = "size"
  BY <1>1, Shapes, CallFields DEF InCall, PCs, IInv, CallsRight, Shape, TryPCs, DealPCs, Ops
<1>3. ASSUME call'[c].pc # "idle", NEW d \in kept'[c] PROVE PieceOf[d] # call[c].piece
  BY <1>1, <1>2, <1>3, KeptBefore DEF OnWay
<1>4. CASE PieceFails(c)
  BY <1>1, <1>2, <1>3, <1>4, PieceFailsQuietly
<1>5. CASE Goto(c, "sizeAgain")
  <2>1. call'[c].pc # "idle"
    BY <1>5 DEF Goto, IInv, CallsRight, Typed
  <2> QED
    BY <1>1, <1>2, <1>3, <1>5, <2>1, GotoInv
<1> QED
  BY <1>4, <1>5 DEF BuildIndexForPiece

LEMMA GetSizeAgainInv ==
  ASSUME IInv, NEW P, Keep(P), NEW c \in Callers, GetSizeAgain(c)
  PROVE  IInv'
<1>1. call[c].pc = "sizeAgain" /\ UNCHANGED <<tables, sectors, lock, shared>>
  BY DEF GetSizeAgain, CallOnly, At
<1>2. InCall(call[c]) /\ Shape(call[c]) /\ call[c].op = "size"
  BY <1>1, Shapes, CallFields DEF InCall, PCs, IInv, CallsRight, Shape, TryPCs, DealPCs, Ops
<1>3. ASSUME call'[c].pc # "idle", NEW d \in kept'[c] PROVE PieceOf[d] # call[c].piece
  BY <1>1, <1>2, <1>3, KeptBefore DEF OnWay
<1>4. CASE RecordOf(c) = None
  BY <1>1, <1>2, <1>3, <1>4, PieceFailsQuietly DEF GetSizeAgain
<1>5. CASE RecordOf(c) # None
  <2>1. RecordOf(c) \in Record
    BY <1>1, <1>2, <1>5, RecordTyped
  <2>2. PICK result \in Result : Return(c, result) /\ result # Failed
    BY <1>5, <2>1, SizeResults DEF GetSizeAgain
  <2> QED
    BY <1>1, <1>2, <2>2, EndInv
<1> QED
  BY <1>4, <1>5

LEMMA GetIterableIndexInv ==
  ASSUME IInv, NEW P, Keep(P), NEW c \in Callers, GetIterableIndex(c)
  PROVE  IInv'
<1>1. call[c].pc = "index" /\ UNCHANGED <<tables, sectors, lock, shared>>
  BY DEF GetIterableIndex, CallOnly, At
<1>2. InCall(call[c]) /\ Shape(call[c]) /\ call[c].op = "view"
  BY <1>1, Shapes, CallFields DEF InCall, PCs, IInv, CallsRight, Shape, TryPCs, DealPCs, Ops
<1>3. CASE \A b \in Blocks : records[call[c].piece][b] = None
  <2>1. PieceFails(c)
    BY <1>3 DEF GetIterableIndex
  <2>2. ASSUME call'[c].pc # "idle", NEW d \in kept'[c] PROVE PieceOf[d] # call[c].piece
    BY <1>2, <1>3, <2>2, KeptRecord
  <2> QED
    BY <1>1, <1>2, <2>1, <2>2, PieceFailsQuietly
<1>4. CASE ~ \A b \in Blocks : records[call[c].piece][b] = None
  <2>1. Goto(c, "layout")
    BY <1>4 DEF GetIterableIndex
  <2>2. PICK m \in Call : m.pc = "layout" /\ Stays(c, m)
    BY <1>2, <2>1, GoesTo DEF PCs, IInv, CallsRight
  <2>3. Shape(m) /\ m.pc \notin TryPCs /\ Moves(c, m) /\ \A d \in kept'[c] : OnWay(m, d)
    BY <1>1, <1>2, <2>2 DEF Shape, Stays, Moves, TryPCs, DealPCs, OnWay
  <2> QED
    BY <1>1, <1>2, <2>2, <2>3, OnwardInv
<1> QED
  BY <1>3, <1>4

LEMMA NewBlockstoreInv ==
  ASSUME IInv, NEW P, Keep(P), NEW c \in Callers, NewBlockstore(c)
  PROVE  IInv'
<1>1. call[c].pc = "layout" /\ UNCHANGED <<tables, sectors, lock, shared>>
      /\ Return(c, [kind |-> "store"])
  BY DEF NewBlockstore, CallOnly, At
<1>2. InCall(call[c]) /\ [kind |-> "store"] \in Result /\ [kind |-> "store"] # Failed
  BY <1>1 DEF InCall, PCs, Result, Failed
<1> QED
  BY <1>1, <1>2, EndInv

-----------------------------------------------------------------------------
(* Around the calls, and all together.                                     *)

\* A deal that is kept can still serve after the change: else it is no longer kept.
LEMMA AroundInv ==
  ASSUME IInv, NEW P, Keep(P), UNCHANGED <<call, lock>>, Typed',
         \A p \in Pieces : shared'[p] = shared[p] \/ (shared[p] # "filling" /\ shared'[p] = None)
  PROVE  IInv'
<1>1. Shaped' /\ Locks'
  BY DEF IInv, CallsRight, Shaped, Locks, At, Sector
<1>2. \A e \in Callers : Filling(call[e]) => call[e].piece \in Pieces
  BY Shapes DEF IInv, Filling, Shape, InCall, PCs, TryPCs, DealPCs
<1>3. Fills'
  BY <1>2 DEF IInv, CallsRight, Fills
<1>4. ASSUME NEW b \in Callers, InCall(call[b]), NEW d \in kept'[b]
      PROVE  /\ d \in kept[b] /\ PieceOf[d] \in Pieces
             /\ OnWay(call[b], d) /\ Serves(call[b], d)'
  <2>1. call'[b].pc # "idle" /\ ~At(b, "returned")
    BY <1>4 DEF InCall, PCs, At
  <2> QED
    BY <1>4, <2>1, KeptBefore, KeptAfter
<1>5. KeptServe'
  BY <1>4 DEF KeptServe
<1>6. KeptUntried'
  BY <1>4 DEF KeptUntried, WaitsFor, IInv, KeptRight
<1>7. KeptUnspoiled'
  <2>1. None # "err"
    BY RetrievalAssumption
  <2> QED
    BY <1>4, <2>1 DEF KeptUnspoiled, IInv, KeptRight
<1>8. ServedIfPossible'
  BY DEF ServedIfPossible, IInv, KeptRight, At, Keep
<1> QED
  BY <1>1, <1>3, <1>5, <1>6, <1>7, <1>8, KeptTyped DEF IInv, CallsRight, KeptRight

LEMMA AroundTyped ==
  ASSUME Typed, Around
  PROVE  Typed' /\ UNCHANGED <<call, lock>>
         /\ \A p \in Pieces :
              shared'[p] = shared[p] \/ (shared[p] # "filling" /\ shared'[p] = None)
<1>1. CASE IndexChanges
  <2>1. UNCHANGED <<unsealed, cache, lock, shared, call>>
    BY <1>1 DEF IndexChanges, sectors
  <2>2. /\ located' \subseteq Blocks \X Pieces
        /\ records' \in [Pieces -> [Blocks -> Record \cup {None}]]
    <3>1. PICK p \in Pieces, b \in Blocks :
            \/ located' = located \ {<<b, p>>} /\ UNCHANGED records
            \/ /\ records' = [records EXCEPT ![p][b] = None]
               /\ located' = located \ {<<b, p>>}
            \/ /\ \E a \in Blocks :
                    records' = [records EXCEPT ![p][b] = [at |-> a, sized |-> b \notin Empty]]
               /\ UNCHANGED located
      BY <1>1 DEF IndexChanges
    <3>2. located' \subseteq Blocks \X Pieces
      BY <3>1 DEF Typed
    <3>3. ASSUME NEW r \in Record \cup {None}, records' = [records EXCEPT ![p][b] = r]
          PROVE  records' \in [Pieces -> [Blocks -> Record \cup {None}]]
      BY <3>3 DEF Typed
    <3>4. \A a \in Blocks : [at |-> a, sized |-> b \notin Empty] \in Record
      BY DEF Record
    <3> QED
      BY <3>1, <3>2, <3>3, <3>4 DEF Typed
  <2> QED
    BY <2>1, <2>2 DEF Typed
<1>2. CASE SectorChanges
  BY <1>2 DEF SectorChanges, tables, Typed
<1>3. CASE \E s \in Sectors : CacheExpires(s)
  BY <1>3 DEF CacheExpires, tables, Typed
<1>4. CASE \E p \in Pieces : SharedReaderExpires(p)
  BY <1>4 DEF SharedReaderExpires, tables, sectors, Typed
<1> QED
  BY <1>1, <1>2, <1>3, <1>4 DEF Around

LEMMA InitInv ==
  ASSUME Init
  PROVE  IInv
<1>1. NoCall \in Calls /\ NoCall.pc = "idle"
  BY DEF Calls, NoCall
<1>2. \A c \in Callers : call[c] = NoCall /\ kept[c] = {}
  BY DEF Init
<1>3. Typed
  <2>1. \A p \in Pieces, b \in Blocks :
          [at |-> b, sized |-> p \in Complete /\ b \notin Empty] \in Record
    BY DEF Record
  <2> QED
    BY <1>1, <2>1 DEF Init, Typed
<1>4. Shaped
  BY <1>1, <1>2 DEF Shaped, Shape, InCall, PCs
<1>5. Locks
  <2>1. \A t \in Stripes : lock[t] = None
    BY DEF Init
  <2> QED
    BY <1>1, <1>2, <2>1, RetrievalAssumption DEF Locks, At
<1>6. Fills
  BY <1>1, <1>2 DEF Fills, Filling, TryPCs, DealPCs
<1>7. KeptRight
  <2>1. kept \in [Callers -> SUBSET Deals]
    BY DEF Init
  <2> QED
    BY <1>2, <2>1 DEF KeptRight, KeptServe, KeptUntried, KeptUnspoiled, ServedIfPossible
<1> QED
  BY <1>3, <1>4, <1>5, <1>6, <1>7 DEF IInv, CallsRight

LEMMA CallInv ==
  ASSUME IInv, NEW P, Keep(P), NEW c \in Callers, CallStep(c)
  PROVE  IInv'
<1>1. CASE BlockstoreGet(c)
  <2>1. PICK b \in Blocks : Begin(c, "get", b, None, "list")
    BY <1>1 DEF BlockstoreGet
  <2> QED
    BY <2>1, BeginInv DEF Ops
<1>2. CASE BlockstoreGetSize(c)
  <2>1. PICK b \in Blocks : Begin(c, "size", b, None, "list")
    BY <1>2 DEF BlockstoreGetSize
  <2> QED
    BY <2>1, BeginInv DEF Ops
<1>3. CASE GetBlockstore(c)
  <2>1. PICK p \in Pieces : Begin(c, "view", None, p, "deals")
    BY <1>3 DEF GetBlockstore
  <2> QED
    BY <2>1, BeginInv DEF Ops
<1>4. CASE Done(c)
  BY <1>4, DoneInv
<1>5. CASE PiecesContainingMultihash(c) \/ NextPiece(c)
  BY <1>5, ListInv, NextPieceInv
<1>6. CASE GetSharedPieceReader(c) \/ AwaitReader(c) \/ NextDeal(c)
  BY <1>6, GetSharedPieceReaderInv, AwaitReaderInv, NextDealInv
<1>7. CASE IsUnsealedCached(c) \/ TakeLock(c) \/ IsUnsealed(c) \/ UnsealSectorAt(c)
  BY <1>7, IsUnsealedCachedInv, TakeLockInv, IsUnsealedInv, UnsealSectorAtInv
<1>8. CASE GetOffsetSize(c) \/ ReadNode(c)
  BY <1>8, GetOffsetSizeInv, ReadNodeInv
<1>9. CASE GetSize(c) \/ IsCompleteIndex(c) \/ BuildIndexForPiece(c) \/ GetSizeAgain(c)
  BY <1>9, GetSizeInv, IsCompleteIndexInv, BuildIndexForPieceInv, GetSizeAgainInv
<1>10. CASE GetIterableIndex(c) \/ NewBlockstore(c)
  BY <1>10, GetIterableIndexInv, NewBlockstoreInv
<1> QED
  BY <1>1, <1>2, <1>3, <1>4, <1>5, <1>6, <1>7, <1>8, <1>9, <1>10 DEF CallStep

LEMMA NextInv ==
  ASSUME IInv, [Next]_vars
  PROVE  IInv'
<1>1. CASE \E c \in Callers : CallStep(c) /\ Keep({})
  BY <1>1, CallInv
<1>2. CASE \E c \in Callers :
             (IsUnsealedFails(c) \/ ReadFails(c) \/ StoreFails(c)) /\ Keep(Lost(c))
  <2>1. PICK c \in Callers :
          (IsUnsealedFails(c) \/ ReadFails(c) \/ StoreFails(c)) /\ Keep(Lost(c))
    BY <1>2
  <2>2. PICK P : P = Lost(c)
    OBVIOUS
  <2> QED
    BY <2>1, <2>2, IsUnsealedFailsInv, ReadFailsInv, StoreFailsInv
<1>3. CASE Around /\ Keep({})
  BY <1>3, AroundTyped, AroundInv DEF IInv, CallsRight
<1>4. CASE UNCHANGED vars
  <2>1. UNCHANGED <<located, records, unsealed, cache, lock, shared, call, kept>>
    BY <1>4 DEF vars, tables, sectors
  <2>2. CallsRight'
    BY <2>1 DEF IInv, CallsRight, Typed, Shaped, Locks, Fills, At, Sector
  <2>3. KeptRight'
    <3>1. ASSUME NEW b \in Callers, NEW d
          PROVE  Serves(call[b], d)' <=> Serves(call[b], d)
      BY <2>1 DEF Serves
    <3>2. KeptServe'
      BY <2>1, <3>1 DEF IInv, KeptRight, KeptServe
    <3>3. KeptUntried' /\ KeptUnspoiled' /\ ServedIfPossible'
      BY <2>1 DEF IInv, KeptRight, KeptUntried, KeptUnspoiled, ServedIfPossible, At, WaitsFor
    <3> QED
      BY <2>1, <3>2, <3>3 DEF IInv, KeptRight
  <2> QED
    BY <2>2, <2>3 DEF IInv
<1> QED
  BY <1>1, <1>2, <1>3, <1>4 DEF Next

-----------------------------------------------------------------------------
(* What follows.                                                           *)

\* In every reachable state: the calls, the locks and the shared readers fit each other, and
\* each deal that could have served a call all along is still before it.
THEOREM Invariance == Spec => []IInv
BY InitInv, NextInv, PTL DEF Spec

\* The state is well-typed, and a caller holds a lock of the sector accessor's IsUnsealed
\* exactly while it asks for the state of the sector.
THEOREM TypeCorrect == Spec => []TypeOK
<1>1. ASSUME IInv PROVE TypeOK
  <2>1. ASSUME NEW c \in Callers
        PROVE  (\E t \in Stripes : lock[t] = c) <=> At(c, "ask")
    <3>1. CASE At(c, "ask")
      <4>1. StripeOf[Sector(c)] \in Stripes
        BY <1>1, <3>1, StripeTaken DEF IInv, At, DealPCs
      <4> QED
        BY <1>1, <3>1, <4>1 DEF IInv, CallsRight, Locks
    <3>2. CASE ~At(c, "ask")
      BY <1>1, <3>2 DEF IInv, CallsRight, Locks
    <3> QED
      BY <3>1, <3>2
  <2> QED
    BY <1>1, <2>1 DEF IInv, CallsRight, Typed, TypeOK, Calls
<1> QED
  BY <1>1, Invariance, PTL

\* A call of BlockstoreGet, BlockstoreGetSize or GetBlockstore fails only when no deal could
\* have served it all along.
THEOREM ServedWhenPossible == Spec => []ServedIfPossible
<1>1. IInv => ServedIfPossible
  BY DEF IInv, KeptRight
<1> QED
  BY <1>1, Invariance, PTL

-----------------------------------------------------------------------------
(* multiReaderAt.ReadAt.                                                   *)

\* The parts follow one another without gaps, and their bytes are those of whole.
Laid(parts, whole) ==
  LET o == Offset(parts) IN
  /\ parts \in Seq(Seq(Int))
  /\ \A k \in 1..Len(parts) : o[k] \in Nat /\ (k = 1 => o[k] = 0)
  /\ \A k \in 2..Len(parts) : o[k] = o[k - 1] + Len(parts[k - 1])
  /\ \A k \in 1..Len(parts) : \A i \in 1..Len(parts[k]) : parts[k][i] = whole[o[k] + i - 1]

\* got is what whole has from off on.
Gets(got, whole, off, n) ==
  got \in Seq(Int) /\ Len(got) = n /\ \A i \in 1..n : got[i] = whole[off + i - 1]

\* How many of len bytes there are among the next n, which may be negative.
Available(len, n) == IF n < 0 THEN 0 ELSE IF n < len THEN n ELSE len

LEMMA MinOfTwo ==
  ASSUME NEW a \in Int, NEW b \in Int
  PROVE  Min({a, b}) = IF a <= b THEN a ELSE b
BY DEF Min

\* A part adds what it has of the bytes that are wanted.
LEMMA ReadPartRight ==
  ASSUME NEW parts, NEW whole, Laid(parts, whole), NEW off \in Nat, NEW len \in Nat,
         NEW k \in 1..Len(parts), NEW got,
         Gets(got, whole, off, Available(len, Offset(parts)[k] - off))
  PROVE  Gets(ReadPart(parts, off, len, got, k), whole, off,
              Available(len, Offset(parts)[k] + Len(parts[k]) - off))
<1> DEFINE o == Offset(parts)
           K == PartsFrom(parts, off)
           n == Len(parts)
           s == parts[k]
<1>1. n \in Nat /\ DOMAIN parts = 1..n /\ \A j \in 1..n : Len(parts[j]) \in Nat
  BY DEF Laid
<1>2. \A j \in 1..n : o[j] \in Nat /\ (j \in K <=> o[j] + Len(parts[j]) > off)
  BY <1>1 DEF Laid, PartsFrom
<1>3. K \subseteq 1..n
  BY <1>1 DEF PartsFrom
<1>4. s \in Seq(Int) /\ Len(s) \in Nat /\ \A i \in 1..Len(s) : s[i] = whole[o[k] + i - 1]
  <2>1. parts \in Seq(Seq(Int)) /\ k \in 1..Len(parts)
    BY DEF Laid
  <2>2. s \in Seq(Int)
    BY <2>1
  <2>3. Len(s) \in Nat
    BY <2>2
  <2>4. \A i \in 1..Len(s) : s[i] = whole[o[k] + i - 1]
    BY DEF Laid
  <2> QED
    BY <2>2, <2>3, <2>4
<1>5. k - 1 \in K <=> o[k] > off
  <2>1. CASE k = 1
    BY <1>2, <1>3, <2>1 DEF Laid
  <2>2. CASE k # 1
    BY <1>2, <2>2 DEF Laid
  <2> QED
    BY <2>1, <2>2
<1> HIDE DEF o, K, n, s
<1>6. PICK a \in Nat, z \in Nat : a = o[k] /\ z = Len(s) /\ (k \in K <=> a + z > off)
  BY <1>2, <1>4 DEF n, s
<1>7. PICK m : m = Available(len, a - off)
  OBVIOUS
<1>8. got \in Seq(Int) /\ Len(got) = m /\ \A i \in 1..m : got[i] = whole[off + i - 1]
  BY <1>6, <1>7 DEF Gets, o
<1>9. PICK skip : skip = IF k - 1 \in K THEN 0 ELSE off - a
  OBVIOUS
<1>10. PICK end : end = Min({z, skip + len - m})
  OBVIOUS
<1>11. ReadPart(parts, off, len, got, k) =
         IF k \notin K THEN got ELSE got \o SubSeq(s, skip + 1, end)
  BY <1>6, <1>8, <1>9, <1>10 DEF ReadPart, K, o, s
<1>12. skip = IF a > off THEN 0 ELSE off - a
  BY <1>5, <1>6, <1>9
<1>13. end = IF z <= skip + len - m THEN z ELSE skip + len - m
  <2>1. skip + len - m \in Int
    BY <1>7, <1>12 DEF Available
  <2> QED
    BY <1>10, <2>1, MinOfTwo
<1>14. PICK l : l = IF skip + 1 <= end THEN end - skip ELSE 0
  OBVIOUS
<1>15. /\ m \in Nat /\ skip \in Nat /\ end \in Int /\ end <= z /\ l \in Nat
       /\ a + z <= off => Available(len, a + z - off) = m
       /\ a + z > off => Available(len, a + z - off) = m + l
       /\ \A i \in 1..l : skip + i \in 1..z /\ a + (skip + i) - 1 = off + m + i - 1
  BY <1>7, <1>12, <1>13, <1>14 DEF Available
<1>16. SUFFICES Gets(ReadPart(parts, off, len, got, k), whole, off, Available(len, a + z - off))
  BY <1>6 DEF o, s
<1>17. CASE k \notin K
  BY <1>6, <1>8, <1>11, <1>15, <1>17 DEF Gets
<1>18. CASE k \in K
  <2>1. PICK t : t = SubSeq(s, skip + 1, end)
    OBVIOUS
  <2>2. t \in Seq(Int) /\ Len(t) = l /\ \A i \in 1..l : t[i] = s[skip + i]
    <3>1. skip + 1 \in Int /\ \A i \in (skip + 1)..end : s[i] \in Int
      BY <1>4, <1>6, <1>15
    <3>2. /\ t \in Seq(Int) /\ Len(t) = IF skip + 1 <= end THEN end - (skip + 1) + 1 ELSE 0
          /\ \A i \in 1..(end - (skip + 1) + 1) : t[i] = s[(skip + 1) + i - 1]
      BY <1>15, <2>1, <3>1, SubSeqProperties
    <3>3. end - (skip + 1) + 1 = end - skip /\ (l # 0 => l = end - skip)
          /\ l = IF skip + 1 <= end THEN end - (skip + 1) + 1 ELSE 0
      BY <1>14, <1>15
    <3>4. ASSUME NEW i \in 1..l PROVE t[i] = s[skip + i]
      <4>1. i \in 1..(end - (skip + 1) + 1) /\ (skip + 1) + i - 1 = skip + i
        BY <1>15, <3>3, <3>4
      <4> QED
        BY <3>2, <4>1
    <3> QED
      BY <3>2, <3>3, <3>4
  <2>3. \A i \in 1..l : t[i] = whole[off + m + i - 1]
    BY <1>4, <1>6, <1>15, <2>2
  <2>4. got \o t \in Seq(Int) /\ Len(got \o t) = m + l
        /\ \A i \in 1..(m + l) : (got \o t)[i] = IF i <= m THEN got[i] ELSE t[i - m]
    BY <1>8, <2>2, ConcatProperties
  <2>5. ASSUME NEW i \in 1..(m + l) PROVE (got \o t)[i] = whole[off + i - 1]
    <3>1. CASE i <= m
      BY <1>8, <1>15, <2>4, <3>1
    <3>2. CASE ~(i <= m)
      <4>1. i - m \in 1..l /\ off + m + (i - m) - 1 = off + i - 1
        BY <1>15, <3>2
      <4> QED
        BY <2>3, <2>4, <3>2, <4>1
    <3> QED
      BY <3>1, <3>2
  <2> QED
    BY <1>6, <1>11, <1>15, <1>18, <2>1, <2>4, <2>5 DEF Gets
<1> QED
  BY <1>17, <1>18

\* The same, with the places of the part as numbers.
LEMMA PartRight ==
  ASSUME NEW parts, NEW whole, Laid(parts, whole), NEW off \in Nat, NEW len \in Nat,
         NEW k \in 1..Len(parts), NEW a \in Nat, NEW z \in Nat,
         a = Offset(parts)[k], z = Len(parts[k]),
         NEW got, Gets(got, whole, off, Available(len, a - off))
  PROVE  Gets(ReadPart(parts, off, len, got, k), whole, off, Available(len, a + z - off))
<1>1. Gets(got, whole, off, Available(len, Offset(parts)[k] - off))
  OBVIOUS
<1>2. Gets(ReadPart(parts, off, len, got, k), whole, off,
           Available(len, Offset(parts)[k] + Len(parts[k]) - off))
  BY <1>1, ReadPartRight
<1> QED
  BY <1>2

\* Where one part is, or where three are: the recursion of Offset unfolded.
LEMMA OffsetUnfolds ==
  ASSUME NEW parts, Len(parts) \in {1, 3}, DOMAIN parts = 1..Len(parts)
  PROVE  LET o == Offset(parts) IN
         /\ o[1] = 0
         /\ Len(parts) = 3 => o[2] = o[1] + Len(parts[1]) /\ o[3] = o[2] + Len(parts[2])
<1> DEFINE Step(f) == [k \in DOMAIN parts |-> IF k = 1 THEN 0 ELSE f[k - 1] + Len(parts[k - 1])]
<1>1. \E f : f = Step(f)
  <2> DEFINE a == 0 + Len(parts[1])
             b == a + Len(parts[2])
             f == [k \in 1..Len(parts) |-> IF k = 1 THEN 0 ELSE IF k = 2 THEN a ELSE b]
  <2>1. f = Step(f)
    <3> HIDE DEF a, b
    <3>1. CASE Len(parts) = 1
      BY <3>1
    <3>2. CASE Len(parts) = 3
      <4>1. f[1] = 0 /\ f[2] = a /\ f[3] = b
        BY <3>2
      <4>2. ASSUME NEW k \in 1..3 PROVE f[k] = IF k = 1 THEN 0 ELSE f[k - 1] + Len(parts[k - 1])
        <5>1. CASE k = 1
          BY <4>1, <5>1
        <5>2. CASE k = 2
          BY <4>1, <5>2 DEF a
        <5>3. CASE k = 3
          BY <4>1, <5>3 DEF b
        <5> QED
          BY <5>1, <5>2, <5>3
      <4> QED
        BY <3>2, <4>2
    <3> QED
      BY <3>1, <3>2
  <2> QED
    BY <2>1
<1> DEFINE o == Offset(parts)
<1>2. o = CHOOSE f : f = Step(f)
  BY DEF Offset
<1>3. o = Step(o)
  BY <1>1, <1>2
<1> HIDE DEF o
<1>4. \A k \in 1..Len(parts) : o[k] = IF k = 1 THEN 0 ELSE o[k - 1] + Len(parts[k - 1])
  BY <1>3
<1>5. o[1] = 0
  BY <1>4
<1>6. Len(parts) = 3 => o[2] = o[1] + Len(parts[1]) /\ o[3] = o[2] + Len(parts[2])
  BY <1>4
<1> QED
  BY <1>5, <1>6 DEF o

\* The read comes to the end, and the last bytes are not counted.
Cut(parts, off, len, eof) ==
  eof /\ off + len >= Offset(parts)[Len(parts)] + Len(parts[Len(parts)])

LEMMA ReadAtUnfolds ==
  ASSUME NEW parts, Len(parts) \in {1, 3}, NEW off, NEW len, NEW eof \in BOOLEAN
  PROVE  LET R(got, k) == ReadPart(parts, off, len, got, k) IN
         /\ Len(parts) = 1 /\ ~Cut(parts, off, len, eof) =>
              ReadAt(parts, off, len, eof) = R(<<>>, 1)
         /\ Len(parts) = 3 =>
              ReadAt(parts, off, len, eof) =
                IF Cut(parts, off, len, eof) THEN R(R(<<>>, 1), 2) ELSE R(R(R(<<>>, 1), 2), 3)
<1> DEFINE R(got, k) == ReadPart(parts, off, len, got, k)
           Step(f) == [k \in 0..Len(parts) |-> IF k = 0 THEN <<>> ELSE R(f[k - 1], k)]
<1>1. \E f : f = Step(f)
  <2> DEFINE a == R(<<>>, 1)
             b == R(a, 2)
             c == R(b, 3)
             f == [k \in 0..Len(parts) |-> IF k = 0 THEN <<>> ELSE IF k = 1 THEN a
                                           ELSE IF k = 2 THEN b ELSE c]
  <2>1. f = Step(f)
    <3>1. CASE Len(parts) = 1
      BY <3>1
    <3>2. CASE Len(parts) = 3
      <4>1. \A k \in 0..3 : f[k] = Step(f)[k]
        BY <3>2
      <4> QED
        BY <3>2, <4>1
    <3> QED
      BY <3>1, <3>2
  <2> QED
    BY <2>1
<1> DEFINE g == CHOOSE f : f = Step(f)
<1>2. g = Step(g)
  BY <1>1
<1>3. ReadAt(parts, off, len, eof) =
        IF Cut(parts, off, len, eof) THEN g[Len(parts) - 1] ELSE g[Len(parts)]
  BY DEF ReadAt, Cut
<1> HIDE DEF g
<1>4. \A k \in 0..Len(parts) : g[k] = IF k = 0 THEN <<>> ELSE R(g[k - 1], k)
  BY <1>2
<1>5. g[0] = <<>> /\ g[1] = R(g[0], 1)
  BY <1>4
<1>6. Len(parts) = 3 => g[2] = R(g[1], 2) /\ g[3] = R(g[2], 3)
  BY <1>4
<1>7. CASE Len(parts) = 1
  <2>1. ~Cut(parts, off, len, eof) => ReadAt(parts, off, len, eof) = g[1]
    BY <1>3, <1>7
  <2> QED
    BY <1>5, <1>7, <2>1
<1>8. CASE Len(parts) = 3
  <2>1. ReadAt(parts, off, len, eof) = IF Cut(parts, off, len, eof) THEN g[2] ELSE g[3]
    BY <1>3, <1>8
  <2> QED
    BY <1>5, <1>6, <1>8, <2>1
<1> QED
  BY <1>7, <1>8

\* One part or three are read as if they were one, but for the last one's bytes if they come
\* with io.EOF.
LEMMA ReadAtRight ==
  ASSUME NEW parts, NEW whole, Laid(parts, whole), Len(parts) \in {1, 3},
         NEW size \in Nat, Offset(parts)[Len(parts)] + Len(parts[Len(parts)]) = size,
         NEW off \in Nat, NEW len \in Nat, NEW eof \in BOOLEAN, eof => Len(parts) = 3
  PROVE  LET n == Len(parts) IN
         Gets(ReadAt(parts, off, len, eof), whole, off,
              Available(len, (IF eof /\ off + len >= size THEN Offset(parts)[n] ELSE size) - off))
<1> DEFINE o == Offset(parts)
           R(got, k) == ReadPart(parts, off, len, got, k)
<1>1. o[1] = 0 /\ 1 \in 1..Len(parts)
  <2>1. 1 \in 1..Len(parts)
    <3>1. CASE Len(parts) = 1
      BY <3>1
    <3>2. CASE Len(parts) = 3
      BY <3>2
    <3> QED
      BY <3>1, <3>2
  <2> QED
    BY <2>1 DEF Laid
<1>2. Gets(<<>>, whole, off, Available(len, 0 - off))
  <2>1. Available(len, 0 - off) = 0
    BY DEF Available
  <2> QED
    BY <2>1, EmptySeq DEF Gets
<1>3. PICK x \in Nat : x = Len(parts[1])
  BY <1>1 DEF Laid
<1>4. Gets(R(<<>>, 1), whole, off, Available(len, x - off))
  <2>1. Gets(R(<<>>, 1), whole, off, Available(len, 0 + x - off))
    BY <1>1, <1>2, <1>3, PartRight
  <2>2. 0 + x - off = x - off
    OBVIOUS
  <2> QED
    BY <2>1, <2>2
<1>5. CASE Len(parts) = 1
  <2>1. x = size
    BY <1>1, <1>3, <1>5
  <2>2. ~eof /\ ~Cut(parts, off, len, eof)
    BY <1>5 DEF Cut
  <2> QED
    BY <1>4, <1>5, <2>1, <2>2, ReadAtUnfolds
<1>6. CASE Len(parts) = 3
  <2>1. PICK y \in Nat, z \in Nat : y = Len(parts[2]) /\ z = Len(parts[3])
    BY <1>6 DEF Laid
  <2>2. o[2] = x /\ o[3] = x + y
    <3>1. o[2] = o[1] + Len(parts[1]) /\ o[3] = o[2] + Len(parts[2])
      BY <1>6 DEF Laid
    <3> QED
      BY <1>1, <1>3, <2>1, <3>1
  <2>3. PICK w \in Nat : w = x + y
    OBVIOUS
  <2>4. PICK b : b = R(<<>>, 1)
    OBVIOUS
  <2>5. PICK c : c = R(b, 2)
    OBVIOUS
  <2>6. 2 \in 1..Len(parts) /\ 3 \in 1..Len(parts)
    BY <1>6
  <2>7. Gets(c, whole, off, Available(len, w - off))
    <3>1. Gets(b, whole, off, Available(len, x - off)) /\ x = Offset(parts)[2]
      BY <1>4, <2>2, <2>4
    <3>2. Gets(c, whole, off, Available(len, x + y - off))
      BY <2>1, <2>5, <2>6, <3>1, PartRight
    <3> QED
      BY <2>3, <3>2
  <2>8. Gets(R(c, 3), whole, off, Available(len, w + z - off))
    <3>1. w = Offset(parts)[3]
      BY <2>2, <2>3
    <3> QED
      BY <2>1, <2>6, <2>7, <3>1, PartRight
  <2>9. w + z = size
    BY <1>6, <2>1, <2>2, <2>3
  <2>10. ReadAt(parts, off, len, eof) = IF eof /\ off + len >= size THEN c ELSE R(c, 3)
    <3>1. ReadAt(parts, off, len, eof) =
            IF Cut(parts, off, len, eof) THEN R(R(<<>>, 1), 2) ELSE R(R(R(<<>>, 1), 2), 3)
      BY <1>6, ReadAtUnfolds
    <3>2. Cut(parts, off, len, eof) <=> eof /\ off + len >= size
      BY DEF Cut
    <3> QED
      BY <2>4, <2>5, <3>1, <3>2
  <2> QED
    BY <1>6, <2>2, <2>3, <2>7, <2>8, <2>9, <2>10
<1> QED
  BY <1>5, <1>6

LEMMA BytesRight ==
  ASSUME NEW from \in Nat, NEW to \in Nat, from <= to
  PROVE  /\ Bytes(from, to) \in Seq(Int) /\ Len(Bytes(from, to)) = to - from
         /\ \A i \in 1..(to - from) : Bytes(from, to)[i] = from + i - 1
BY DEF Bytes

\* What the blockstore should find: at each offset the byte of the piece that is there, and at
\* the start the header of the payload.
Whole(p) ==
  LET D == DataOffset[p] IN
  [x \in 0..(PieceLen - 1) |->
     IF D = 0 \/ x >= D + HeaderLen THEN x ELSE IF x < HeaderLen THEN D + x ELSE -1]

LEMMA PartsLaid ==
  ASSUME NEW p \in Pieces
  PROVE  LET parts == Parts(p)
             n == Len(parts)
         IN /\ Laid(parts, Whole(p)) /\ n \in {1, 3}
            /\ Offset(parts)[n] + Len(parts[n]) = PieceLen
<1>1. PICK D \in Nat : D = DataOffset[p]
  BY RetrievalAssumption
<1>2. HeaderLen \in Nat \ {0} /\ PieceLen \in Nat /\ D + HeaderLen <= PieceLen
  BY <1>1, RetrievalAssumption
<1>3. PICK parts : parts = Parts(p)
  OBVIOUS
<1>4. CASE D = 0
  <2>1. PICK b : b = Bytes(0, PieceLen)
    OBVIOUS
  <2>2. b \in Seq(Int) /\ Len(b) = PieceLen /\ \A i \in 1..PieceLen : b[i] = i - 1
    <3>1. b \in Seq(Int) /\ Len(b) = PieceLen - 0 /\ \A i \in 1..(PieceLen - 0) : b[i] = 0 + i - 1
      BY <1>2, <2>1 DEF Bytes
    <3>2. PieceLen - 0 = PieceLen
      BY <1>2
    <3> QED
      BY <3>1, <3>2
  <2>3. parts = <<b>> /\ Len(parts) = 1 /\ DOMAIN parts = 1..1 /\ parts[1] = b
        /\ parts \in Seq(Seq(Int))
    BY <1>1, <1>3, <1>4, <2>1, <2>2 DEF Parts
  <2>4. PICK o, w : o = Offset(parts) /\ w = Whole(p)
    OBVIOUS
  <2>5. o[1] = 0
    BY <2>3, <2>4, OffsetUnfolds
  <2>6. \A i \in 1..PieceLen : b[i] = w[0 + i - 1]
    <3>1. \A j \in 0..(PieceLen - 1) : w[j] = j
      BY <1>1, <1>4, <2>4 DEF Whole
    <3>2. \A i \in 1..PieceLen : i - 1 \in 0..(PieceLen - 1) /\ 0 + i - 1 = i - 1
      BY <1>2
    <3> QED
      BY <2>2, <3>1, <3>2
  <2>7. Laid(parts, w)
    <3>1. \A k \in 1..1 : o[k] \in Nat /\ (k = 1 => o[k] = 0)
      BY <2>5
    <3>2. \A i \in 1..Len(parts[1]) : parts[1][i] = w[o[1] + i - 1]
      BY <2>2, <2>3, <2>5, <2>6
    <3> QED
      BY <2>3, <2>4, <3>1, <3>2 DEF Laid
  <2>8. o[1] + Len(parts[1]) = PieceLen
    BY <1>2, <2>2, <2>3, <2>5
  <2> QED
    BY <1>3, <2>3, <2>4, <2>7, <2>8
<1>5. CASE D # 0
  <2>0. PICK e \in Nat : e = D + HeaderLen /\ D <= e /\ e <= PieceLen /\ e - D = HeaderLen
    BY <1>2
  <2>1. PICK h, z : h = Bytes(D, e) /\ z = Bytes(e, PieceLen)
    OBVIOUS
  <2>2. PICK gap : gap = [i \in 1..D |-> -1]
    OBVIOUS
  <2>3. h \in Seq(Int) /\ Len(h) = HeaderLen /\ \A i \in 1..HeaderLen : h[i] = D + i - 1
    <3>1. h \in Seq(Int) /\ Len(h) = e - D /\ \A i \in 1..(e - D) : h[i] = D + i - 1
      BY <2>0, <2>1, BytesRight
    <3> QED
      BY <2>0, <3>1
  <2>4. gap \in Seq(Int) /\ Len(gap) = D /\ \A i \in 1..D : gap[i] = -1
    BY <2>2
  <2>5. z \in Seq(Int) /\ Len(z) = PieceLen - e /\ \A i \in 1..(PieceLen - e) : z[i] = e + i - 1
    BY <1>2, <2>0, <2>1, BytesRight
  <2>6. /\ parts = <<h, gap, z>> /\ Len(parts) = 3 /\ DOMAIN parts = 1..3
        /\ parts[1] = h /\ parts[2] = gap /\ parts[3] = z /\ parts \in Seq(Seq(Int))
    <3>1. parts = <<h, gap, z>>
      BY <1>1, <1>3, <1>5, <2>0, <2>1, <2>2 DEF Parts
    <3>2. \A s, t, u \in Seq(Int) : <<s, t, u>> \in Seq(Seq(Int)) /\ Len(<<s, t, u>>) = 3
      OBVIOUS
    <3>3. parts[1] = h /\ parts[2] = gap /\ parts[3] = z /\ DOMAIN parts = 1..3
      BY <3>1
    <3> QED
      BY <2>3, <2>4, <2>5, <3>1, <3>2, <3>3
  <2>7. PICK o : o = Offset(parts)
    OBVIOUS
  <2>8. o[1] = 0 /\ o[2] = HeaderLen /\ o[3] = HeaderLen + D
    <3>1. o[1] = 0 /\ o[2] = o[1] + Len(h) /\ o[3] = o[2] + Len(gap)
      <4>1. Len(parts) \in {1, 3} /\ DOMAIN parts = 1..Len(parts) /\ Len(parts) = 3
        BY <2>6
      <4>2. o[1] = 0 /\ o[2] = o[1] + Len(parts[1]) /\ o[3] = o[2] + Len(parts[2])
        BY <2>7, <4>1, OffsetUnfolds
      <4> QED
        BY <2>6, <4>2
    <3> QED
      BY <1>2, <2>3, <2>4, <3>1
  <2>9. PICK w : w = Whole(p)
    OBVIOUS
  <2>10. \A x \in 0..(PieceLen - 1) :
           w[x] = IF x >= D + HeaderLen THEN x ELSE IF x < HeaderLen THEN D + x ELSE -1
    BY <1>1, <1>5, <2>9 DEF Whole
  <2>11. \A i \in 1..HeaderLen : h[i] = w[o[1] + i - 1]
    BY <1>2, <2>3, <2>8, <2>10
  <2>12. \A i \in 1..D : gap[i] = w[o[2] + i - 1]
    BY <1>2, <2>4, <2>8, <2>10
  <2>13. \A i \in 1..Len(z) : z[i] = w[o[3] + i - 1]
    BY <1>2, <2>0, <2>5, <2>8, <2>10
  <2>14. Laid(parts, w)
    <3>1. \A k \in 1..3 : o[k] \in Nat /\ (k = 1 => o[k] = 0)
      BY <1>2, <2>8
    <3>2. \A k \in 2..3 : o[k] = o[k - 1] + Len(parts[k - 1])
      BY <1>2, <2>3, <2>4, <2>6, <2>8
    <3>3. ASSUME NEW k \in 1..3 PROVE \A i \in 1..Len(parts[k]) : parts[k][i] = w[o[k] + i - 1]
      <4>1. CASE k = 1
        BY <2>3, <2>6, <2>11, <4>1
      <4>2. CASE k = 2
        BY <2>4, <2>6, <2>12, <4>2
      <4>3. CASE k = 3
        BY <2>6, <2>13, <4>3
      <4> QED
        BY <4>1, <4>2, <4>3
    <3> QED
      BY <2>6, <2>7, <3>1, <3>2, <3>3 DEF Laid
  <2>15. o[3] + Len(parts[3]) = PieceLen
    BY <1>2, <2>0, <2>5, <2>6, <2>8
  <2> QED
    BY <1>3, <2>6, <2>7, <2>9, <2>14, <2>15
<1> QED
  BY <1>4, <1>5

-----------------------------------------------------------------------------
(* What a call returns.                                                    *)

\* r answers call k.
Answers(r, k) ==
  /\ r.kind = "block" => r.block = k.block
  /\ r.kind = "store" => k.piece \in Pieces

ReturnsRight == \A c \in Callers : At(c, "returned") => Answers(call[c].result, call[c])

LEMMA NoReturn ==
  ASSUME ReturnsRight, \A c \in Callers : At(c, "returned")' => UNCHANGED call[c]
  PROVE  ReturnsRight'
BY DEF ReturnsRight, At

LEMMA ReturnRight ==
  ASSUME IInv, ReturnsRight, NEW c \in Callers, InCall(call[c]),
         NEW result \in Result, Return(c, result), Answers(result, call[c])
  PROVE  ReturnsRight'
<1>1. PICK m \in Returned : Ends(c, m, result)
  BY EndsWith DEF IInv, CallsRight
<1>2. call'[c] = m /\ \A e \in Callers \ {c} : call'[e] = call[e]
  BY <1>1 DEF Ends, Becomes, IInv, CallsRight, Typed
<1>3. Answers(m.result, m)
  BY <1>1 DEF Ends, Answers
<1> QED
  BY <1>2, <1>3 DEF ReturnsRight, At

LEMMA GotoRight ==
  ASSUME IInv, ReturnsRight, NEW c \in Callers, InCall(call[c]), NEW pc \in PCs, Goto(c, pc)
  PROVE  ReturnsRight'
<1>1. PICK m \in Call : m.pc = pc /\ Stays(c, m)
  BY GoesTo DEF IInv, CallsRight
<1>2. call'[c] = m /\ \A e \in Callers \ {c} : call'[e] = call[e]
  BY <1>1 DEF Stays, Moves, Becomes, IInv, CallsRight, Typed
<1> QED
  BY <1>1, <1>2 DEF ReturnsRight, At, PCs

LEMMA PieceFailsRight ==
  ASSUME IInv, ReturnsRight, NEW c \in Callers, InCall(call[c]), PieceFails(c)
  PROVE  ReturnsRight'
<1>1. Failed \in Result /\ Answers(Failed, call[c]) /\ "piece" \in PCs
  BY DEF Result, Failed, Answers, PCs
<1> QED
  BY <1>1, ReturnRight, GotoRight DEF PieceFails

LEMMA ListFailsRight ==
  ASSUME IInv, ReturnsRight, NEW c \in Callers, At(c, "list"), ListFails(c)
  PROVE  ReturnsRight'
<1>1. InCall(call[c]) /\ call[c].block \in Blocks
  BY Shapes DEF InCall, PCs, At, IInv, Shape, TryPCs, DealPCs
<1>2. PICK r \in Result : Return(c, r) /\ Answers(r, call[c])
  BY <1>1, ListFailsTo DEF Answers
<1> QED
  BY <1>1, <1>2, ReturnRight

LEMMA ReaderStepsRight ==
  ASSUME IInv, ReturnsRight, NEW c \in Callers,
         \/ GetSharedPieceReader(c) \/ AwaitReader(c) \/ NextDeal(c)
         \/ IsUnsealedCached(c) \/ TakeLock(c) \/ IsUnsealed(c) \/ UnsealSectorAt(c)
         \/ IsUnsealedFails(c) \/ ReadFails(c) \/ StoreFails(c)
  PROVE  ReturnsRight'
<1>1. InCall(call[c])
  BY DEF GetSharedPieceReader, AwaitReader, NextDeal, IsUnsealedCached, TakeLock, IsUnsealed,
         UnsealSectorAt, IsUnsealedFails, ReadFails, StoreFails, NoDealTried, At, InCall, PCs
<1>2. \/ PieceFails(c) \/ TryDeal(c) \/ (At(c, "list") /\ ListFails(c))
      \/ \E pc \in {"deals", "wait", "offset", "index", "lock", "ask", "open"} : Goto(c, pc)
  <2>1. CASE GetSharedPieceReader(c) \/ AwaitReader(c)
    BY <2>1 DEF GetSharedPieceReader, AwaitReader
  <2>2. CASE NextDeal(c)
    BY <2>2 DEF NextDeal, GotReader
  <2>3. CASE IsUnsealedCached(c) \/ TakeLock(c) \/ IsUnsealed(c)
    BY <2>3 DEF IsUnsealedCached, TakeLock, IsUnsealed, AfterIsUnsealed
  <2>4. CASE UnsealSectorAt(c)
    BY <2>4 DEF UnsealSectorAt, GotReader
  <2>5. CASE IsUnsealedFails(c) \/ ReadFails(c) \/ StoreFails(c)
    BY <2>5 DEF IsUnsealedFails, ReadFails, StoreFails, GotReader
  <2> QED
    BY <2>1, <2>2, <2>3, <2>4, <2>5
<1>3. CASE TryDeal(c)
  <2>1. call'[c].pc \in {"cached", "deals"} /\ \A e \in Callers \ {c} : call'[e] = call[e]
    BY <1>1, <1>3, CallFields DEF TryDeal, GetReader, IInv, CallsRight, Typed, Call
  <2> QED
    BY <2>1, NoReturn DEF At
<1>4. CASE At(c, "list") /\ ListFails(c)
  BY <1>4, ListFailsRight
<1> QED
  BY <1>1, <1>2, <1>3, <1>4, PieceFailsRight, GotoRight DEF PCs

LEMMA DataStepsRight ==
  ASSUME IInv, ReturnsRight, NEW c \in Callers,
         \/ GetOffsetSize(c) \/ ReadNode(c)
         \/ GetSize(c) \/ IsCompleteIndex(c) \/ BuildIndexForPiece(c) \/ GetSizeAgain(c)
         \/ GetIterableIndex(c) \/ NewBlockstore(c)
  PROVE  ReturnsRight'
<1>1. InCall(call[c]) /\ Shape(call[c])
  BY Shapes DEF GetOffsetSize, ReadNode, GetSize, IsCompleteIndex, BuildIndexForPiece,
         GetSizeAgain, GetIterableIndex, NewBlockstore, At, InCall, PCs, IInv
<1>2. CASE GetOffsetSize(c)
  <2>1. CASE PieceFails(c)
    BY <1>1, <2>1, PieceFailsRight
  <2>2. CASE call' = [call EXCEPT ![c].at = RecordOf(c).at, ![c].pc = "read"]
    <3>1. call'[c].pc = "read" /\ \A e \in Callers \ {c} : call'[e] = call[e]
      BY <1>1, <2>2, CallFields DEF IInv, CallsRight, Typed, Call
    <3> QED
      BY <3>1, NoReturn DEF At
  <2> QED
    BY <1>2, <2>1, <2>2 DEF GetOffsetSize
<1>3. CASE ReadNode(c)
  <2>1. CASE PieceFails(c)
    BY <1>1, <2>1, PieceFailsRight
  <2>2. CASE ~PieceFails(c)
    <3>1. call[c].at = call[c].block /\ call[c].at \in Blocks
      BY <1>1, <1>3, <2>2 DEF ReadNode, At, Shape
    <3>2. PICK r : r = [kind |-> "block", block |-> call[c].at]
      OBVIOUS
    <3>3. r \in Result /\ Answers(r, call[c]) /\ Return(c, r)
      BY <1>3, <3>1, <3>2 DEF ReadNode, Result, Answers
    <3> QED
      BY <1>1, <3>3, ReturnRight
  <2> QED
    BY <2>1, <2>2
<1>4. CASE GetSize(c) \/ IsCompleteIndex(c) \/ BuildIndexForPiece(c) \/ GetSizeAgain(c)
  <2>1. call[c].op = "size" /\ call[c].pc \notin {"list", "piece"}
    BY <1>1, <1>4, CallFields DEF GetSize, IsCompleteIndex, BuildIndexForPiece, GetSizeAgain, At,
       Shape, TryPCs, DealPCs, Ops, IInv, CallsRight
  <2>2. RecordOf(c) \in Record \cup {None}
    BY <1>1, <2>1, RecordTyped
  <2>3. ASSUME NEW sized \in BOOLEAN, Return(c, [kind |-> "size", sized |-> sized])
        PROVE  ReturnsRight'
    <3>1. PICK r : r = [kind |-> "size", sized |-> sized]
      OBVIOUS
    <3>2. r \in Result /\ Answers(r, call[c])
      BY <3>1 DEF Result, Answers
    <3> QED
      BY <1>1, <2>3, <3>1, <3>2, ReturnRight
  <2>4. \/ PieceFails(c) \/ Goto(c, "complete") \/ Goto(c, "build") \/ Goto(c, "sizeAgain")
        \/ \E sized \in BOOLEAN : Return(c, [kind |-> "size", sized |-> sized])
    <3>1. RecordOf(c) # None => RecordOf(c).sized \in BOOLEAN
      BY <2>2 DEF Record
    <3> QED
      BY <1>4, <3>1 DEF GetSize, IsCompleteIndex, BuildIndexForPiece, GetSizeAgain, SizeResult
  <2> QED
    BY <1>1, <2>3, <2>4, PieceFailsRight, GotoRight DEF PCs
<1>5. CASE GetIterableIndex(c)
  BY <1>1, <1>5, PieceFailsRight, GotoRight DEF GetIterableIndex, PCs
<1>6. CASE NewBlockstore(c)
  <2>1. call[c].piece \in Pieces
    BY <1>1, <1>6 DEF NewBlockstore, At, Shape
  <2>2. PICK r : r = [kind |-> "store"]
    OBVIOUS
  <2>3. r \in Result /\ Answers(r, call[c]) /\ Return(c, r)
    BY <1>6, <2>1, <2>2 DEF NewBlockstore, Result, Answers
  <2> QED
    BY <1>1, <2>3, ReturnRight
<1> QED
  BY <1>2, <1>3, <1>4, <1>5, <1>6

LEMMA ListStepsRight ==
  ASSUME IInv, ReturnsRight, NEW c \in Callers,
         PiecesContainingMultihash(c) \/ NextPiece(c)
  PROVE  ReturnsRight'
<1>1. InCall(call[c]) /\ Shape(call[c])
  BY Shapes DEF PiecesContainingMultihash, NextPiece, At, InCall, PCs, IInv
<1>2. CASE NextPiece(c)
  <2>1. PICK pc \in {"shared", "size"}, p \in call[c].pieces, D \in SUBSET Deals :
          call' = [call EXCEPT ![c].piece = p, ![c].pieces = @ \ {p}, ![c].deals = D, ![c].pc = pc]
    BY <1>2 DEF NextPiece, DealsOf
  <2>2. call'[c].pc = pc /\ \A e \in Callers \ {c} : call'[e] = call[e]
    BY <1>1, <2>1, CallFields DEF IInv, CallsRight, Typed, Call
  <2> QED
    BY <2>2, NoReturn DEF At
<1>3. CASE PiecesContainingMultihash(c)
  <2> DEFINE b == call[c].block
             L == {p \in Pieces : <<b, p>> \in located}
  <2>1. CASE L # {}
    <3>1. call'[c].pc = "piece" /\ \A e \in Callers \ {c} : call'[e] = call[e]
      BY <1>1, <1>3, <2>1, CallFields
      DEF PiecesContainingMultihash, IInv, CallsRight, Typed, Call
    <3> QED
      BY <3>1, NoReturn DEF At
  <2>2. CASE L = {}
    BY <1>3, <2>2, ListFailsRight DEF PiecesContainingMultihash
  <2> QED
    BY <2>1, <2>2
<1> QED
  BY <1>2, <1>3

LEMMA ReturnsNext ==
  ASSUME IInv, ReturnsRight, [Next]_vars
  PROVE  ReturnsRight'
<1>1. ASSUME NEW c \in Callers, CallStep(c) \/ IsUnsealedFails(c) \/ ReadFails(c) \/ StoreFails(c)
      PROVE  ReturnsRight'
  <2>1. CASE BlockstoreGet(c) \/ BlockstoreGetSize(c) \/ GetBlockstore(c)
    <3>1. ASSUME NEW op, NEW b, NEW p, NEW pc \in {"list", "deals"}, Begin(c, op, b, p, pc)
          PROVE  call'[c].pc = pc /\ \A e \in Callers \ {c} : call'[e] = call[e]
      BY <3>1 DEF Begin, IInv, CallsRight, Typed
    <3>2. call'[c].pc \in {"list", "deals"} /\ \A e \in Callers \ {c} : call'[e] = call[e]
      BY <2>1, <3>1 DEF BlockstoreGet, BlockstoreGetSize, GetBlockstore
    <3> QED
      BY <3>2, NoReturn DEF At
  <2>2. CASE Done(c)
    <3>1. call'[c].pc = "idle" /\ \A e \in Callers \ {c} : call'[e] = call[e]
      BY <2>2 DEF Done, NoCall, IInv, CallsRight, Typed
    <3> QED
      BY <3>1, NoReturn DEF At
  <2> QED
    BY <1>1, <2>1, <2>2, ReaderStepsRight, DataStepsRight, ListStepsRight DEF CallStep
<1>2. CASE Around
  BY <1>2, AroundTyped, NoReturn DEF IInv, CallsRight
<1>3. CASE UNCHANGED vars
  BY <1>3, NoReturn DEF vars
<1> QED
  BY <1>1, <1>2, <1>3 DEF Next

\* A read of the blockstore gives the bytes that are there, all of them up to the end but for
\* one that comes to the end and is told so at once.
LEMMA ReadsWhole ==
  ASSUME NEW p \in Pieces, NEW off \in 0..PieceLen, NEW len \in Nat,
         NEW eof \in {FALSE, DataOffset[p] # 0}
  PROVE  LET read == ReadAt(Parts(p), off, len, eof)
             n == Min({len, PieceLen - off})
         IN /\ read = [i \in 1..Len(read) |-> Whole(p)[off + i - 1]]
            /\ IF eof /\ off + len >= PieceLen THEN Len(read) <= n ELSE Len(read) = n
            /\ Len(read) \in Nat /\ Len(read) <= n
<1>0. eof \in BOOLEAN /\ (eof => DataOffset[p] # 0)
  OBVIOUS
<1>1. off \in Nat /\ PieceLen \in Nat /\ off <= PieceLen
  BY RetrievalAssumption
<1>2. PICK n : n = Min({len, PieceLen - off})
  OBVIOUS
<1>3. n = IF len <= PieceLen - off THEN len ELSE PieceLen - off
  BY <1>1, <1>2, MinOfTwo
<1>4. PICK r : r = ReadAt(Parts(p), off, len, eof)
  OBVIOUS
<1>5. PICK x \in Nat : /\ Gets(r, Whole(p), off, Available(len, x - off))
                       /\ x <= PieceLen /\ (~(eof /\ off + len >= PieceLen) => x = PieceLen)
  <2>1. PICK parts : parts = Parts(p)
    OBVIOUS
  <2>2. PICK k : k = Len(parts)
    OBVIOUS
  <2>3. /\ Laid(parts, Whole(p)) /\ k \in {1, 3}
        /\ Offset(parts)[k] + Len(parts[k]) = PieceLen
    BY <2>1, <2>2, PartsLaid
  <2>4. Offset(parts)[k] \in Nat /\ Len(parts[k]) \in Nat /\ Offset(parts)[k] <= PieceLen
    <3>1. k \in 1..Len(parts)
      BY <2>2, <2>3
    <3>2. Offset(parts)[k] \in Nat /\ Len(parts[k]) \in Nat
      BY <2>3, <3>1 DEF Laid
    <3> QED
      BY <1>1, <2>3, <3>2
  <2>5. eof => k = 3
    <3>1. ASSUME eof PROVE parts = << Bytes(DataOffset[p], DataOffset[p] + HeaderLen),
                                      [i \in 1..DataOffset[p] |-> -1],
                                      Bytes(DataOffset[p] + HeaderLen, PieceLen) >>
      BY <1>0, <2>1, <3>1 DEF Parts
    <3>2. \A s, t, u : Len(<<s, t, u>>) = 3
      OBVIOUS
    <3> QED
      BY <2>2, <3>1, <3>2
  <2>6. Gets(ReadAt(parts, off, len, eof), Whole(p), off,
             Available(len, (IF eof /\ off + len >= PieceLen THEN Offset(parts)[k] ELSE PieceLen)
                              - off))
    BY <1>0, <1>1, <2>2, <2>3, <2>5, ReadAtRight
  <2>7. CASE eof /\ off + len >= PieceLen
    BY <1>1, <1>4, <2>1, <2>4, <2>6, <2>7
  <2>8. CASE ~(eof /\ off + len >= PieceLen)
    BY <1>1, <1>4, <2>1, <2>6, <2>8
  <2> QED
    BY <2>7, <2>8
<1>6. PICK l : l = Available(len, x - off)
  OBVIOUS
<1>7. l \in Nat /\ l <= n /\ (x = PieceLen => l = n)
  BY <1>1, <1>3, <1>5, <1>6 DEF Available
<1>8. Len(r) = l /\ r = [i \in 1..l |-> r[i]] /\ \A i \in 1..l : r[i] = Whole(p)[off + i - 1]
  BY <1>5, <1>6 DEF Gets
<1>9. r = [i \in 1..l |-> Whole(p)[off + i - 1]]
  BY <1>8
<1>10. r = [i \in 1..Len(r) |-> Whole(p)[off + i - 1]]
  BY <1>8, <1>9
<1>11. IF eof /\ off + len >= PieceLen THEN Len(r) <= n ELSE Len(r) = n
  BY <1>5, <1>7, <1>8
<1> QED
  BY <1>2, <1>4, <1>7, <1>8, <1>10, <1>11

\* What a call returns is what was asked for: the block has the multihash, and the blockstore
\* over a CARv1 or CARv2 of any size finds each byte of the payload at its offset in the piece,
\* and gets fewer than there are only with an error, at the end.
THEOREM RightBlockReturned == Spec => []RightBlock
<1>1. Init => ReturnsRight
  BY DEF Init, ReturnsRight, At, NoCall
<1>2. Spec => []ReturnsRight
  BY <1>1, Invariance, ReturnsNext, PTL DEF Spec
<1>3. ASSUME ReturnsRight PROVE RightBlock
  <2>1. ASSUME NEW c \in Callers, At(c, "returned"), call[c].result.kind = "store",
               NEW off \in 0..PieceLen, NEW len \in 1..PieceLen,
               NEW eof \in {FALSE, DataOffset[call[c].piece] # 0}
        PROVE  LET D == DataOffset[call[c].piece]
                   byte(x) == IF D = 0 \/ x >= D + HeaderLen THEN x
                              ELSE IF x < HeaderLen THEN D + x ELSE -1
                   read == ReadAt(Parts(call[c].piece), off, len, eof)
                   n == Min({len, PieceLen - off})
               IN /\ read = [i \in 1..Len(read) |-> byte(off + i - 1)]
                  /\ IF eof /\ off + len >= PieceLen THEN Len(read) <= n ELSE Len(read) = n
    <3>1. PICK p \in Pieces : p = call[c].piece
      BY <1>3, <2>1 DEF ReturnsRight, Answers
    <3>2. PICK n, r, l : n = Min({len, PieceLen - off}) /\ r = ReadAt(Parts(p), off, len, eof)
                         /\ l = Len(r)
      OBVIOUS
    <3>3. /\ r = [i \in 1..l |-> Whole(p)[off + i - 1]] /\ l \in Nat /\ l <= n
          /\ IF eof /\ off + len >= PieceLen THEN l <= n ELSE l = n
      <4>1. eof \in {FALSE, DataOffset[p] # 0} /\ off \in 0..PieceLen
        BY <3>1
      <4>2. len \in Nat
        BY RetrievalAssumption
      <4>3. LET read == ReadAt(Parts(p), off, len, eof)
                k == Min({len, PieceLen - off})
            IN /\ read = [i \in 1..Len(read) |-> Whole(p)[off + i - 1]]
               /\ IF eof /\ off + len >= PieceLen THEN Len(read) <= k ELSE Len(read) = k
               /\ Len(read) \in Nat /\ Len(read) <= k
        BY <4>1, <4>2, ReadsWhole
      <4> QED
        BY <3>2, <4>3
    <3>4. \A i \in 1..l : off + i - 1 \in 0..(PieceLen - 1)
      <4>1. PieceLen \in Nat
        BY RetrievalAssumption
      <4>2. n = IF len <= PieceLen - off THEN len ELSE PieceLen - off
        BY <3>2, <4>1, MinOfTwo
      <4> QED
        BY <3>3, <4>1, <4>2
    <3>5. \A i \in 1..l :
            Whole(p)[off + i - 1] =
              LET D == DataOffset[p]
                  x == off + i - 1
              IN IF D = 0 \/ x >= D + HeaderLen THEN x ELSE IF x < HeaderLen THEN D + x ELSE -1
      BY <3>4 DEF Whole
    <3> QED
      BY <3>1, <3>2, <3>3, <3>5
  <2>2. ASSUME NEW c \in Callers, At(c, "returned"), call[c].result.kind = "block"
        PROVE  call[c].result.block = call[c].block
    BY <1>3, <2>2 DEF ReturnsRight, Answers
  <2> QED
    BY <2>1, <2>2 DEF RightBlock
<1> QED
  BY <1>2, <1>3, PTL

=============================================================================
