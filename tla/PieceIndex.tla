----------------------------- MODULE PieceIndex -----------------------------
(***************************************************************************)
(* What the LevelDB local index directory promises to its callers: every   *)
(* piece has its own set of deals, and every piece that was indexed before *)
(* it got a deal has its own index, which an operation on another piece    *)
(* never touches.  The pieces that a deal made known share one index: what *)
(* is put for one of them is read for each, and the removal of one clears  *)
(* it for all.                                                             *)
(*                                                                         *)
(* An index entry is a multihash together with the piece whose CAR the     *)
(* stored offset points into.                                              *)
(***************************************************************************)
CONSTANTS Pieces, Deals, Hashes

VARIABLES
  dealsOf,   \* the deals recorded for each piece
  indexOf,   \* the index entries a caller can read for each piece
  sharing    \* the pieces that a deal made known

piVars == <<dealsOf, indexOf, sharing>>

Entry == [mh: Hashes, of: Pieces]

PITypeOK ==
  /\ dealsOf \in [Pieces -> SUBSET Deals]
  /\ indexOf \in [Pieces -> SUBSET Entry]
  /\ sharing \in SUBSET Pieces

PIInit ==
  /\ dealsOf = [p \in Pieces |-> {}]
  /\ indexOf = [p \in Pieces |-> {}]
  /\ sharing = {}

\* The pieces whose index is the index of p.
Group(p) == IF p \in sharing THEN sharing ELSE {p}

RecordDeal(p) ==
  /\ \E d \in Deals : dealsOf' = [dealsOf EXCEPT ![p] = @ \cup {d}]
  /\ UNCHANGED <<indexOf, sharing>>

\* The first thing ever recorded of p is a deal.
JoinShared(p) ==
  /\ p \notin sharing
  /\ dealsOf[p] = {} /\ indexOf[p] = {}
  /\ \E d \in Deals : dealsOf' = [dealsOf EXCEPT ![p] = {d}]
  /\ indexOf' = [indexOf EXCEPT ![p] = UNION {indexOf[q] : q \in sharing}]
  /\ sharing' = sharing \cup {p}

ForgetDeal(p) ==
  /\ \E d \in dealsOf[p] : dealsOf' = [dealsOf EXCEPT ![p] = @ \ {d}]
  /\ UNCHANGED <<indexOf, sharing>>

\* Some entries of the piece itself become readable, in the place of what was
\* there under the same multihash.
ExtendIndex(p) ==
  /\ \E H \in SUBSET Hashes :
       indexOf' = [q \in Pieces |->
         IF q \in Group(p)
         THEN {e \in indexOf[q] : e.mh \notin H} \cup [mh: H, of: {p}]
         ELSE indexOf[q]]
  /\ UNCHANGED <<dealsOf, sharing>>

ClearIndex(p) ==
  /\ indexOf' = [q \in Pieces |-> IF q \in Group(p) THEN {} ELSE indexOf[q]]
  /\ UNCHANGED <<dealsOf, sharing>>

\* Forgetting the piece comes after its index is cleared.
ForgetPiece(p) ==
  /\ indexOf[p] = {}
  /\ dealsOf' = [dealsOf EXCEPT ![p] = {}]
  /\ sharing' = sharing \ {p}
  /\ UNCHANGED indexOf

PINext ==
  \E p \in Pieces :
    \/ RecordDeal(p)
    \/ JoinShared(p)
    \/ ForgetDeal(p)
    \/ ExtendIndex(p)
    \/ ClearIndex(p)
    \/ ForgetPiece(p)

PISpec == PIInit /\ [][PINext]_piVars

=============================================================================
