---------------------------- MODULE MCRetrieval ----------------------------
(***************************************************************************)
(* An instance of Retrieval: the first piece has a deal in each of two     *)
(* sectors.  The other, a CARv2 with an incomplete index, has one in the   *)
(* second sector, and one of a miner without an endpoint.                  *)
(***************************************************************************)
EXTENDS Retrieval, TLC

CONSTANTS c1, c2, p1, p2, b1, b2, d1, d2, d3, d4, s1, s2, t

Symmetry == Permutations(Callers)

MCPieceOf == d1 :> p1 @@ d2 :> p1 @@ d3 :> p2 @@ d4 :> p2
MCSectorOf == d1 :> s1 @@ d2 :> s2 @@ d3 :> s2 @@ d4 :> s1
MCStripeOf == s1 :> t @@ s2 :> t
MCDataOffset == p1 :> 0 @@ p2 :> 2

=============================================================================
