---------------------------- MODULE MCLdbDoctor ----------------------------
(***************************************************************************)
(* An instance of LdbDoctor for TLC: the first piece has a market deal and *)
(* a direct deal in different sectors, the second piece one deal.          *)
(***************************************************************************)
EXTENDS LdbDoctor, TLC

CONSTANTS d1, d2, d3, s1, s2

MCPieceOf == (d1 :> 1) @@ (d2 :> 1) @@ (d3 :> 2)
MCSectorOf == (d1 :> s1) @@ (d2 :> s2) @@ (d3 :> s2)

=============================================================================
