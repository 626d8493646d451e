----------------------------- MODULE MCLdbStore -----------------------------
(* Instances of LdbStore for TLC. *)
EXTENDS LdbStore, TLC

CONSTANTS p1, p2, h1, h2, d1, d2, u1, u2

MCUuidOf == (d1 :> u1) @@ (d2 :> u2)
MCOneDeal == d1 :> u1

Symmetry == Permutations({p1, p2}) \cup Permutations({h1, h2})
=============================================================================
