---------------------------- MODULE MCYbTracker ----------------------------
(* YbTracker with miners and pieces that can be exchanged.                 *)
EXTENDS YbTracker, TLC

Symmetry == Permutations(Miners) \cup Permutations(Pieces)

=============================================================================
