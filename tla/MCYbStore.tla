------------------------------ MODULE MCYbStore ------------------------------
(***************************************************************************)
(* An instance of YbStore for TLC: every deal is of one piece, and a CAR   *)
(* gives all its records or, if it could not be parsed, none.              *)
(***************************************************************************)
EXTENDS YbStore

CONSTANTS p1

OnePiece == [d \in Deals |-> p1]

AllOrNone == {{}, Hashes}

=============================================================================
