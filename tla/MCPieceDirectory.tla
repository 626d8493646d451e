-------------------------- MODULE MCPieceDirectory --------------------------
(***************************************************************************)
(* Instances of PieceDirectory for TLC: one piece has a deal whose data    *)
(* can be read, as segments, and one whose data cannot; the other has one  *)
(* whose data is one CAR.                                                  *)
(***************************************************************************)
EXTENDS PieceDirectory

CONSTANTS c1, c2, c3, p1, p2, good, bad, other

MCPieceOf == (good :> p1) @@ (bad :> p1) @@ (other :> p2)

\* Two blocks, and none.
Cars == {<<1, 2>>, <<>>, Broken}

Segment(offset, verdict, car) == [offset |-> offset, verdict |-> verdict, car |-> car]

MCData ==
  (good :> [car |-> Broken, index |-> <<Segment(0, "valid", <<1, 2>>)>>]) @@
  (bad :> [car |-> Broken, index |-> <<Segment(0, "valid", Broken)>>]) @@
  (other :> [car |-> <<1, 2>>, index |-> Broken])

\* Up to five segments, apart or, with a distance of one, overlapping.
Inputs ==
  LET kinds == [verdict: {"valid"}, car: Cars] \cup [verdict: {"invalid", "unknown"}, car: {<<1>>}]
      indexes == {[i \in DOMAIN s |-> Segment(gap * i, s[i].verdict, s[i].car)] :
                    s \in SeqOf(kinds, 5), gap \in {1, 10}}
  IN [car: Cars, index: indexes \cup {Broken}]

MCContents == Inputs \cup Range(MCData)

Symmetry == Permutations({c1, c2, c3})
=============================================================================
