----------------------------- MODULE PieceData -----------------------------
(***************************************************************************)
(* What addIndexForPiece makes of the data of a piece                      *)
(* (lib/boost/piecedirectory/piecedirectory.go:336-373 and 412-608).       *)
(*                                                                         *)
(* A piece may hold several CARs, the segments, and at its end an index of *)
(* where they are.  Without a good index it is taken for one CAR.          *)
(*                                                                         *)
(* A CAR is the sequence of the offsets of its blocks, counted from its    *)
(* own beginning, or Broken; that the blocks are those of the CAR is the   *)
(* work of libraries.  A piece has the CAR that begins at its beginning    *)
(* and its data segment index, a sequence of entries or Broken.  Broken    *)
(* also stands for a result that is an error.                              *)
(***************************************************************************)
EXTENDS Integers, SequencesExt

CONSTANTS
  NumCPU, PodsiMinConcurrency, PodsiMaxConcurrency,
  Broken

ASSUME PieceDataAssumption ==
  /\ NumCPU \in Nat \ {0}
  /\ PodsiMinConcurrency \in Nat \ {0}
  /\ PodsiMaxConcurrency \in Nat /\ PodsiMinConcurrency <= PodsiMaxConcurrency

\* Entry.Validate says that an entry is valid, that it is not, or something else.
Verdicts == {"valid", "invalid", "unknown"}

\* The blocks of a CAR follow one another, so no two of them are at the same place.
Car == {s \in Seq(Nat) : IsInjective(s)}
Entry == [offset: Nat, verdict: Verdicts, car: Car \cup {Broken}]
Content == [car: Car \cup {Broken}, index: Seq(Entry) \cup {Broken}]

ASSUME BrokenAssumption == Broken \notin Seq(Nat) \cup Seq(Entry)

-----------------------------------------------------------------------------
parseRecordsFromCar(car) == car

\* A panic of the library is taken for an error.
parseDataSegmentIndex(piece) == piece.index

\* What res holds after each entry: the ones that are not valid are left out.
Kept(entries) ==
  LET res[i \in 0..Len(entries)] ==
        IF i = 0 THEN <<>>
        ELSE IF entries[i].verdict = "valid" THEN Append(res[i - 1], entries[i])
        ELSE res[i - 1]
  IN res

\* Any other error ends it.
validateEntries(entries) ==
  IF \E i \in DOMAIN entries : entries[i].verdict = "unknown" THEN Broken
  ELSE Kept(entries)[Len(entries)]

\* How many goroutines validate n entries.
Concurrency(n) == Min({Max({NumCPU, PodsiMinConcurrency}), PodsiMaxConcurrency, n})

\* Mutant: the last goroutine takes no more than the others.
ChunkEven(entries, i) ==
  LET size == Len(entries) \div Concurrency(Len(entries))
  IN SubSeq(entries, (i - 1) * size + 1, i * size)

\* What goroutine i of them validates: the last one also takes the rest.
Chunk(entries, i) ==
  LET k == Concurrency(Len(entries))
      size == Len(entries) \div k
  IN SubSeq(entries, (i - 1) * size + 1, IF i = k THEN Len(entries) ELSE i * size)

\* The valid segments, in order, from what each goroutine found.
ValidSegments(entries) ==
  LET results == [i \in 1..Concurrency(Len(entries)) |-> validateEntries(Chunk(entries, i))]
  IN IF \E i \in DOMAIN results : results[i] = Broken THEN Broken ELSE FlattenSeq(results)

\* The blocks of a segment, at their offsets in the piece.
SegmentRecords(s) ==
  LET recs == parseRecordsFromCar(s.car)
  IN IF recs = Broken THEN Broken ELSE [i \in DOMAIN recs |-> recs[i] + s.offset]

\* One valid segment that cannot be parsed is an error of the whole.
parsePieceWithDataSegmentIndex(piece) ==
  LET entries == parseDataSegmentIndex(piece)
      segments == ValidSegments(entries)
      recs == [i \in DOMAIN segments |-> SegmentRecords(segments[i])]
  IN IF entries \in {Broken, <<>>} \/ segments \in {Broken, <<>>} THEN Broken
     ELSE IF \E i \in DOMAIN recs : recs[i] = Broken THEN Broken
     ELSE FlattenSeq(recs)

\* The records of a piece.
Parse(piece) ==
  LET recs == parsePieceWithDataSegmentIndex(piece)
  IN IF recs = Broken THEN parseRecordsFromCar(piece.car) ELSE recs

-----------------------------------------------------------------------------
\* The data segment index of a piece can be used: it has valid segments, which are good
\* CARs, and no entry is in doubt.
GoodIndex(piece) ==
  /\ piece.index # Broken
  /\ LET E == Range(piece.index) IN
     /\ \E e \in E : e.verdict = "valid"
     /\ \A e \in E : e.verdict # "unknown" /\ (e.verdict = "valid" => e.car # Broken)

\* A piece can be indexed.
Readable(piece) == GoodIndex(piece) \/ piece.car # Broken

\* Where the block at x of the segment e is.
BlockAt(e, x) == e.offset + e.car[x]

\* Where its blocks are: those of all the valid segments, or of the CAR at the beginning.
BlocksOf(piece) ==
  IF GoodIndex(piece)
  THEN UNION {{BlockAt(e, i) : i \in DOMAIN e.car} :
                e \in {x \in Range(piece.index) : x.verdict = "valid"}}
  ELSE Range(piece.car)

\* No two segments that are used have a block at the same place.
Apart(piece) ==
  \A i, j \in DOMAIN piece.index :
    i # j /\ piece.index[i].verdict = "valid" /\ piece.index[j].verdict = "valid" =>
      \A x \in DOMAIN piece.index[i].car, y \in DOMAIN piece.index[j].car :
        BlockAt(piece.index[i], x) # BlockAt(piece.index[j], y)

\* The parser gives each block of a readable piece once, at its place; once in each of the
\* segments that have it, if they are not apart.
ParsedRight(piece) ==
  /\ Parse(piece) # Broken <=> Readable(piece)
  /\ Readable(piece) => Range(Parse(piece)) = BlocksOf(piece)
  /\ Readable(piece) /\ (GoodIndex(piece) => Apart(piece)) => IsInjective(Parse(piece))

=============================================================================
