------------------------ MODULE PieceDirectoryProofs ------------------------
(***************************************************************************)
(* Theorems about PieceDirectory, for any number of callers, pieces, deals *)
(* and calls, any size of the throttle, and contexts that are cancelled at *)
(* any time.                                                               *)
(***************************************************************************)
EXTENDS PieceDirectory, FiniteSetTheorems, SequenceTheorems, WellFoundedInduction, TLAPS

-----------------------------------------------------------------------------
(* Induction and recursion.                                                *)

\* Induction over the natural numbers, for a set instead of a predicate.
LEMMA Induction ==
  ASSUME NEW P \in SUBSET Nat, 0 \in P, \A n \in P : n + 1 \in P
  PROVE  P = Nat
<1> DEFINE R == {ss \in Nat \X Nat : ss[1] < ss[2]}
           Q == Nat \ P
<1>1. IsWellFoundedOn(R, Nat)
  BY NatLessThanWellFounded DEF OpToRel
<1>2. ASSUME Q # {} PROVE FALSE
  <2>1. PICK n \in Q : \A k \in Q : <<k, n>> \notin R
    <3>1. Q \subseteq Nat
      OBVIOUS
    <3> HIDE DEF R, Q
    <3> QED
      BY <1>1, <1>2, <3>1, WFMin
  <2>2. n \in Nat /\ n # 0
    OBVIOUS
  <2>3. n - 1 \notin P
    BY <2>2
  <2>4. n - 1 \in Q /\ <<n - 1, n>> \in R
    BY <2>2, <2>3
  <2> QED
    BY <2>1, <2>4
<1> QED
  BY <1>2

\* The same up to a bound.
LEMMA BoundedInduction ==
  ASSUME NEW N \in Nat, NEW P, 0 \in P, \A n \in 1..N : n - 1 \in P => n \in P
  PROVE  \A n \in 0..N : n \in P
<1> DEFINE Q == {n \in Nat : n <= N => n \in P}
<1>1. 0 \in Q
  OBVIOUS
<1>2. ASSUME NEW n \in Q PROVE n + 1 \in Q
  <2>1. n \in Nat /\ (n <= N => n \in P)
    OBVIOUS
  <2>2. n + 1 <= N => n + 1 \in 1..N /\ (n + 1) - 1 = n /\ n <= N
    BY <2>1
  <2> QED
    BY <2>1, <2>2
<1>3. Q = Nat
  <2>1. Q \in SUBSET Nat
    OBVIOUS
  <2> HIDE DEF Q
  <2> QED
    BY <1>1, <1>2, <2>1, Induction
<1> QED
  BY <1>3

\* f begins with a and goes on by step up to n.
Follows(f, a, step, n) == f[0] = a /\ \A i \in 1..n : f[i] = step[i][f[i - 1]]

\* A function on 0..N may be given by its first value and a step from each value to the next.
LEMMA Recursion ==
  ASSUME NEW S, NEW a \in S, NEW N \in Nat, NEW step \in [1..N -> [S -> S]]
  PROVE  \E f \in [0..N -> S] : Follows(f, a, step, N)
<1> DEFINE P == {m \in Nat : m <= N => \E f \in [0..m -> S] : Follows(f, a, step, m)}
<1>1. 0 \in P
  <2>1. [k \in 0..0 |-> a] \in [0..0 -> S] /\ Follows([k \in 0..0 |-> a], a, step, 0)
    BY DEF Follows
  <2> QED
    BY <2>1
<1>2. ASSUME NEW m \in 1..N, m - 1 \in P PROVE m \in P
  <2>1. m \in Nat /\ m - 1 \in Nat /\ m - 1 \in 0..(m - 1)
    OBVIOUS
  <2>2. PICK f \in [0..(m - 1) -> S] : Follows(f, a, step, m - 1)
    BY <1>2
  <2>3. PICK b \in S : b = step[m][f[m - 1]]
    BY <2>1
  <2> DEFINE g == [k \in 0..m |-> IF k = m THEN b ELSE f[k]]
  <2>4. g \in [0..m -> S] /\ g[0] = a
    BY <2>1, <2>2 DEF Follows
  <2>5. ASSUME NEW n \in 1..m PROVE g[n] = step[n][g[n - 1]]
    <3>1. n - 1 \in 0..(m - 1) /\ g[n - 1] = f[n - 1]
      BY <2>1
    <3>2. CASE n = m
      <4>1. g[n] = b
        BY <2>1, <3>2
      <4> QED
        BY <2>3, <3>1, <3>2, <4>1
    <3>3. CASE n # m
      <4>1. n \in 1..(m - 1) /\ g[n] = f[n]
        BY <2>1, <3>3
      <4> QED
        BY <2>2, <3>1, <4>1 DEF Follows
    <3> QED
      BY <3>2, <3>3
  <2>6. Follows(g, a, step, m)
    <3> HIDE DEF g
    <3> QED
      BY <2>4, <2>5 DEF Follows
  <2> QED
    BY <2>1, <2>4, <2>6
<1>3. N \in P
  <2>1. N \in 0..N
    OBVIOUS
  <2> HIDE DEF P
  <2> QED
    BY <1>1, <1>2, <2>1, BoundedInduction
<1> QED
  BY <1>3

\* The recursion of Kept unfolded.
LEMMA KeptUnfolds ==
  ASSUME NEW entries \in Seq(Entry)
  PROVE  LET r == Kept(entries) IN
         /\ r \in [0..Len(entries) -> Seq(Entry)] /\ r[0] = <<>>
         /\ \A i \in 1..Len(entries) :
              r[i] = IF entries[i].verdict = "valid" THEN Append(r[i - 1], entries[i])
                     ELSE r[i - 1]
<1> DEFINE N == Len(entries)
           step == [i \in 1..N |-> [r \in Seq(Entry) |->
                      IF entries[i].verdict = "valid" THEN Append(r, entries[i]) ELSE r]]
           Step(f) == [i \in 0..N |->
                        IF i = 0 THEN <<>>
                        ELSE IF entries[i].verdict = "valid" THEN Append(f[i - 1], entries[i])
                        ELSE f[i - 1]]
<1>1. N \in Nat /\ \A i \in 1..N : entries[i] \in Entry
  OBVIOUS
<1>2. step \in [1..N -> [Seq(Entry) -> Seq(Entry)]]
  BY <1>1, AppendProperties
<1>3. PICK f \in [0..N -> Seq(Entry)] : f[0] = <<>> /\ \A i \in 1..N : f[i] = step[i][f[i - 1]]
  <2>1. <<>> \in Seq(Entry) /\ N \in Nat
    BY <1>1, EmptySeq
  <2> DEFINE T == Seq(Entry)
             none == <<>>
  <2>2. none \in T /\ N \in Nat /\ step \in [1..N -> [T -> T]]
    BY <1>2, <2>1
  <2>3. \E f \in [0..N -> T] : Follows(f, none, step, N)
    <3> HIDE DEF step, N, T, none
    <3> QED
      BY <2>2, Recursion
  <2> QED
    BY <2>3 DEF Follows
<1>4. \A i \in 1..N : f[i] = IF entries[i].verdict = "valid" THEN Append(f[i - 1], entries[i])
                             ELSE f[i - 1]
  <2> SUFFICES ASSUME NEW i \in 1..N
               PROVE  f[i] = IF entries[i].verdict = "valid" THEN Append(f[i - 1], entries[i])
                             ELSE f[i - 1]
    OBVIOUS
  <2>1. PICK r \in Seq(Entry) : r = f[i - 1]
    BY <1>1
  <2>2. f[i] = step[i][r]
    BY <1>3, <2>1
  <2> QED
    BY <2>1, <2>2
<1>5. f = Step(f)
  <2>1. DOMAIN f = 0..N /\ \A i \in 0..N : i # 0 => i \in 1..N
    BY <1>1
  <2>2. \A i \in 0..N : f[i] = Step(f)[i]
    BY <1>3, <1>4, <2>1
  <2>3. f = [i \in 0..N |-> f[i]]
    BY <2>1
  <2> QED
    BY <2>2, <2>3
<1> DEFINE g == CHOOSE h : h = Step(h)
<1>6. g = Step(g)
  BY <1>5
<1>7. Kept(entries) = g
  BY DEF Kept
<1> HIDE DEF g
<1>8. DOMAIN g = 0..N /\ g[0] = <<>>
  BY <1>1, <1>6
<1>9. \A i \in 1..N : g[i] = IF entries[i].verdict = "valid" THEN Append(g[i - 1], entries[i])
                             ELSE g[i - 1]
  <2>1. \A i \in 1..N : i \in 0..N /\ i # 0
    BY <1>1
  <2>2. \A i \in 0..N : i # 0 =>
          g[i] = IF entries[i].verdict = "valid" THEN Append(g[i - 1], entries[i]) ELSE g[i - 1]
    <3> HIDE DEF N
    <3> QED
      BY <1>6
  <2> QED
    BY <2>1, <2>2
<1>10. \A i \in 0..N : g[i] \in Seq(Entry)
  <2> DEFINE P == {i \in 0..N : g[i] \in Seq(Entry)}
  <2>1. 0 \in P
    <3>1. 0 \in 0..N /\ <<>> \in Seq(Entry)
      BY <1>1, EmptySeq
    <3> QED
      BY <1>8, <3>1
  <2>2. ASSUME NEW i \in 1..N, i - 1 \in P PROVE i \in P
    <3>1. PICK r \in Seq(Entry) : r = g[i - 1]
      BY <2>2
    <3>2. entries[i] \in Entry /\ i \in 0..N
      BY <1>1
    <3>3. Append(r, entries[i]) \in Seq(Entry)
      BY <3>2, AppendProperties
    <3> QED
      BY <1>9, <3>1, <3>2, <3>3
  <2> HIDE DEF P, N
  <2>3. \A i \in 0..N : i \in P
    BY <1>1, <2>1, <2>2, BoundedInduction
  <2> QED
    BY <2>3 DEF P
<1> QED
  BY <1>6, <1>7, <1>8, <1>9, <1>10

-----------------------------------------------------------------------------
\* Appending to a concatenation appends to its second part.
LEMMA AppendToConcat ==
  ASSUME NEW s \in Seq(Entry), NEW t \in Seq(Entry), NEW e \in Entry
  PROVE  Append(s \o t, e) = s \o Append(t, e)
<1>1. /\ s \o t \in Seq(Entry) /\ Len(s \o t) = Len(s) + Len(t)
      /\ \A i \in 1..Len(s) + Len(t) : (s \o t)[i] = IF i <= Len(s) THEN s[i] ELSE t[i - Len(s)]
  BY ConcatProperties
<1>2. /\ Append(t, e) \in Seq(Entry) /\ Len(Append(t, e)) = Len(t) + 1
      /\ \A i \in 1..Len(t) : Append(t, e)[i] = t[i]
      /\ Append(t, e)[Len(t) + 1] = e
  BY AppendProperties
<1> DEFINE x == Append(s \o t, e)
           y == s \o Append(t, e)
<1>3. PICK m \in Nat, n \in Nat : m = Len(s) /\ n = Len(t)
  OBVIOUS
<1>4. /\ x \in Seq(Entry) /\ Len(x) = m + n + 1
      /\ \A i \in 1..(m + n) : x[i] = IF i <= m THEN s[i] ELSE t[i - m]
      /\ x[m + n + 1] = e
  BY <1>1, <1>3, AppendProperties
<1>5. /\ y \in Seq(Entry) /\ Len(y) = m + (n + 1)
      /\ \A i \in 1..(m + (n + 1)) : y[i] = IF i <= m THEN s[i] ELSE Append(t, e)[i - m]
  BY <1>2, <1>3, ConcatProperties
<1> HIDE DEF x, y
<1>6. ASSUME NEW i \in 1..(m + n + 1) PROVE x[i] = y[i]
  <2>1. CASE i <= m
    BY <1>4, <1>5, <2>1
  <2>2. CASE i > m /\ i <= m + n
    <3>1. i - m \in 1..n
      BY <2>2
    <3> QED
      BY <1>2, <1>3, <1>4, <1>5, <2>2, <3>1
  <2>3. CASE i = m + n + 1
    BY <1>2, <1>3, <1>4, <1>5, <2>3
  <2> QED
    BY <2>1, <2>2, <2>3
<1>7. Len(x) = Len(y) /\ \A i \in 1..Len(x) : x[i] = y[i]
  BY <1>4, <1>5, <1>6
<1>8. x = y
  BY <1>4, <1>5, <1>7, SeqEqual
<1> QED
  BY <1>8 DEF x, y

\* A slice of the entries, from a on.
LEMMA SliceRight ==
  ASSUME NEW entries \in Seq(Entry), NEW a \in 0..Len(entries), NEW b \in a..Len(entries),
         NEW sub, sub = SubSeq(entries, a + 1, b)
  PROVE  /\ sub \in Seq(Entry) /\ Len(sub) = b - a /\ DOMAIN sub = 1..(b - a)
         /\ \A i \in 1..(b - a) : sub[i] = entries[a + i]
<1>1. PICK c \in Nat : c = a + 1
  OBVIOUS
<1>2. c \in Int /\ b \in Int /\ \A i \in c..b : entries[i] \in Entry
  BY <1>1
<1>3. PICK d \in Nat : d = b - a /\ b - c + 1 = d
  BY <1>1
<1>4. /\ sub \in Seq(Entry) /\ Len(sub) = IF c <= b THEN b - c + 1 ELSE 0
      /\ \A i \in 1..(b - c + 1) : sub[i] = entries[c + i - 1]
  BY <1>1, <1>2, SubSeqProperties
<1>5. Len(sub) = d
  BY <1>1, <1>3, <1>4
<1>6. \A i \in 1..d : c + i - 1 = a + i
  BY <1>1
<1>7. \A i \in 1..d : sub[i] = entries[a + i]
  BY <1>3, <1>4, <1>6
<1>8. DOMAIN sub = 1..d
  BY <1>4, <1>5, LenProperties
<1> QED
  BY <1>3, <1>4, <1>5, <1>7, <1>8

\* Keeping on where another scan left off.
LEMMA KeptOfRest ==
  ASSUME NEW entries \in Seq(Entry), NEW a \in 0..Len(entries), NEW b \in a..Len(entries),
         NEW sub, sub = SubSeq(entries, a + 1, b)
  PROVE  Kept(entries)[b] = Kept(entries)[a] \o Kept(sub)[Len(sub)]
<1>1. /\ sub \in Seq(Entry) /\ Len(sub) = b - a
      /\ \A i \in 1..(b - a) : sub[i] = entries[a + i]
  BY SliceRight
<1> DEFINE K == Kept(entries)
           L == Kept(sub)
           P == {i \in 0..(b - a) : K[a + i] = K[a] \o L[i]}
<1>2. /\ K \in [0..Len(entries) -> Seq(Entry)]
      /\ \A i \in 1..Len(entries) :
           K[i] = IF entries[i].verdict = "valid" THEN Append(K[i - 1], entries[i]) ELSE K[i - 1]
  BY KeptUnfolds
<1>3. /\ L \in [0..(b - a) -> Seq(Entry)] /\ L[0] = <<>>
      /\ \A i \in 1..(b - a) :
           L[i] = IF sub[i].verdict = "valid" THEN Append(L[i - 1], sub[i]) ELSE L[i - 1]
  BY <1>1, KeptUnfolds
<1> HIDE DEF K, L
<1>4. 0 \in P
  <2>1. PICK s \in Seq(Entry) : s = K[a]
    BY <1>2
  <2>2. s \o <<>> = s
    BY ConcatEmptySeq
  <2>3. a + 0 = a /\ 0 \in 0..(b - a)
    OBVIOUS
  <2>4. K[a + 0] = K[a] \o L[0]
    BY <1>3, <2>1, <2>2, <2>3
  <2> QED
    BY <2>3, <2>4
<1>5. ASSUME NEW i \in 1..(b - a), i - 1 \in P PROVE i \in P
  <2>1. PICK s \in Seq(Entry) : s = K[a]
    BY <1>2
  <2>2. PICK t \in Seq(Entry) : t = L[i - 1]
    <3>1. i - 1 \in 0..(b - a)
      OBVIOUS
    <3>2. L[i - 1] \in Seq(Entry)
      BY <1>3, <3>1
    <3> QED
      BY <3>2
  <2>3. PICK e \in Entry : e = entries[a + i] /\ e = sub[i]
    <3>1. a + i \in 1..Len(entries) /\ sub[i] = entries[a + i]
      BY <1>1
    <3> QED
      BY <3>1
  <2>4. PICK j \in 1..Len(entries) : j = a + i /\ j - 1 = a + (i - 1)
    OBVIOUS
  <2>5. K[j - 1] = s \o t
    BY <1>5, <2>1, <2>2, <2>4
  <2>6. Append(s \o t, e) = s \o Append(t, e)
    BY AppendToConcat
  <2>7. CASE e.verdict = "valid"
    <3>1. K[j] = Append(s \o t, e) /\ L[i] = Append(t, e)
      BY <1>2, <1>3, <2>2, <2>3, <2>4, <2>5, <2>7
    <3>2. i \in 0..(b - a) /\ K[a + i] = K[a] \o L[i]
      BY <2>1, <2>4, <2>6, <3>1
    <3> QED
      BY <3>2
  <2>8. CASE e.verdict # "valid"
    <3>1. K[j] = s \o t /\ L[i] = t
      BY <1>2, <1>3, <2>2, <2>3, <2>4, <2>5, <2>8
    <3>2. i \in 0..(b - a) /\ K[a + i] = K[a] \o L[i]
      BY <2>1, <2>4, <3>1
    <3> QED
      BY <3>2
  <2> QED
    BY <2>7, <2>8
<1>6. b - a \in P
  <2>1. b - a \in Nat /\ b - a \in 0..(b - a)
    OBVIOUS
  <2> HIDE DEF P
  <2> QED
    BY <1>4, <1>5, <2>1, BoundedInduction
<1>7. a + (b - a) = b
  OBVIOUS
<1> QED
  BY <1>1, <1>6, <1>7 DEF K, L

\* What is kept of the first n entries, len of them, are the valid ones, in their order.
OnlyValid(entries, s, len, n) ==
  \A j \in 1..len : \E i \in 1..n : s[j] = entries[i] /\ entries[i].verdict = "valid"

AllValid(entries, s, len, n) ==
  \A i \in 1..n : entries[i].verdict = "valid" => \E j \in 1..len : s[j] = entries[i]

Before(entries, d, e, n) ==
  \E i, l \in 1..n : /\ i < l /\ d = entries[i] /\ e = entries[l]
                    /\ entries[i].verdict = "valid" /\ entries[l].verdict = "valid"

InOrder(entries, s, len, n) ==
  \A j, k \in 1..len : j < k => Before(entries, s[j], s[k], n)

KeptBy(entries, s, n) ==
  /\ OnlyValid(entries, s, Len(s), n)
  /\ AllValid(entries, s, Len(s), n)
  /\ InOrder(entries, s, Len(s), n)

\* One more entry.
LEMMA KeptByStep ==
  ASSUME NEW entries \in Seq(Entry), NEW n \in 1..Len(entries), NEW s \in Seq(Entry),
         KeptBy(entries, s, n - 1)
  PROVE  IF entries[n].verdict = "valid" THEN KeptBy(entries, Append(s, entries[n]), n)
         ELSE KeptBy(entries, s, n)
<1>1. n - 1 \in Nat /\ \A i \in 1..(n - 1) : i \in 1..n /\ i < n
  OBVIOUS
<1>2. n \in 1..n /\ \A i \in 1..n : i = n \/ i \in 1..(n - 1)
  OBVIOUS
<1>3. CASE entries[n].verdict = "valid"
  <2> DEFINE t == Append(s, entries[n])
  <2>1. entries[n] \in Entry /\ Len(s) \in Nat
    OBVIOUS
  <2>2. PICK m \in Nat : m = Len(s)
    BY <2>1
  <2>3. Len(t) = m + 1 /\ t[m + 1] = entries[n] /\ \A j \in 1..m : t[j] = s[j]
    BY <2>1, <2>2, AppendProperties
  <2>4. \A j \in 1..(m + 1) : j = m + 1 \/ j \in 1..m
    OBVIOUS
  <2> HIDE DEF t
  <2>5. \A j \in 1..(m + 1) : \E i \in 1..n : t[j] = entries[i] /\ entries[i].verdict = "valid"
    <3>1. \A j \in 1..m : \E i \in 1..(n - 1) : s[j] = entries[i] /\ entries[i].verdict = "valid"
      BY <2>2 DEF KeptBy, OnlyValid
    <3> QED
      BY <1>1, <1>2, <1>3, <2>3, <2>4, <3>1
  <2>6. \A i \in 1..n : entries[i].verdict = "valid" => \E j \in 1..(m + 1) : t[j] = entries[i]
    <3>1. \A j \in 1..m : j \in 1..(m + 1)
      OBVIOUS
    <3>2. m + 1 \in 1..(m + 1)
      OBVIOUS
    <3>3. \A i \in 1..(n - 1) : entries[i].verdict = "valid" => \E j \in 1..m : s[j] = entries[i]
      BY <2>2 DEF KeptBy, AllValid
    <3> QED
      BY <1>2, <2>3, <3>1, <3>2, <3>3
  <2>7. InOrder(entries, t, m + 1, n)
    <3> SUFFICES ASSUME NEW j \in 1..(m + 1), NEW k \in 1..(m + 1), j < k
                 PROVE  Before(entries, t[j], t[k], n)
      BY DEF InOrder
    <3>1. j \in 1..m /\ t[j] = s[j]
      BY <2>3
    <3>2. CASE k = m + 1
      <4>1. PICK i \in 1..(n - 1) : s[j] = entries[i] /\ entries[i].verdict = "valid"
        BY <2>2, <3>1 DEF KeptBy, OnlyValid
      <4> QED
        BY <1>1, <1>2, <1>3, <2>3, <3>1, <3>2, <4>1 DEF Before
    <3>3. CASE k # m + 1
      <4>1. k \in 1..m /\ t[k] = s[k]
        BY <2>3, <2>4, <3>3
      <4>2. Before(entries, s[j], s[k], n - 1)
        BY <2>2, <3>1, <4>1 DEF KeptBy, InOrder
      <4> QED
        BY <1>1, <3>1, <4>1, <4>2 DEF Before
    <3> QED
      BY <3>2, <3>3
  <2>8. KeptBy(entries, t, n)
    <3>1. OnlyValid(entries, t, m + 1, n)
      BY <2>5 DEF OnlyValid
    <3>2. AllValid(entries, t, m + 1, n)
      BY <2>6 DEF AllValid
    <3> QED
      BY <2>3, <2>7, <3>1, <3>2 DEF KeptBy
  <2> QED
    BY <1>3, <2>8 DEF t
<1>4. CASE entries[n].verdict # "valid"
  <2>1. KeptBy(entries, s, n)
    BY <1>1, <1>2, <1>4 DEF KeptBy, OnlyValid, AllValid, InOrder, Before
  <2> QED
    BY <1>4, <2>1
<1> QED
  BY <1>3, <1>4

\* What the scan of all the entries keeps.
LEMMA KeptRight ==
  ASSUME NEW entries \in Seq(Entry)
  PROVE  LET s == Kept(entries)[Len(entries)] IN
         s \in Seq(Entry) /\ KeptBy(entries, s, Len(entries))
<1> DEFINE K == Kept(entries)
           N == Len(entries)
           P == {i \in 0..N : KeptBy(entries, K[i], i)}
<1>1. /\ K \in [0..N -> Seq(Entry)] /\ K[0] = <<>>
      /\ \A i \in 1..N :
           K[i] = IF entries[i].verdict = "valid" THEN Append(K[i - 1], entries[i]) ELSE K[i - 1]
  BY KeptUnfolds
<1>2. N \in Nat /\ N \in 0..N /\ 0 \in 0..N
  OBVIOUS
<1> HIDE DEF K
<1>3. 0 \in P
  <2>1. KeptBy(entries, <<>>, 0)
    BY DEF KeptBy, OnlyValid, AllValid, InOrder
  <2> QED
    BY <1>1, <1>2, <2>1
<1>4. ASSUME NEW i \in 1..N, i - 1 \in P PROVE i \in P
  <2>1. PICK s \in Seq(Entry) : s = K[i - 1]
    BY <1>1
  <2>2. KeptBy(entries, s, i - 1)
    BY <1>4, <2>1
  <2>3. IF entries[i].verdict = "valid" THEN KeptBy(entries, Append(s, entries[i]), i)
        ELSE KeptBy(entries, s, i)
    BY <2>2, KeptByStep
  <2>4. i \in 0..N
    OBVIOUS
  <2> HIDE DEF N
  <2> QED
    BY <1>1, <2>1, <2>3, <2>4
<1>5. N \in P
  <2> HIDE DEF P, N
  <2> QED
    BY <1>2, <1>3, <1>4, BoundedInduction
<1> QED
  BY <1>1, <1>2, <1>5 DEF K

-----------------------------------------------------------------------------
\* f[i] is the concatenation of the first i.
Joins(f, seqs) ==
  /\ DOMAIN f = 0..Len(seqs)
  /\ f[0] = <<>> /\ \A i \in 1..Len(seqs) : f[i] = f[i - 1] \o seqs[i]

\* The recursion of FlattenSeq unfolded.
LEMMA FlattenUnfolds ==
  ASSUME NEW S, NEW seqs \in Seq(Seq(S))
  PROVE  \E f \in [0..Len(seqs) -> Seq(S)] : Joins(f, seqs) /\ FlattenSeq(seqs) = f[Len(seqs)]
<1> DEFINE N == Len(seqs)
           T == Seq(S)
           none == <<>>
           step == [i \in 1..N |-> [r \in T |-> r \o seqs[i]]]
<1>1. N \in Nat /\ none \in T /\ \A i \in 1..N : seqs[i] \in T
  BY EmptySeq
<1>2. step \in [1..N -> [T -> T]]
  BY <1>1, ConcatProperties
<1>3. PICK f \in [0..N -> T] : f[0] = none /\ \A i \in 1..N : f[i] = step[i][f[i - 1]]
  <2>1. none \in T /\ N \in Nat /\ step \in [1..N -> [T -> T]]
    BY <1>1, <1>2
  <2>2. \E f \in [0..N -> T] : Follows(f, none, step, N)
    <3> HIDE DEF step, N, T, none
    <3> QED
      BY <2>1, Recursion
  <2> QED
    BY <2>2 DEF Follows
<1>4. \A i \in 1..N : f[i] = f[i - 1] \o seqs[i]
  <2> SUFFICES ASSUME NEW i \in 1..N PROVE f[i] = f[i - 1] \o seqs[i]
    OBVIOUS
  <2>1. i - 1 \in 0..N /\ f[i - 1] \in T
    <3>1. i - 1 \in 0..N
      BY <1>1
    <3> HIDE DEF N, T
    <3> QED
      BY <3>1
  <2>2. PICK r \in T : r = f[i - 1]
    BY <2>1
  <2>3. f[i] = step[i][r]
    BY <1>3, <2>2
  <2> QED
    BY <2>2, <2>3
<1>5. Joins(f, seqs)
  BY <1>3, <1>4 DEF Joins
<1>6. FlattenSeq(seqs) = f[N]
  <2>1. CASE N = 0
    <3>1. seqs = <<>>
      BY <2>1, EmptySeq
    <3>2. FlattenSeq(seqs) = seqs
      BY <2>1 DEF FlattenSeq
    <3> QED
      BY <1>3, <2>1, <3>1, <3>2
  <2>2. CASE N # 0
    <3> DEFINE Step(h) == [i \in 1..N |-> IF i = 1 THEN seqs[i] ELSE h[i - 1] \o seqs[i]]
               g == CHOOSE h : h = Step(h)
               k == [i \in 1..N |-> f[i]]
    <3>1. FlattenSeq(seqs) = g[N]
      BY <2>2 DEF FlattenSeq
    <3>2. \A i \in 1..N : f[i] = IF i = 1 THEN seqs[i] ELSE f[i - 1] \o seqs[i]
      <4>1. 1 \in 1..N => f[1] = seqs[1]
        <5> SUFFICES ASSUME 1 \in 1..N PROVE f[1] = seqs[1]
          OBVIOUS
        <5>1. PICK r \in T : r = seqs[1]
          BY <1>1
        <5>2. <<>> \o r = r
          BY ConcatEmptySeq
        <5>3. f[1] = f[0] \o seqs[1]
          <6>1. 1 - 1 = 0
            OBVIOUS
          <6> HIDE DEF N
          <6> QED
            BY <1>4, <6>1
        <5> QED
          BY <1>3, <5>1, <5>2, <5>3
      <4> QED
        BY <1>4, <4>1
    <3>3. k = Step(k)
      <4>1. \A i \in 1..N : i # 1 => i - 1 \in 1..N
        BY <1>1
      <4> HIDE DEF N
      <4> QED
        BY <3>2, <4>1
    <3>4. g = Step(g)
      BY <3>3
    <3> HIDE DEF g
    <3>5. \A i \in 1..N : g[i] = IF i = 1 THEN seqs[i] ELSE g[i - 1] \o seqs[i]
      <4> HIDE DEF N
      <4> QED
        BY <3>4
    <3> DEFINE P == {i \in 0..N : i # 0 => g[i] = f[i]}
    <3>6. 0 \in P
      BY <1>1
    <3>7. ASSUME NEW i \in 1..N, i - 1 \in P PROVE i \in P
      <4>1. i \in 0..N /\ (i # 1 => g[i - 1] = f[i - 1])
        BY <3>7
      <4>2. g[i] = f[i]
        BY <3>2, <3>5, <4>1
      <4> QED
        BY <4>1, <4>2
    <3>8. N \in P
      <4>1. N \in 0..N
        BY <1>1
      <4> HIDE DEF P, N
      <4> QED
        BY <1>1, <3>6, <3>7, <4>1, BoundedInduction
    <3> QED
      BY <2>2, <3>1, <3>8
  <2> QED
    BY <2>1, <2>2
<1> QED
  BY <1>5, <1>6

\* What is in the concatenation.
LEMMA FlattenRange ==
  ASSUME NEW S, NEW seqs \in Seq(Seq(S))
  PROVE  /\ FlattenSeq(seqs) \in Seq(S)
         /\ Range(FlattenSeq(seqs)) = UNION {Range(seqs[i]) : i \in 1..Len(seqs)}
<1> DEFINE N == Len(seqs)
           U(n) == UNION {Range(seqs[i]) : i \in 1..n}
<1>1. PICK f \in [0..N -> Seq(S)] : Joins(f, seqs) /\ FlattenSeq(seqs) = f[N]
  BY FlattenUnfolds
<1> DEFINE P == {n \in 0..N : Range(f[n]) = U(n)}
<1>2. N \in Nat /\ N \in 0..N /\ 0 \in 0..N
  OBVIOUS
<1>3. 0 \in P
  <2>1. f[0] = <<>> /\ Range(<<>>) = {}
    BY <1>1 DEF Joins, Range
  <2>2. U(0) = {}
    OBVIOUS
  <2> QED
    BY <1>2, <2>1, <2>2
<1>4. ASSUME NEW n \in 1..N, n - 1 \in P PROVE n \in P
  <2>1. PICK s \in Seq(S), t \in Seq(S) : s = f[n - 1] /\ t = seqs[n]
    <3>1. n - 1 \in 0..N /\ seqs[n] \in Seq(S)
      OBVIOUS
    <3> HIDE DEF N
    <3> QED
      BY <3>1
  <2>2. f[n] = s \o t /\ Range(s) = U(n - 1)
    BY <1>1, <1>4, <2>1 DEF Joins
  <2>3. Range(s \o t) = Range(s) \cup Range(t)
    BY RangeConcatenation
  <2>4. U(n) = U(n - 1) \cup Range(seqs[n])
    <3>1. \A i : i \in 1..n <=> i \in 1..(n - 1) \/ i = n
      OBVIOUS
    <3> QED
      BY <3>1
  <2>5. n \in 0..N
    OBVIOUS
  <2> HIDE DEF U, N
  <2> QED
    BY <2>1, <2>2, <2>3, <2>4, <2>5
<1>5. N \in P
  <2> HIDE DEF P, N
  <2> QED
    BY <1>2, <1>3, <1>4, BoundedInduction
<1> QED
  BY <1>1, <1>2, <1>5

\* Two sequences without repetitions that have nothing in common.
LEMMA ConcatInjective ==
  ASSUME NEW S, NEW s \in Seq(S), NEW t \in Seq(S), IsInjective(s), IsInjective(t),
         Range(s) \cap Range(t) = {}
  PROVE  IsInjective(s \o t)
<1>1. PICK m \in Nat, n \in Nat : m = Len(s) /\ n = Len(t)
  OBVIOUS
<1> DEFINE u == s \o t
<1>2. /\ DOMAIN s = 1..m /\ DOMAIN t = 1..n /\ DOMAIN u = 1..(m + n)
      /\ \A i \in 1..(m + n) : u[i] = IF i <= m THEN s[i] ELSE t[i - m]
  BY <1>1, ConcatProperties, LenProperties
<1> HIDE DEF u
<1>3. \A i \in 1..m : s[i] \in Range(s)
  BY <1>2 DEF Range
<1>4. \A i \in 1..n : t[i] \in Range(t)
  BY <1>2 DEF Range
<1> SUFFICES ASSUME NEW i \in 1..(m + n), NEW j \in 1..(m + n), i < j PROVE u[i] # u[j]
  BY <1>2 DEF IsInjective, u
<1>5. CASE j <= m
  BY <1>2, <1>5 DEF IsInjective
<1>6. CASE i <= m /\ j > m
  <2>1. j - m \in 1..n /\ i \in 1..m
    BY <1>6
  <2>2. u[i] = s[i] /\ u[j] = t[j - m]
    BY <1>2, <1>6
  <2> QED
    BY <1>3, <1>4, <2>1, <2>2
<1>7. CASE i > m
  <2>1. i - m \in 1..n /\ j - m \in 1..n /\ i - m # j - m
    BY <1>7
  <2>2. u[i] = t[i - m] /\ u[j] = t[j - m]
    BY <1>2, <1>7
  <2> QED
    BY <1>2, <2>1, <2>2 DEF IsInjective
<1> QED
  BY <1>5, <1>6, <1>7

\* The concatenation of sequences without repetitions that have nothing in common.
LEMMA FlattenInjective ==
  ASSUME NEW S, NEW seqs \in Seq(Seq(S)),
         \A i \in 1..Len(seqs) : IsInjective(seqs[i]),
         \A i, j \in 1..Len(seqs) : i < j => Range(seqs[i]) \cap Range(seqs[j]) = {}
  PROVE  IsInjective(FlattenSeq(seqs))
<1> DEFINE N == Len(seqs)
<1>1. PICK f \in [0..N -> Seq(S)] : Joins(f, seqs) /\ FlattenSeq(seqs) = f[N]
  BY FlattenUnfolds
<1> DEFINE P == {n \in 0..N : /\ IsInjective(f[n])
                             /\ \A x \in Range(f[n]) : \E i \in 1..n : x \in Range(seqs[i])}
<1>2. N \in Nat /\ N \in 0..N /\ 0 \in 0..N
  OBVIOUS
<1>3. 0 \in P
  <2>1. f[0] = <<>> /\ Range(<<>>) = {} /\ IsInjective(<<>>)
    BY <1>1 DEF Joins, Range, IsInjective
  <2> QED
    BY <1>2, <2>1
<1>4. ASSUME NEW n \in 1..N, n - 1 \in P PROVE n \in P
  <2>1. PICK s \in Seq(S), t \in Seq(S) : s = f[n - 1] /\ t = seqs[n]
    <3>1. n - 1 \in 0..N /\ seqs[n] \in Seq(S)
      OBVIOUS
    <3> HIDE DEF N
    <3> QED
      BY <3>1
  <2>2. /\ f[n] = s \o t /\ IsInjective(s) /\ IsInjective(t)
        /\ \A x \in Range(s) : \E i \in 1..(n - 1) : x \in Range(seqs[i])
    BY <1>1, <1>4, <2>1 DEF Joins
  <2>3. Range(s) \cap Range(t) = {}
    <3>1. \A i \in 1..(n - 1) : i < n /\ i \in 1..N
      OBVIOUS
    <3> QED
      BY <2>1, <2>2, <3>1
  <2>4. IsInjective(s \o t)
    BY <2>2, <2>3, ConcatInjective
  <2>5. Range(s \o t) = Range(s) \cup Range(t)
    BY RangeConcatenation
  <2>6. \A x \in Range(s \o t) : \E i \in 1..n : x \in Range(seqs[i])
    <3>1. n \in 1..n /\ \A i \in 1..(n - 1) : i \in 1..n
      OBVIOUS
    <3> HIDE DEF N
    <3> QED
      BY <2>1, <2>2, <2>5, <3>1
  <2>7. n \in 0..N
    OBVIOUS
  <2> HIDE DEF N
  <2> QED
    BY <2>2, <2>4, <2>6, <2>7
<1>5. N \in P
  <2> HIDE DEF P, N
  <2> QED
    BY <1>2, <1>3, <1>4, BoundedInduction
<1> QED
  BY <1>1, <1>5

-----------------------------------------------------------------------------
\* There is a goroutine, and none without an entry.
LEMMA ConcurrencyRight ==
  ASSUME NEW n \in Nat \ {0}
  PROVE  Concurrency(n) \in 1..n
<1> DEFINE a == Max({NumCPU, PodsiMinConcurrency})
<1>1. a \in Nat \ {0}
  <2>1. NumCPU >= PodsiMinConcurrency \/ PodsiMinConcurrency >= NumCPU
    BY PieceDataAssumption
  <2>2. \E x \in {NumCPU, PodsiMinConcurrency} :
          \A y \in {NumCPU, PodsiMinConcurrency} : x >= y
    BY <2>1, PieceDataAssumption
  <2> QED
    BY <2>2, PieceDataAssumption DEF Max
<1> HIDE DEF a
<1>2. PodsiMaxConcurrency \in Nat \ {0}
  BY PieceDataAssumption
<1> DEFINE S == {a, PodsiMaxConcurrency, n}
<1>3. \E x \in S : \A y \in S : x <= y
  <2>1. \/ a <= PodsiMaxConcurrency /\ a <= n
        \/ PodsiMaxConcurrency <= a /\ PodsiMaxConcurrency <= n
        \/ n <= a /\ n <= PodsiMaxConcurrency
    BY <1>1, <1>2
  <2> QED
    BY <1>1, <1>2, <2>1
<1>4. Min(S) \in S /\ \A y \in S : Min(S) <= y
  BY <1>3 DEF Min
<1>5. Min(S) \in Nat \ {0} /\ Min(S) <= n
  BY <1>1, <1>2, <1>4
<1> QED
  BY <1>5 DEF Concurrency, a

\* Where the chunk of goroutine i ends; the next one begins there.
End(n, i) == IF i = Concurrency(n) THEN n ELSE i * (n \div Concurrency(n))

\* The chunks follow one another from the first entry to the last.
LEMMA EndRight ==
  ASSUME NEW n \in Nat \ {0}
  PROVE  LET k == Concurrency(n) IN
         /\ End(n, 0) = 0 /\ End(n, k) = n
         /\ \A i \in 1..k : End(n, i - 1) \in 0..n /\ End(n, i) \in End(n, i - 1)..n
<1>1. PICK k \in 1..n : k = Concurrency(n)
  BY ConcurrencyRight
<1>2. PICK size \in Nat : size = n \div k /\ size * k <= n
  <2>1. n \div k \in Nat /\ (n \div k) * k <= n
    OBVIOUS
  <2> QED
    BY <2>1
<1>3. End(n, 0) = 0 /\ End(n, k) = n
  BY <1>1, <1>2 DEF End
<1>4. ASSUME NEW i \in 1..k PROVE End(n, i - 1) \in 0..n /\ End(n, i) \in End(n, i - 1)..n
  <2>1. PICK x \in Nat, y \in Nat : x = (i - 1) * size /\ y = i * size
    OBVIOUS
  <2>2. x + size = y /\ y <= n
    <3>1. PICK d \in Nat : d = k - i
      OBVIOUS
    <3>2. PICK z \in Nat : z = d * size
      OBVIOUS
    <3>3. size * k = y + z
      BY <2>1, <3>1, <3>2
    <3>4. y + z <= n
      BY <1>2, <3>3
    <3>5. x + size = y
      BY <2>1
    <3> QED
      BY <3>4, <3>5
  <2>3. End(n, i - 1) = x
    BY <1>1, <1>2, <2>1 DEF End
  <2>4. End(n, i) = IF i = k THEN n ELSE y
    BY <1>1, <1>2, <2>1 DEF End
  <2> QED
    BY <2>2, <2>3, <2>4
<1> QED
  BY <1>1, <1>3, <1>4

\* The chunk of goroutine i.
LEMMA ChunkRight ==
  ASSUME NEW entries \in Seq(Entry), entries # <<>>,
         NEW i \in 1..Concurrency(Len(entries))
  PROVE  LET n == Len(entries) IN Chunk(entries, i) = SubSeq(entries, End(n, i - 1) + 1, End(n, i))
<1>1. PICK n \in Nat \ {0} : n = Len(entries)
  BY EmptySeq
<1>2. PICK k \in 1..n : k = Concurrency(n)
  BY ConcurrencyRight
<1>3. i - 1 # k
  BY <1>1, <1>2
<1> QED
  BY <1>1, <1>2, <1>3 DEF Chunk, End

\* However many goroutines validate them, they find what one would.
LEMMA ValidSegmentsRight ==
  ASSUME NEW entries \in Seq(Entry), entries # <<>>
  PROVE  ValidSegments(entries) = validateEntries(entries)
<1>1. PICK n \in Nat \ {0} : n = Len(entries)
  BY EmptySeq
<1>2. PICK k \in 1..n : k = Concurrency(n)
  BY ConcurrencyRight
<1> DEFINE results == [i \in 1..k |-> validateEntries(Chunk(entries, i))]
           doubt(s) == \E i \in DOMAIN s : s[i].verdict = "unknown"
           sub(i) == SubSeq(entries, End(n, i - 1) + 1, End(n, i))
<1>3. /\ End(n, 0) = 0 /\ End(n, k) = n
      /\ \A i \in 1..k : End(n, i - 1) \in 0..n /\ End(n, i) \in End(n, i - 1)..n
  BY <1>2, EndRight
<1>4. ASSUME NEW i \in 1..k
      PROVE  /\ Chunk(entries, i) = sub(i) /\ sub(i) \in Seq(Entry)
             /\ Len(sub(i)) = End(n, i) - End(n, i - 1)
             /\ DOMAIN sub(i) = 1..(End(n, i) - End(n, i - 1))
             /\ \A j \in 1..(End(n, i) - End(n, i - 1)) : sub(i)[j] = entries[End(n, i - 1) + j]
  <2>1. Chunk(entries, i) = sub(i)
    BY <1>1, <1>2, ChunkRight
  <2>2. PICK a \in 0..Len(entries) : a = End(n, i - 1)
    BY <1>1, <1>3
  <2>3. PICK b \in a..Len(entries) : b = End(n, i)
    BY <1>1, <1>3, <2>2
  <2>4. PICK t : t = SubSeq(entries, a + 1, b)
    OBVIOUS
  <2>5. /\ t \in Seq(Entry) /\ Len(t) = b - a /\ DOMAIN t = 1..(b - a)
        /\ \A j \in 1..(b - a) : t[j] = entries[a + j]
    BY <2>4, SliceRight
  <2>6. t = sub(i)
    BY <2>2, <2>3, <2>4
  <2> HIDE DEF sub
  <2> QED
    BY <2>1, <2>2, <2>3, <2>5, <2>6
<1>5. ValidSegments(entries) =
        IF \E i \in DOMAIN results : results[i] = Broken THEN Broken ELSE FlattenSeq(results)
  BY <1>1, <1>2 DEF ValidSegments
<1>6. \A s \in Seq(Entry) : s # Broken
  BY BrokenAssumption
<1>7. \A i \in 1..k : results[i] = Broken <=> doubt(sub(i))
  <2> SUFFICES ASSUME NEW i \in 1..k PROVE results[i] = Broken <=> doubt(sub(i))
    OBVIOUS
  <2>1. results[i] = validateEntries(sub(i))
    BY <1>4
  <2>2. Kept(sub(i))[Len(sub(i))] \in Seq(Entry)
    BY <1>4, KeptRight
  <2> QED
    BY <1>6, <2>1, <2>2 DEF validateEntries
\* In doubt is what is in doubt in some chunk.
<1>8. ASSUME NEW i \in 1..k, doubt(sub(i)) PROVE doubt(entries)
  <2>1. PICK a \in 0..n, b \in 0..n : a = End(n, i - 1) /\ b = End(n, i) /\ a <= b
    BY <1>3
  <2>2. DOMAIN sub(i) = 1..(b - a) /\ \A j \in 1..(b - a) : sub(i)[j] = entries[a + j]
    BY <1>4, <2>1
  <2>3. PICK j \in 1..(b - a) : sub(i)[j].verdict = "unknown"
    <3> HIDE DEF sub
    <3> QED
      BY <1>8, <2>2
  <2>4. a + j \in 1..n /\ DOMAIN entries = 1..n
    BY <1>1, <2>1
  <2>5. entries[a + j].verdict = "unknown"
    BY <2>2, <2>3
  <2> QED
    BY <2>4, <2>5
<1>9. ASSUME \A i \in 1..k : ~doubt(sub(i)) PROVE ~doubt(entries)
  <2> DEFINE P == {i \in 0..k : \A j \in 1..End(n, i) : entries[j].verdict # "unknown"}
  <2>1. 0 \in P
    BY <1>3
  <2>2. ASSUME NEW i \in 1..k, i - 1 \in P PROVE i \in P
    <3>1. PICK a \in 0..n, b \in 0..n : a = End(n, i - 1) /\ b = End(n, i) /\ a <= b
      BY <1>3
    <3>2. ASSUME NEW j \in 1..b PROVE entries[j].verdict # "unknown"
      <4>1. CASE j <= a
        BY <2>2, <3>1, <4>1
      <4>2. CASE j > a
        <5>1. j - a \in 1..(b - a) /\ a + (j - a) = j
          BY <4>2
        <5>2. sub(i)[j - a] = entries[j]
          BY <1>4, <3>1, <5>1
        <5>3. j - a \in DOMAIN sub(i)
          BY <1>4, <3>1, <5>1
        <5> QED
          BY <1>9, <5>2, <5>3
      <4> QED
        BY <4>1, <4>2
    <3> QED
      BY <3>1, <3>2
  <2>3. k \in P
    <3>1. k \in Nat /\ k \in 0..k
      OBVIOUS
    <3> HIDE DEF P
    <3> QED
      BY <2>1, <2>2, <3>1, BoundedInduction
  <2> QED
    BY <1>1, <1>3, <2>3
<1>10. CASE \E i \in 1..k : doubt(sub(i))
  <2>1. doubt(entries)
    BY <1>8, <1>10
  <2>2. ValidSegments(entries) = Broken
    BY <1>5, <1>7, <1>10
  <2> QED
    BY <2>1, <2>2 DEF validateEntries
<1>11. CASE \A i \in 1..k : ~doubt(sub(i))
  <2>1. ValidSegments(entries) = FlattenSeq(results)
    BY <1>5, <1>7, <1>11
  <2>2. validateEntries(entries) = Kept(entries)[n]
    BY <1>1, <1>9, <1>11 DEF validateEntries
  <2>3. \A i \in 1..k : results[i] = Kept(sub(i))[Len(sub(i))] /\ results[i] \in Seq(Entry)
    BY <1>4, <1>11, KeptRight DEF validateEntries
  <2>4. results \in Seq(Seq(Entry)) /\ Len(results) = k
    BY <2>3
  <2>5. PICK f \in [0..k -> Seq(Entry)] : Joins(f, results) /\ FlattenSeq(results) = f[k]
    <3> HIDE DEF results
    <3> QED
      BY <2>4, FlattenUnfolds
  <2> DEFINE P == {i \in 0..k : f[i] = Kept(entries)[End(n, i)]}
  <2>6. 0 \in P
    <3>1. f[0] = <<>> /\ Kept(entries)[0] = <<>> /\ 0 \in 0..k
      BY <2>5, KeptUnfolds DEF Joins
    <3> QED
      BY <1>3, <3>1
  <2>7. ASSUME NEW i \in 1..k, i - 1 \in P PROVE i \in P
    <3>1. PICK a \in 0..Len(entries) : a = End(n, i - 1)
      BY <1>1, <1>3
    <3>5. PICK b \in a..Len(entries) : b = End(n, i)
      BY <1>1, <1>3, <3>1
    <3>2. f[i] = f[i - 1] \o results[i]
      BY <2>4, <2>5 DEF Joins
    <3>3. Kept(entries)[b] = Kept(entries)[a] \o Kept(sub(i))[Len(sub(i))]
      <4>1. PICK t : t = sub(i)
        OBVIOUS
      <4>2. t = SubSeq(entries, a + 1, b)
        BY <3>1, <3>5, <4>1
      <4>3. Kept(entries)[b] = Kept(entries)[a] \o Kept(t)[Len(t)]
        BY <4>2, KeptOfRest
      <4> QED
        BY <4>1, <4>3
    <3>4. i \in 0..k
      OBVIOUS
    <3> HIDE DEF results, sub
    <3> QED
      BY <2>3, <2>7, <3>1, <3>2, <3>3, <3>4, <3>5
  <2>8. k \in P
    <3>1. k \in Nat /\ k \in 0..k
      OBVIOUS
    <3> HIDE DEF P
    <3> QED
      BY <2>6, <2>7, <3>1, BoundedInduction
  <2> QED
    BY <1>3, <2>1, <2>2, <2>5, <2>8
<1> QED
  BY <1>10, <1>11

-----------------------------------------------------------------------------
\* The records of a segment.
LEMMA SegmentRecordsRight ==
  ASSUME NEW s \in Entry
  PROVE  /\ SegmentRecords(s) = Broken <=> s.car = Broken
         /\ s.car # Broken =>
              /\ SegmentRecords(s) \in Seq(Nat)
              /\ Range(SegmentRecords(s)) = {BlockAt(s, i) : i \in DOMAIN s.car}
              /\ IsInjective(SegmentRecords(s))
<1>1. s.offset \in Nat /\ s.car \in Car \cup {Broken}
  BY DEF Entry
<1>2. CASE s.car = Broken
  BY <1>2 DEF SegmentRecords, parseRecordsFromCar
<1>3. CASE s.car # Broken
  <2>1. PICK c \in Seq(Nat) : c = s.car /\ IsInjective(c)
    BY <1>1, <1>3 DEF Car
  <2>2. PICK o \in Nat : o = s.offset
    BY <1>1
  <2> DEFINE r == [i \in 1..Len(c) |-> c[i] + o]
  <2>3. DOMAIN c = 1..Len(c) /\ Len(c) \in Nat /\ \A i \in 1..Len(c) : c[i] \in Nat
    OBVIOUS
  <2>4. SegmentRecords(s) = r
    BY <1>3, <2>1, <2>2, <2>3 DEF SegmentRecords, parseRecordsFromCar
  <2>5. r \in Seq(Nat) /\ r # Broken
    <3>1. r \in Seq(Nat)
      BY <2>3
    <3> QED
      BY <3>1, BrokenAssumption
  <2>6. \A i \in 1..Len(c) : r[i] = BlockAt(s, i)
    BY <2>1, <2>2, <2>3 DEF BlockAt
  <2>7. Range(r) = {BlockAt(s, i) : i \in DOMAIN s.car}
    <3>1. DOMAIN r = 1..Len(c) /\ DOMAIN s.car = 1..Len(c)
      BY <2>1, <2>3
    <3> HIDE DEF r
    <3>2. Range(r) = {r[i] : i \in 1..Len(c)}
      BY <3>1 DEF Range
    <3> QED
      BY <2>6, <3>1, <3>2
  <2>8. IsInjective(r)
    BY <2>1, <2>3 DEF IsInjective
  <2> QED
    BY <1>3, <2>4, <2>5, <2>7, <2>8
<1> QED
  BY <1>2, <1>3

\* The index of a piece gives records when it is good, and then those of its segments.
LEMMA PodsiRight ==
  ASSUME NEW piece \in Content
  PROVE  LET r == parsePieceWithDataSegmentIndex(piece) IN
         /\ r # Broken <=> GoodIndex(piece)
         /\ GoodIndex(piece) => /\ Range(r) = BlocksOf(piece)
                                /\ Apart(piece) => IsInjective(r)
<1> DEFINE r == parsePieceWithDataSegmentIndex(piece)
           E == piece.index
           segs == ValidSegments(E)
           recs == [i \in DOMAIN segs |-> SegmentRecords(segs[i])]
<1>1. E \in Seq(Entry) \cup {Broken}
  BY DEF Content
<1>2. r = IF E \in {Broken, <<>>} \/ segs \in {Broken, <<>>} THEN Broken
          ELSE IF \E i \in DOMAIN recs : recs[i] = Broken THEN Broken
          ELSE FlattenSeq(recs)
  BY DEF parsePieceWithDataSegmentIndex, parseDataSegmentIndex
<1>3. CASE E \in {Broken, <<>>}
  <2>1. ~GoodIndex(piece)
    BY <1>3 DEF GoodIndex, Range
  <2> QED
    BY <1>2, <1>3, <2>1
<1>4. CASE E \notin {Broken, <<>>}
  <2>1. E \in Seq(Entry) /\ DOMAIN E = 1..Len(E) /\ Len(E) \in Nat
    BY <1>1, <1>4
  <2>2. segs = validateEntries(E)
    BY <1>4, <2>1, ValidSegmentsRight
  <2>3. GoodIndex(piece) <=>
          /\ \E i \in 1..Len(E) : E[i].verdict = "valid"
          /\ \A i \in 1..Len(E) :
               E[i].verdict # "unknown" /\ (E[i].verdict = "valid" => E[i].car # Broken)
    <3> HIDE DEF E
    <3>1. Range(E) = {E[i] : i \in 1..Len(E)}
      BY <2>1 DEF Range
    <3> QED
      BY <1>4, <3>1 DEF GoodIndex, E
  <2>4. CASE \E i \in 1..Len(E) : E[i].verdict = "unknown"
    <3>1. segs = Broken
      BY <2>1, <2>2, <2>4 DEF validateEntries
    <3>2. r = Broken
      BY <1>2, <3>1
    <3>3. ~GoodIndex(piece)
      BY <2>3, <2>4
    <3> QED
      BY <3>2, <3>3
  <2>5. CASE \A i \in 1..Len(E) : E[i].verdict # "unknown"
    <3>1. segs = Kept(E)[Len(E)]
      BY <2>1, <2>2, <2>5 DEF validateEntries
    <3>2. segs \in Seq(Entry) /\ KeptBy(E, segs, Len(E)) /\ segs # Broken
      <4>1. segs \in Seq(Entry) /\ KeptBy(E, segs, Len(E))
        BY <2>1, <3>1, KeptRight
      <4> QED
        BY <4>1, BrokenAssumption
    <3> HIDE DEF segs
    <3>3. /\ DOMAIN segs = 1..Len(segs) /\ Len(segs) \in Nat
          /\ \A i \in 1..Len(segs) : segs[i] \in Entry
      BY <3>2
    <3>4. segs = <<>> <=> Len(segs) = 0
      BY <3>2, EmptySeq
    <3>5. /\ \A j \in 1..Len(segs) :
               \E i \in 1..Len(E) : segs[j] = E[i] /\ E[i].verdict = "valid"
          /\ \A i \in 1..Len(E) : E[i].verdict = "valid" =>
               \E j \in 1..Len(segs) : segs[j] = E[i]
      BY <3>2 DEF KeptBy, OnlyValid, AllValid
    <3>6. GoodIndex(piece) <=>
            segs # <<>> /\ \A j \in 1..Len(segs) : segs[j].car # Broken
      BY <2>3, <2>5, <3>3, <3>4, <3>5
    <3>7. r # Broken => GoodIndex(piece)
      <4>1. \A j \in 1..Len(segs) : recs[j] = Broken <=> segs[j].car = Broken
        BY <3>3, SegmentRecordsRight
      <4> QED
        BY <1>2, <3>3, <3>6, <4>1
    <3>8. ASSUME GoodIndex(piece)
          PROVE  r # Broken /\ Range(r) = BlocksOf(piece) /\ (Apart(piece) => IsInjective(r))
      <4>1. \A j \in 1..Len(segs) :
              /\ recs[j] \in Seq(Nat) /\ recs[j] # Broken
              /\ Range(recs[j]) = {BlockAt(segs[j], i) : i \in DOMAIN segs[j].car}
              /\ IsInjective(recs[j])
        BY <3>3, <3>6, <3>8, SegmentRecordsRight
      <4>2. recs \in Seq(Seq(Nat)) /\ Len(recs) = Len(segs) /\ DOMAIN recs = 1..Len(segs)
        BY <3>3, <4>1
      <4>3. r = FlattenSeq(recs)
        BY <1>2, <1>4, <3>2, <3>6, <3>8, <4>1, <4>2
      <4> HIDE DEF recs, E, r
      <4>4. r \in Seq(Nat) /\ Range(r) = UNION {Range(recs[j]) : j \in 1..Len(segs)}
        BY <4>2, <4>3, FlattenRange
      <4>5. r # Broken
        BY <4>4, BrokenAssumption
      <4>6. Range(r) = BlocksOf(piece)
        <5>1. {e \in Range(E) : e.verdict = "valid"} = {segs[j] : j \in 1..Len(segs)}
          <6>1. Range(E) = {E[i] : i \in 1..Len(E)}
            BY <2>1 DEF Range
          <6> QED
            BY <3>5, <6>1
        <5>2. BlocksOf(piece) = UNION {{BlockAt(e, i) : i \in DOMAIN e.car} :
                                        e \in {segs[j] : j \in 1..Len(segs)}}
          BY <3>8, <5>1 DEF BlocksOf, E
        <5>3. \A x : x \in Range(r) <=>
                \E j \in 1..Len(segs) : \E i \in DOMAIN segs[j].car : x = BlockAt(segs[j], i)
          <6> SUFFICES ASSUME NEW x
                       PROVE  x \in Range(r) <=>
                                \E j \in 1..Len(segs) :
                                  \E i \in DOMAIN segs[j].car : x = BlockAt(segs[j], i)
            OBVIOUS
          <6> DEFINE has(j) == \E i \in DOMAIN segs[j].car : x = BlockAt(segs[j], i)
          <6>1. x \in Range(r) <=> \E j \in 1..Len(segs) : x \in Range(recs[j])
            BY <4>4
          <6>2. \A j \in 1..Len(segs) : x \in Range(recs[j]) <=> has(j)
            BY <4>1
          <6> HIDE DEF has
          <6>3. x \in Range(r) <=> \E j \in 1..Len(segs) : has(j)
            BY <6>1, <6>2
          <6> QED
            BY <6>3 DEF has
        <5>4. \A x : x \in BlocksOf(piece) <=>
                \E j \in 1..Len(segs) : \E i \in DOMAIN segs[j].car : x = BlockAt(segs[j], i)
          BY <5>2
        <5> QED
          BY <5>3, <5>4
      <4>7. ASSUME Apart(piece) PROVE IsInjective(r)
        <5>1. ASSUME NEW j \in 1..Len(segs), NEW k \in 1..Len(segs), j < k
              PROVE  Range(recs[j]) \cap Range(recs[k]) = {}
          <6>1. PICK i \in 1..Len(E), l \in 1..Len(E) :
                  /\ i < l /\ segs[j] = E[i] /\ segs[k] = E[l]
                  /\ E[i].verdict = "valid" /\ E[l].verdict = "valid"
            <7>1. Before(E, segs[j], segs[k], Len(E))
              BY <3>2, <5>1 DEF KeptBy, InOrder
            <7> QED
              BY <7>1 DEF Before
          <6>2. i # l
            BY <2>1, <6>1
          <6>3. \A x \in DOMAIN E[i].car, y \in DOMAIN E[l].car :
                  BlockAt(E[i], x) # BlockAt(E[l], y)
            BY <2>1, <4>7, <6>1, <6>2 DEF Apart, E
          <6> QED
            BY <4>1, <6>1, <6>3
        <5>2. IsInjective(FlattenSeq(recs))
          BY <4>1, <4>2, <5>1, FlattenInjective
        <5> QED
          BY <4>3, <5>2
      <4> QED
        BY <4>5, <4>6, <4>7
    <3> QED
      BY <3>7, <3>8
  <2> QED
    BY <2>4, <2>5
<1> QED
  BY <1>3, <1>4

\* The parser, for a piece of any number of segments and blocks.
THEOREM ParserCorrect ==
  ASSUME NEW piece \in Content
  PROVE  ParsedRight(piece)
<1> DEFINE r == parsePieceWithDataSegmentIndex(piece)
<1>1. /\ r # Broken <=> GoodIndex(piece)
      /\ GoodIndex(piece) => Range(r) = BlocksOf(piece) /\ (Apart(piece) => IsInjective(r))
  BY PodsiRight
<1>2. Parse(piece) = IF r = Broken THEN piece.car ELSE r
  BY DEF Parse, parseRecordsFromCar
<1> HIDE DEF r
<1>3. CASE GoodIndex(piece)
  BY <1>1, <1>2, <1>3 DEF ParsedRight, Readable
<1>4. CASE ~GoodIndex(piece)
  <2>1. Parse(piece) = piece.car /\ piece.car \in Car \cup {Broken}
    BY <1>1, <1>2, <1>4 DEF Content
  <2>2. Readable(piece) <=> piece.car # Broken
    BY <1>4 DEF Readable
  <2>3. Readable(piece) => IsInjective(piece.car)
    BY <2>1, <2>2 DEF Car
  <2>4. BlocksOf(piece) = Range(piece.car)
    BY <1>4 DEF BlocksOf
  <2> QED
    BY <1>4, <2>1, <2>2, <2>3, <2>4 DEF ParsedRight
<1> QED
  BY <1>3, <1>4

-----------------------------------------------------------------------------
USE PieceDirectoryAssumption

Calls ==
  [pc: PCs \ {"idle"}, kind: Kinds, piece: Pieces, deal: Deals \cup {None},
   op: Nat \cup {None}, todo: SUBSET Deals, err: Errors, canceled: BOOLEAN]

\* Only BuildIndexForPiece is ever without a deal, before its first attempt.
Typed ==
  /\ opByCid \in [Pieces -> Nat \cup {None}]
  /\ ops \in Seq(AddIndexOperation)
  /\ call \in [Callers -> Calls \cup {NoCall}]
  /\ \A c \in Callers : Active(c) =>
       call[c].deal \in Deals \/ (At(c, "attempted") /\ call[c].kind = "BuildIndexForPiece")

\* The operation of an owner is its piece's and deal's, is in the map, and is done only when the
\* owner is about to delete it; that of a waiter is its piece's.
Flight(c) ==
  /\ call[c].pc \in OwnerPCs =>
       /\ call[c].op \in 1..Len(ops)
       /\ opByCid[call[c].piece] = call[c].op
       /\ ops[call[c].op].piece = call[c].piece /\ ops[call[c].op].deal = call[c].deal
       /\ ops[call[c].op].done <=> call[c].pc = "delete"
  /\ call[c].pc = "wait" =>
       call[c].op \in 1..Len(ops) /\ ops[call[c].op].piece = call[c].piece

Flights ==
  /\ \A c \in Callers : Flight(c)
  /\ \A c, d \in Callers :
       call[c].pc \in OwnerPCs /\ call[d].pc \in OwnerPCs /\ call[c].piece = call[d].piece => c = d
  /\ \A p \in Pieces : opByCid[p] # None =>
       \E c \in Callers : call[c].pc \in OwnerPCs /\ call[c].piece = p

\* An operation without an error that is done, or will be, has parsed the data of its deal.
Parsed ==
  /\ \A o \in 1..Len(ops) : ops[o].done /\ ops[o].err = "nil" => Records[ops[o].deal] # Broken
  /\ \A c \in Callers : call[c].pc \in {"release", "close"} /\ ops[call[c].op].err = "nil" =>
       Records[ops[call[c].op].deal] # Broken

BuiltBy(p) ==
  \/ p \in Indexed
  \/ \E o \in 1..Len(ops) : /\ ops[o].piece = p /\ ops[o].done /\ ops[o].err = "nil"
                            /\ Records[ops[o].deal] # Broken

\* A call that is through with its attempt, and without an error, has an index to show.
Honest ==
  \A c \in Callers :
    /\ At(c, "store") => call[c].err = "nil" /\ BuiltBy(call[c].piece)
    /\ At(c, "attempted") /\ call[c].deal # None /\ call[c].err = "nil" => BuiltBy(call[c].piece)

IInv == Typed /\ Flights /\ SlotsAccounted /\ Parsed /\ Honest

Holders == {c \in Callers : call[c].pc \in {"index", "release"}}

-----------------------------------------------------------------------------
(* How a call changes, and the goroutines with a slot. *)

\* c's call becomes k, and the others stay as they are.
Becomes(c, k) ==
  /\ call' \in [Callers -> Calls \cup {NoCall}]
  /\ call'[c] = k
  /\ \A d \in Callers \ {c} : call'[d] = call[d]

LEMMA ActiveCalls ==
  ASSUME Typed, NEW c \in Callers, Active(c)
  PROVE  call[c] \in Calls
BY DEF Typed, Active, NoCall

LEMMA CallChanged ==
  ASSUME Typed, NEW c \in Callers, NEW k \in Calls \cup {NoCall},
         call' = [call EXCEPT ![c] = k]
  PROVE  Becomes(c, k)
BY DEF Typed, Becomes

LEMMA GoesTo ==
  ASSUME Typed, NEW c \in Callers, Active(c), NEW pc \in PCs \ {"idle"}, Goto(c, pc)
  PROVE  Becomes(c, [call[c] EXCEPT !.pc = pc]) /\ [call[c] EXCEPT !.pc = pc] \in Calls
<1>1. call[c] \in Calls
  BY ActiveCalls
<1>2. [call[c] EXCEPT !.pc = pc] \in Calls
  BY <1>1 DEF Calls
<1>3. call' = [call EXCEPT ![c] = [call[c] EXCEPT !.pc = pc]]
  BY DEF Goto
<1> QED
  BY <1>2, <1>3, CallChanged

LEMMA GoesToAttempted ==
  ASSUME Typed, NEW c \in Callers, Active(c), NEW e \in Errors, Attempted(c, e)
  PROVE  /\ Becomes(c, [[call[c] EXCEPT !.pc = "attempted"] EXCEPT !.err = e])
         /\ [[call[c] EXCEPT !.pc = "attempted"] EXCEPT !.err = e] \in Calls
<1>1. call[c] \in Calls
  BY ActiveCalls
<1>2. [[call[c] EXCEPT !.pc = "attempted"] EXCEPT !.err = e] \in Calls
  BY <1>1 DEF Calls, PCs
<1>3. call' = [call EXCEPT ![c] = [[call[c] EXCEPT !.pc = "attempted"] EXCEPT !.err = e]]
  BY DEF Attempted
<1> QED
  BY <1>2, <1>3, CallChanged

LEMMA HoldersFinite == IsFiniteSet(Holders) /\ Cardinality(Holders) \in Nat
BY FS_Subset, FS_CardinalityType DEF Holders

LEMMA SlotsKept ==
  ASSUME SlotsAccounted, UNCHANGED throttle, NEW c \in Callers,
         \A d \in Callers \ {c} : call'[d] = call[d],
         call'[c].pc \in {"index", "release"} <=> call[c].pc \in {"index", "release"}
  PROVE  SlotsAccounted'
<1>1. Holders' = Holders
  BY DEF Holders
<1> QED
  BY <1>1 DEF SlotsAccounted, Holders

LEMMA InitInv == Init => IInv
<1> SUFFICES ASSUME Init PROVE IInv
  OBVIOUS
<1>1. \A c \in Callers : call[c].pc = "idle"
  BY DEF Init, NoCall
<1>2. Typed
  BY <1>1 DEF Init, Typed, Active
<1>3. Flights
  BY <1>1 DEF Init, Flights, Flight, OwnerPCs
<1>4. SlotsAccounted
  <2>1. Holders = {}
    BY <1>1 DEF Holders
  <2> QED
    BY <2>1, FS_EmptySet DEF Init, SlotsAccounted, Holders
<1>5. Parsed /\ Honest
  BY <1>1 DEF Init, Parsed, Honest, At
<1> QED
  BY <1>2, <1>3, <1>4, <1>5 DEF IInv

-----------------------------------------------------------------------------
(* Calls begin. *)

LEMMA NewCallInv ==
  ASSUME IInv, NEW c \in Callers, NEW kind \in Kinds, NEW pc \in {"join", "store", "attempted"},
         NEW p \in Pieces, NEW d \in Deals \cup {None}, NEW todo \in SUBSET Deals,
         NewCall(c, kind, pc, p, d, todo),
         pc = "store" => p \in Indexed,
         d = None <=> pc = "attempted",
         d = None => kind = "BuildIndexForPiece"
  PROVE  IInv'
<1> DEFINE k == [pc |-> pc, kind |-> kind, piece |-> p, deal |-> d, op |-> None, todo |-> todo,
                 err |-> "nil", canceled |-> FALSE]
<1>1. k \in Calls
  BY DEF Calls, PCs, Errors
<1>2. Becomes(c, k) /\ call[c].pc = "idle"
  BY <1>1, CallChanged DEF NewCall, IInv, Active
<1>3. Typed'
  BY <1>2 DEF IInv, Typed, Becomes, NewCall, Active, At
<1>4. Flights'
  BY <1>2 DEF IInv, Flights, Flight, Becomes, NewCall, OwnerPCs
<1>5. SlotsAccounted'
  BY <1>2, SlotsKept DEF IInv, Becomes, NewCall
<1>6. Parsed'
  BY <1>2 DEF IInv, Parsed, Becomes, NewCall, Records
<1>7. Honest'
  BY <1>2 DEF IInv, Honest, BuiltBy, Becomes, NewCall, At, Records
<1> QED
  BY <1>3, <1>4, <1>5, <1>6, <1>7 DEF IInv

LEMMA AddDealForPieceInv ==
  ASSUME IInv, NEW c \in Callers, NEW d \in Deals, AddDealForPiece(c, d) \/ TxAddDealForPiece(c, d)
  PROVE  IInv'
<1>1. PieceOf[d] \in Pieces
  OBVIOUS
<1>2. CASE AddDealForPiece(c, d)
  BY <1>1, <1>2, NewCallInv DEF AddDealForPiece, Kinds
<1>3. CASE TxAddDealForPiece(c, d)
  BY <1>1, <1>3, NewCallInv DEF TxAddDealForPiece, Kinds
<1> QED
  BY <1>2, <1>3

LEMMA BuildIndexForPieceInv ==
  ASSUME IInv, NEW c \in Callers, NEW p \in Pieces, BuildIndexForPiece(c, p),
         stored \subseteq Deals
  PROVE  IInv'
<1>1. DealsOf(p) \subseteq Deals
  BY DEF DealsOf
<1> QED
  BY <1>1, NewCallInv DEF BuildIndexForPiece, Kinds

-----------------------------------------------------------------------------
(* Steps that change a call only. *)

\* A step to a place where the call owns no operation, waits for none, and has nothing to show.
LEMMA CallOnlyInv ==
  ASSUME IInv, NEW c \in Callers, NEW k \in Calls \cup {NoCall}, Becomes(c, k),
         UNCHANGED <<opByCid, ops, throttle>>,
         call[c].pc \notin OwnerPCs, k.pc \notin OwnerPCs,
         k.pc # "idle" => k.deal \in Deals \/ (k.pc = "attempted" /\ k.kind = "BuildIndexForPiece"),
         k.pc = "wait" => k.op \in 1..Len(ops) /\ ops[k.op].piece = k.piece,
         k.pc = "store" => k.err = "nil" /\ BuiltBy(k.piece),
         k.pc = "attempted" /\ k.deal # None /\ k.err = "nil" => BuiltBy(k.piece)
  PROVE  IInv'
<1>1. Typed'
  BY DEF IInv, Typed, Becomes, Active, At
<1>2. Flights'
  BY DEF IInv, Flights, Flight, Becomes
<1>3. SlotsAccounted'
  BY SlotsKept DEF IInv, Becomes, OwnerPCs
<1>4. Parsed'
  BY DEF IInv, Parsed, Becomes, Records, OwnerPCs
<1>5. Honest'
  <2>1. \A p \in Pieces : BuiltBy(p)' <=> BuiltBy(p)
    BY DEF BuiltBy, Records
  <2>2. \A d \in Callers : call'[d].pc # "idle" => call'[d].piece \in Pieces
    BY <1>1 DEF Typed, Active, Calls, NoCall
  <2> QED
    BY <2>1, <2>2 DEF IInv, Honest, Becomes, At
<1> QED
  BY <1>1, <1>2, <1>3, <1>4, <1>5 DEF IInv

\* What Flight and Parsed say of the operation of a waiter that is done.
LEMMA DoneBuilds ==
  ASSUME IInv, NEW o \in 1..Len(ops), ops[o].done, ops[o].err = "nil"
  PROVE  BuiltBy(ops[o].piece)
BY DEF IInv, Parsed, BuiltBy

LEMMA ErrTyped ==
  ASSUME Typed, NEW o \in 1..Len(ops)
  PROVE  ops[o] \in AddIndexOperation /\ ops[o].err \in Errors
<1>1. ops[o] \in AddIndexOperation
  BY DEF Typed
<1> QED
  BY <1>1 DEF AddIndexOperation

LEMMA JoinInv ==
  ASSUME IInv, NEW c \in Callers, Join(c)
  PROVE  IInv'
<1> DEFINE o == opByCid[call[c].piece]
           k == [[call[c] EXCEPT !.pc = "wait"] EXCEPT !.op = o]
<1>1. call[c] \in Calls /\ At(c, "join") /\ call[c].deal \in Deals
  BY ActiveCalls DEF Join, IInv, Typed, At, Active
<1>2. o \in 1..Len(ops) /\ ops[o].piece = call[c].piece
  <2>1. o # None /\ call[c].piece \in Pieces
    BY <1>1 DEF Join, Calls
  <2>2. PICK d \in Callers : call[d].pc \in OwnerPCs /\ call[d].piece = call[c].piece
    BY <2>1 DEF IInv, Flights
  <2> QED
    BY <2>2 DEF IInv, Flights, Flight
<1>3. o \in Nat
  BY <1>2 DEF IInv, Typed
<1>4. k \in Calls /\ Becomes(c, k)
  <2>1. k \in Calls
    <3> HIDE DEF o
    <3> QED
      BY <1>1, <1>3 DEF Calls, PCs
  <2>2. call' = [call EXCEPT ![c] = k]
    BY <1>1 DEF Join, Calls
  <2> HIDE DEF k
  <2> QED
    BY <2>1, <2>2, CallChanged DEF IInv
<1>5. k.pc = "wait" /\ k.op = o /\ k.piece = call[c].piece /\ k.deal = call[c].deal
  BY <1>1 DEF Calls
<1> HIDE DEF k, o
<1> QED
  BY <1>1, <1>2, <1>3, <1>4, <1>5, CallOnlyInv DEF Join, At, OwnerPCs, o

\* A call that gives up, or is given a result, keeps its deal and its piece.
LEMMA AttemptedInv ==
  ASSUME IInv, NEW c \in Callers, At(c, "wait"), NEW e \in Errors, Attempted(c, e),
         UNCHANGED <<opByCid, ops, throttle>>,
         e = "nil" => BuiltBy(call[c].piece)
  PROVE  IInv'
<1> DEFINE k == [[call[c] EXCEPT !.pc = "attempted"] EXCEPT !.err = e]
<1>1. call[c] \in Calls /\ call[c].deal \in Deals /\ Active(c)
  BY ActiveCalls DEF IInv, Typed, At, Active
<1>2. k \in Calls /\ Becomes(c, k)
  BY <1>1, GoesToAttempted DEF IInv
<1>3. k.pc = "attempted" /\ k.err = e /\ k.piece = call[c].piece /\ k.deal = call[c].deal
  BY <1>1 DEF Calls
<1> HIDE DEF k
<1> QED
  BY <1>1, <1>2, <1>3, CallOnlyInv DEF At, OwnerPCs

LEMMA WaitInv ==
  ASSUME IInv, NEW c \in Callers, WaitDone(c) \/ WaitCanceled(c)
  PROVE  IInv'
<1>1. At(c, "wait") /\ UNCHANGED <<opByCid, ops, throttle>>
  BY DEF WaitDone, WaitCanceled
<1>2. call[c].op \in 1..Len(ops) /\ ops[call[c].op].piece = call[c].piece
  BY <1>1 DEF IInv, Flights, Flight, At
<1>3. CASE WaitDone(c)
  BY <1>1, <1>2, <1>3, AttemptedInv, DoneBuilds, ErrTyped DEF WaitDone, IInv
<1>4. CASE WaitCanceled(c)
  BY <1>1, <1>4, AttemptedInv DEF WaitCanceled, Errors
<1> QED
  BY <1>3, <1>4

LEMMA NextDealInv ==
  ASSUME IInv, NEW c \in Callers, NextDeal(c)
  PROVE  IInv'
<1>1. call[c] \in Calls /\ At(c, "attempted")
  BY ActiveCalls DEF NextDeal, IInv, At, Active
<1>2. PICK d \in call[c].todo :
        call' = [call EXCEPT ![c].pc = "join", ![c].deal = d, ![c].todo = @ \ {d}]
  BY DEF NextDeal
<1> DEFINE k == [[[call[c] EXCEPT !.pc = "join"] EXCEPT !.deal = d] EXCEPT
                   !.todo = call[c].todo \ {d}]
<1>3. d \in Deals
  BY <1>1 DEF Calls
<1>4. k \in Calls /\ k.pc = "join" /\ k.deal = d
  BY <1>1, <1>3 DEF Calls, PCs
<1>5. call' = [call EXCEPT ![c] = k]
  BY <1>1, <1>2 DEF Calls
<1>6. Becomes(c, k)
  BY <1>4, <1>5, CallChanged DEF IInv
<1> HIDE DEF k
<1> QED
  BY <1>1, <1>3, <1>4, <1>6, CallOnlyInv DEF NextDeal, At, OwnerPCs

LEMMA GoStoreInv ==
  ASSUME IInv, NEW c \in Callers, GoStore(c)
  PROVE  IInv'
<1> DEFINE k == [call[c] EXCEPT !.pc = "store"]
<1>1. call[c] \in Calls /\ At(c, "attempted") /\ call[c].deal \in Deals /\ Active(c)
  BY ActiveCalls DEF GoStore, IInv, Typed, At, Active
<1>2. k \in Calls /\ Becomes(c, k)
  BY <1>1, GoesTo DEF GoStore, IInv, PCs
<1>3. k.pc = "store" /\ k.err = "nil" /\ k.piece = call[c].piece /\ k.deal = call[c].deal
  BY <1>1 DEF Calls, GoStore
<1>4. BuiltBy(call[c].piece)
  BY <1>1 DEF IInv, Honest, GoStore
<1> HIDE DEF k
<1> QED
  BY <1>1, <1>2, <1>3, <1>4, CallOnlyInv DEF GoStore, At, OwnerPCs

LEMMA FinishInv ==
  ASSUME IInv, NEW c \in Callers, Return(c) \/ StoreDeal(c) \/ StoreFails(c)
  PROVE  IInv'
<1>1. call[c].pc \notin OwnerPCs /\ UNCHANGED <<opByCid, ops, throttle>>
  BY DEF Return, Returns, StoreDeal, StoreFails, At, OwnerPCs
<1>2. call' = [call EXCEPT ![c] = NoCall]
  BY DEF Return, StoreDeal, StoreFails, Finish
<1>3. Becomes(c, NoCall)
  BY <1>2, CallChanged DEF IInv
<1>4. NoCall.pc = "idle"
  BY DEF NoCall
<1> QED
  BY <1>1, <1>3, <1>4, CallOnlyInv DEF OwnerPCs
-----------------------------------------------------------------------------
(* Steps of an owner. *)

\* Operation o becomes r, and the others stay as they are.
OpBecomes(o, r) ==
  /\ ops' \in Seq(AddIndexOperation)
  /\ Len(ops') = Len(ops)
  /\ ops'[o] = r
  /\ \A q \in 1..Len(ops) : q # o => ops'[q] = ops[q]

LEMMA OpChanged ==
  ASSUME Typed, NEW o \in 1..Len(ops), NEW r \in AddIndexOperation,
         ops' = [ops EXCEPT ![o] = r]
  PROVE  OpBecomes(o, r)
BY DEF Typed, OpBecomes

\* The owner goes from one place to another and makes r of its operation, which is not done
\* unless it goes to the deletion.
LEMMA OwnerStepInv ==
  ASSUME IInv, NEW c \in Callers, call[c].pc \in OwnerPCs \ {"delete"},
         NEW k \in Calls, Becomes(c, k), k.pc \in OwnerPCs, k.op = call[c].op,
         k.piece = call[c].piece, k.deal = call[c].deal,
         NEW r \in AddIndexOperation, OpBecomes(call[c].op, r),
         r.piece = ops[call[c].op].piece, r.deal = ops[call[c].op].deal,
         r.done <=> k.pc = "delete",
         k.pc \in {"release", "close", "delete"} /\ r.err = "nil" => Records[r.deal] # Broken,
         UNCHANGED opByCid, SlotsAccounted'
  PROVE  IInv'
<1> DEFINE o == call[c].op
<1>1. /\ o \in 1..Len(ops) /\ ~ops[o].done
      /\ opByCid[call[c].piece] = o
      /\ ops[o].piece = call[c].piece /\ ops[o].deal = call[c].deal
  BY DEF IInv, Flights, Flight
<1>2. /\ ops \in Seq(AddIndexOperation) /\ ops' \in Seq(AddIndexOperation)
      /\ Len(ops') = Len(ops) /\ ops'[o] = r
      /\ \A q \in 1..Len(ops) : q # o => ops'[q] = ops[q]
  BY <1>1 DEF IInv, Typed, OpBecomes
<1>3. \A d \in Callers \ {c} : call[d].pc \in OwnerPCs => call[d].op # o
  BY <1>1 DEF IInv, Flights, Flight
<1>4. Typed'
  <2>1. opByCid' \in [Pieces -> Nat \cup {None}]
    BY DEF IInv, Typed
  <2>2. ops' \in Seq(AddIndexOperation) /\ call' \in [Callers -> Calls \cup {NoCall}]
    BY <1>2 DEF Becomes
  <2>3. ASSUME NEW d \in Callers, Active(d)'
        PROVE  \/ call'[d].deal \in Deals
               \/ At(d, "attempted")' /\ call'[d].kind = "BuildIndexForPiece"
    <3>1. CASE d = c
      <4>1. call[c].deal \in Deals
        BY DEF IInv, Typed, Active, At, OwnerPCs
      <4> QED
        BY <3>1, <4>1 DEF Becomes
    <3>2. CASE d # c
      <4>1. call'[d] = call[d]
        BY <3>2 DEF Becomes
      <4> QED
        BY <2>3, <4>1 DEF IInv, Typed, Active, At
    <3> QED
      BY <3>1, <3>2
  <2> QED
    BY <2>1, <2>2, <2>3 DEF Typed
<1>5. Flights'
  <2>1. \A d \in Callers : Flight(d)'
    <3> SUFFICES ASSUME NEW d \in Callers PROVE Flight(d)'
      OBVIOUS
    <3>1. CASE d = c
      BY <1>1, <1>2, <3>1 DEF Flight, Becomes, OwnerPCs
    <3>2. CASE d # c
      <4>1. Flight(d) /\ call'[d] = call[d]
        BY <3>2 DEF IInv, Flights, Becomes
      <4> QED
        BY <1>1, <1>2, <1>3, <3>2, <4>1 DEF Flight
    <3> QED
      BY <3>1, <3>2
  <2>2. \A d \in Callers : /\ call'[d].pc \in OwnerPCs <=> call[d].pc \in OwnerPCs
                         /\ call'[d].piece = call[d].piece
    BY DEF Becomes
  <2> QED
    BY <2>1, <2>2 DEF IInv, Flights, OwnerPCs
<1>6. Parsed'
  <2>1. \A q \in 1..Len(ops') : ops'[q].done /\ ops'[q].err = "nil" => Records[ops'[q].deal] # Broken
    BY <1>2 DEF IInv, Parsed
  <2>2. \A d \in Callers : call'[d].pc \in {"release", "close"} /\ ops'[call'[d].op].err = "nil" =>
           Records[ops'[call'[d].op].deal] # Broken
    <3> SUFFICES ASSUME NEW d \in Callers, call'[d].pc \in {"release", "close"},
                        ops'[call'[d].op].err = "nil"
                 PROVE  Records[ops'[call'[d].op].deal] # Broken
      OBVIOUS
    <3>1. CASE d = c
      BY <1>2, <3>1 DEF Becomes
    <3>2. CASE d # c
      <4>1. call'[d] = call[d] /\ call[d].op \in 1..Len(ops) /\ call[d].op # o
        BY <1>3, <3>2 DEF Becomes, IInv, Flights, Flight, OwnerPCs
      <4> QED
        BY <1>2, <4>1 DEF IInv, Parsed
    <3> QED
      BY <3>1, <3>2
  <2> QED
    BY <2>1, <2>2 DEF Parsed, Records
<1>7. Honest'
  <2>1. \A p \in Pieces : BuiltBy(p) => BuiltBy(p)'
    <3>1. Records' = Records
      BY DEF Records
    <3> QED
      BY <1>1, <1>2, <3>1 DEF BuiltBy
  <2>2. \A d \in Callers : call'[d].pc # "idle" => call'[d].piece \in Pieces
    BY <1>4 DEF Typed, Active, Calls, NoCall
  <2> QED
    BY <2>1, <2>2 DEF IInv, Honest, Becomes, At, OwnerPCs
<1> QED
  BY <1>4, <1>5, <1>6, <1>7 DEF IInv

\* An owner's operation is one, and it keeps it and its piece when it goes on.
LEMMA OwnerGoes ==
  ASSUME IInv, NEW c \in Callers, call[c].pc \in OwnerPCs, NEW pc \in OwnerPCs, Goto(c, pc)
  PROVE  /\ [call[c] EXCEPT !.pc = pc] \in Calls
         /\ Becomes(c, [call[c] EXCEPT !.pc = pc])
         /\ [call[c] EXCEPT !.pc = pc].pc = pc
         /\ [call[c] EXCEPT !.pc = pc].op = call[c].op
         /\ [call[c] EXCEPT !.pc = pc].piece = call[c].piece
         /\ [call[c] EXCEPT !.pc = pc].deal = call[c].deal
<1>1. call[c] \in Calls /\ Active(c)
  BY ActiveCalls DEF IInv, Active, OwnerPCs
<1>2. pc \in PCs \ {"idle"}
  BY DEF OwnerPCs, PCs
<1> QED
  BY <1>1, <1>2, GoesTo DEF IInv, Calls

LEMMA OwnOp ==
  ASSUME IInv, NEW c \in Callers, call[c].pc \in OwnerPCs
  PROVE  /\ call[c].op \in 1..Len(ops) /\ ops[call[c].op] \in AddIndexOperation
         /\ ops[call[c].op].done <=> call[c].pc = "delete"
<1>1. call[c].op \in 1..Len(ops) /\ (ops[call[c].op].done <=> call[c].pc = "delete")
  BY DEF IInv, Flights, Flight
<1> QED
  BY <1>1, ErrTyped DEF IInv

\* The same without a change of the operation.
LEMMA OwnerGoesOnInv ==
  ASSUME IInv, NEW c \in Callers, call[c].pc \in OwnerPCs \ {"delete"},
         NEW k \in Calls, Becomes(c, k), k.pc \in OwnerPCs \ {"delete"}, k.op = call[c].op,
         k.piece = call[c].piece, k.deal = call[c].deal,
         k.pc \in {"release", "close"} => call[c].pc \in {"release", "close"},
         UNCHANGED <<opByCid, ops>>, SlotsAccounted'
  PROVE  IInv'
<1> DEFINE r == ops[call[c].op]
<1>1. call[c].op \in 1..Len(ops) /\ r \in AddIndexOperation /\ ~r.done
  BY OwnOp
<1>2. OpBecomes(call[c].op, r)
  BY <1>1 DEF IInv, Typed, OpBecomes
<1>3. k.pc \in {"release", "close", "delete"} /\ r.err = "nil" => Records[r.deal] # Broken
  BY DEF IInv, Parsed
<1>4. r.piece = ops[call[c].op].piece /\ r.deal = ops[call[c].op].deal
  OBVIOUS
<1>5. r.done <=> k.pc = "delete"
  BY <1>1
<1>6. r \in AddIndexOperation /\ k.pc \in OwnerPCs /\ UNCHANGED opByCid
  BY <1>1
<1> HIDE DEF r
<1> QED
  BY <1>2, <1>3, <1>4, <1>5, <1>6, OwnerStepInv

LEMMA CancelInv ==
  ASSUME IInv, NEW c \in Callers, Cancel(c)
  PROVE  IInv'
<1> DEFINE k == [call[c] EXCEPT !.canceled = TRUE]
<1>1. call[c] \in Calls /\ (At(c, "wait") \/ At(c, "throttle")) /\ call[c].deal \in Deals
  BY ActiveCalls DEF Cancel, IInv, Typed, At, Active
<1>2. k \in Calls /\ k.pc = call[c].pc /\ k.op = call[c].op /\ k.piece = call[c].piece
        /\ k.deal = call[c].deal
  BY <1>1 DEF Calls
<1>3. Becomes(c, k)
  BY <1>2, CallChanged DEF Cancel, IInv
<1> HIDE DEF k
<1>4. CASE At(c, "wait")
  <2>1. call[c].op \in 1..Len(ops) /\ ops[call[c].op].piece = call[c].piece
    BY <1>4 DEF IInv, Flights, Flight, At
  <2> QED
    BY <1>1, <1>2, <1>3, <1>4, <2>1, CallOnlyInv DEF Cancel, At, OwnerPCs
<1>5. CASE At(c, "throttle")
  <2>1. SlotsAccounted'
    BY <1>2, <1>3, SlotsKept DEF IInv, Becomes, Cancel
  <2> QED
    BY <1>2, <1>3, <1>5, <2>1, OwnerGoesOnInv DEF Cancel, At, OwnerPCs
<1> QED
  BY <1>1, <1>4, <1>5

LEMMA TakeSlotInv ==
  ASSUME IInv, NEW c \in Callers, TakeSlot(c)
  PROVE  IInv'
<1> DEFINE k == [call[c] EXCEPT !.pc = "index"]
<1>1. /\ k \in Calls /\ Becomes(c, k) /\ k.pc = "index" /\ k.op = call[c].op
      /\ k.piece = call[c].piece /\ k.deal = call[c].deal
  BY OwnerGoes DEF TakeSlot, At, OwnerPCs
<1> HIDE DEF k
<1>2. SlotsAccounted'
  <2>1. Holders' = Holders \cup {c} /\ c \notin Holders
    BY <1>1 DEF Holders, Becomes, TakeSlot, At
  <2>2. Cardinality(Holders') = Cardinality(Holders) + 1
    BY <2>1, HoldersFinite, FS_AddElement
  <2> QED
    BY <2>2 DEF IInv, SlotsAccounted, Holders, TakeSlot
<1> QED
  BY <1>1, <1>2, OwnerGoesOnInv DEF TakeSlot, At, OwnerPCs

LEMMA ReleaseSlotInv ==
  ASSUME IInv, NEW c \in Callers, ReleaseSlot(c)
  PROVE  IInv'
<1> DEFINE k == [call[c] EXCEPT !.pc = "close"]
<1>1. /\ k \in Calls /\ Becomes(c, k) /\ k.pc = "close" /\ k.op = call[c].op
      /\ k.piece = call[c].piece /\ k.deal = call[c].deal
  BY OwnerGoes DEF ReleaseSlot, At, OwnerPCs
<1> HIDE DEF k
<1>2. SlotsAccounted'
  <2>1. Holders' = Holders \ {c} /\ c \in Holders
    BY <1>1 DEF Holders, Becomes, ReleaseSlot, At
  <2>2. Cardinality(Holders') = Cardinality(Holders) - 1
    BY <2>1, HoldersFinite, FS_RemoveElement
  <2> QED
    BY <2>2 DEF IInv, SlotsAccounted, Holders, ReleaseSlot
<1> QED
  BY <1>1, <1>2, OwnerGoesOnInv DEF ReleaseSlot, At, OwnerPCs

LEMMA ThrottleCanceledInv ==
  ASSUME IInv, NEW c \in Callers, ThrottleCanceled(c)
  PROVE  IInv'
<1> DEFINE k == [call[c] EXCEPT !.pc = "close"]
           r == [ops[call[c].op] EXCEPT !.err = "canceled"]
<1>1. /\ k \in Calls /\ Becomes(c, k) /\ k.pc = "close" /\ k.op = call[c].op
      /\ k.piece = call[c].piece /\ k.deal = call[c].deal
  BY OwnerGoes DEF ThrottleCanceled, At, OwnerPCs
<1>2. ops[call[c].op] \in AddIndexOperation /\ ~ops[call[c].op].done
  BY OwnOp DEF ThrottleCanceled, At, OwnerPCs
<1>3. /\ r \in AddIndexOperation /\ r.err # "nil" /\ ~r.done
      /\ r.piece = ops[call[c].op].piece /\ r.deal = ops[call[c].op].deal
  BY <1>2 DEF AddIndexOperation, Errors
<1>4. OpBecomes(call[c].op, r)
  <2>1. ops' = [ops EXCEPT ![call[c].op] = r]
    BY DEF ThrottleCanceled
  <2>2. call[c].op \in 1..Len(ops)
    BY OwnOp DEF ThrottleCanceled, At, OwnerPCs
  <2> HIDE DEF r
  <2> QED
    BY <1>3, <2>1, <2>2, OpChanged DEF IInv
<1> HIDE DEF k, r
<1>5. SlotsAccounted'
  BY <1>1, SlotsKept DEF IInv, Becomes, ThrottleCanceled, At
<1> QED
  BY <1>1, <1>3, <1>4, <1>5, OwnerStepInv DEF ThrottleCanceled, At, OwnerPCs

LEMMA addIndexForPieceInv ==
  ASSUME IInv, NEW c \in Callers, addIndexForPiece(c)
  PROVE  IInv'
<1>1. PICK err \in {"nil", "failed"} :
        /\ err = "nil" => Records[call[c].deal] # Broken
        /\ ops' = [ops EXCEPT ![call[c].op].err = err]
  BY DEF addIndexForPiece
<1> DEFINE k == [call[c] EXCEPT !.pc = "release"]
           r == [ops[call[c].op] EXCEPT !.err = err]
<1>2. /\ k \in Calls /\ Becomes(c, k) /\ k.pc = "release" /\ k.op = call[c].op
      /\ k.piece = call[c].piece /\ k.deal = call[c].deal
  BY OwnerGoes DEF addIndexForPiece, At, OwnerPCs
<1>3. ops[call[c].op] \in AddIndexOperation /\ ~ops[call[c].op].done
  BY OwnOp DEF addIndexForPiece, At, OwnerPCs
<1>4. /\ r \in AddIndexOperation /\ r.err = err /\ ~r.done
      /\ r.piece = ops[call[c].op].piece /\ r.deal = ops[call[c].op].deal
  BY <1>3 DEF AddIndexOperation, Errors
<1>5. OpBecomes(call[c].op, r)
  <2>1. ops' = [ops EXCEPT ![call[c].op] = r]
    BY <1>1
  <2>2. call[c].op \in 1..Len(ops)
    BY OwnOp DEF addIndexForPiece, At, OwnerPCs
  <2> HIDE DEF r
  <2> QED
    BY <1>4, <2>1, <2>2, OpChanged DEF IInv
<1>6. ops[call[c].op].deal = call[c].deal
  BY DEF IInv, Flights, Flight, addIndexForPiece, At, OwnerPCs
<1> HIDE DEF k, r
<1>7. SlotsAccounted'
  BY <1>2, SlotsKept DEF IInv, Becomes, addIndexForPiece, At
<1>8. r.err = "nil" => Records[r.deal] # Broken
  BY <1>1, <1>4, <1>6
<1>9. r.done <=> k.pc = "delete"
  BY <1>2, <1>4
<1>10. call[c].pc \in OwnerPCs \ {"delete"} /\ k.pc \in OwnerPCs /\ UNCHANGED opByCid
  BY <1>2 DEF addIndexForPiece, At, OwnerPCs
<1> QED
  BY <1>2, <1>4, <1>5, <1>7, <1>8, <1>9, <1>10, OwnerStepInv

LEMMA CloseDoneInv ==
  ASSUME IInv, NEW c \in Callers, CloseDone(c)
  PROVE  IInv'
<1> DEFINE k == [call[c] EXCEPT !.pc = "delete"]
           r == [ops[call[c].op] EXCEPT !.done = TRUE]
<1>1. /\ k \in Calls /\ Becomes(c, k) /\ k.pc = "delete" /\ k.op = call[c].op
      /\ k.piece = call[c].piece /\ k.deal = call[c].deal
  BY OwnerGoes DEF CloseDone, At, OwnerPCs
<1>2. ops[call[c].op] \in AddIndexOperation
  BY OwnOp DEF CloseDone, At, OwnerPCs
<1>3. /\ r \in AddIndexOperation /\ r.done /\ r.err = ops[call[c].op].err
      /\ r.piece = ops[call[c].op].piece /\ r.deal = ops[call[c].op].deal
  BY <1>2 DEF AddIndexOperation
<1>4. OpBecomes(call[c].op, r)
  <2>1. ops' = [ops EXCEPT ![call[c].op] = r]
    BY DEF CloseDone
  <2>2. call[c].op \in 1..Len(ops)
    BY OwnOp DEF CloseDone, At, OwnerPCs
  <2> HIDE DEF r
  <2> QED
    BY <1>3, <2>1, <2>2, OpChanged DEF IInv
<1>5. r.err = "nil" => Records[r.deal] # Broken
  BY <1>3 DEF IInv, Parsed, CloseDone, At
<1> HIDE DEF k, r
<1>6. SlotsAccounted'
  BY <1>1, SlotsKept DEF IInv, Becomes, CloseDone, At
<1>7. r.done <=> k.pc = "delete"
  BY <1>1, <1>3
<1>8. call[c].pc \in OwnerPCs \ {"delete"} /\ k.pc \in OwnerPCs /\ UNCHANGED opByCid
  BY <1>1 DEF CloseDone, At, OwnerPCs
<1> QED
  BY <1>1, <1>3, <1>4, <1>5, <1>6, <1>7, <1>8, OwnerStepInv

\* LoadOrStore puts a new operation at the end of ops and in the map.
LEMMA OwnInv ==
  ASSUME IInv, NEW c \in Callers, Own(c)
  PROVE  IInv'
<1> DEFINE o == Len(ops) + 1
           op == [piece |-> call[c].piece, deal |-> call[c].deal, done |-> FALSE, err |-> "nil"]
           k == [[call[c] EXCEPT !.pc = "throttle"] EXCEPT !.op = o]
<1>1. call[c] \in Calls /\ At(c, "join") /\ call[c].deal \in Deals /\ call[c].piece \in Pieces
  BY ActiveCalls DEF Own, IInv, Typed, At, Active, Calls
<1>2. Len(ops) \in Nat /\ o \in Nat /\ o # None /\ created = Len(ops)
  <2>1. Len(ops) \in Nat /\ DOMAIN ops = 1..Len(ops)
    BY DEF IInv, Typed
  <2>2. Cardinality(1..Len(ops)) = Len(ops)
    <3>1. Cardinality(1..Len(ops)) = IF 1 > Len(ops) THEN 0 ELSE Len(ops) - 1 + 1
      BY <2>1, FS_Interval
    <3> QED
      BY <2>1, <3>1
  <2> QED
    BY <2>1, <2>2 DEF created
<1>3. op \in AddIndexOperation
  BY <1>1 DEF AddIndexOperation, Errors
<1>4. /\ ops' \in Seq(AddIndexOperation) /\ Len(ops') = o /\ ops'[o] = op
      /\ \A q \in 1..Len(ops) : ops'[q] = ops[q]
  <2>1. ops' = Append(ops, op)
    BY DEF Own
  <2> HIDE DEF op
  <2> QED
    BY <1>3, <2>1 DEF IInv, Typed
<1>5. opByCid' = [opByCid EXCEPT ![call[c].piece] = o] /\ opByCid[call[c].piece] = None
  BY <1>2 DEF Own
<1>6. k \in Calls /\ Becomes(c, k)
  <2>1. k \in Calls
    <3> HIDE DEF o
    <3> QED
      BY <1>1, <1>2 DEF Calls, PCs, OwnerPCs
  <2>2. call' = [call EXCEPT ![c] = k]
    BY <1>1, <1>2 DEF Own, Calls
  <2> HIDE DEF k
  <2> QED
    BY <2>1, <2>2, CallChanged DEF IInv
<1>7. k.pc = "throttle" /\ k.op = o /\ k.piece = call[c].piece /\ k.deal = call[c].deal
  BY <1>1 DEF Calls
<1>8. \A d \in Callers : call[d].pc \in OwnerPCs =>
        call[d].piece # call[c].piece /\ call[d].piece \in Pieces
  <2> SUFFICES ASSUME NEW d \in Callers, call[d].pc \in OwnerPCs
               PROVE  call[d].piece # call[c].piece /\ call[d].piece \in Pieces
    OBVIOUS
  <2>1. call[d] \in Calls
    BY ActiveCalls DEF IInv, Active, OwnerPCs
  <2>2. opByCid[call[d].piece] = call[d].op /\ call[d].op \in 1..Len(ops)
    BY DEF IInv, Flights, Flight
  <2>3. call[d].op # None
    BY <1>2, <2>2
  <2> QED
    BY <1>5, <2>1, <2>2, <2>3 DEF Calls
<1>9. op.piece = call[c].piece /\ op.deal = call[c].deal /\ ~op.done
  OBVIOUS
<1> HIDE DEF k, op
<1>10. Typed'
  <2>1. opByCid' \in [Pieces -> Nat \cup {None}]
    BY <1>1, <1>2, <1>5 DEF IInv, Typed
  <2>2. call' \in [Callers -> Calls \cup {NoCall}]
    BY <1>6 DEF Becomes
  <2>3. call'[c].deal \in Deals
    BY <1>1, <1>6, <1>7 DEF Becomes
  <2>4. \A d \in Callers \ {c} : call'[d] = call[d]
    BY <1>6 DEF Becomes
  <2> QED
    BY <1>4, <2>1, <2>2, <2>3, <2>4 DEF IInv, Typed, Active, At
<1>11. Flights'
  <2>1. \A d \in Callers : Flight(d)'
    <3> SUFFICES ASSUME NEW d \in Callers PROVE Flight(d)'
      OBVIOUS
    <3>1. CASE d = c
      BY <1>1, <1>2, <1>4, <1>5, <1>6, <1>7, <1>9, <3>1
         DEF Flight, Becomes, OwnerPCs, IInv, Typed
    <3>2. CASE d # c
      <4>1. Flight(d) /\ call'[d] = call[d]
        BY <1>6, <3>2 DEF IInv, Flights, Becomes
      <4>2. call[d].pc \in OwnerPCs => opByCid'[call[d].piece] = opByCid[call[d].piece]
        BY <1>5, <1>8 DEF IInv, Typed
      <4> QED
        BY <1>2, <1>4, <4>1, <4>2 DEF Flight
    <3> QED
      BY <3>1, <3>2
  <2>2. \A d, e \in Callers :
          call'[d].pc \in OwnerPCs /\ call'[e].pc \in OwnerPCs /\ call'[d].piece = call'[e].piece
          => d = e
    BY <1>6, <1>7, <1>8 DEF Becomes, IInv, Flights
  <2>3. \A p \in Pieces : opByCid'[p] # None =>
          \E d \in Callers : call'[d].pc \in OwnerPCs /\ call'[d].piece = p
    <3> SUFFICES ASSUME NEW p \in Pieces, opByCid'[p] # None
                 PROVE  \E d \in Callers : call'[d].pc \in OwnerPCs /\ call'[d].piece = p
      OBVIOUS
    <3>1. CASE p = call[c].piece
      BY <1>6, <1>7, <3>1 DEF Becomes, OwnerPCs
    <3>2. CASE p # call[c].piece
      <4>1. opByCid[p] # None
        BY <1>5, <3>2 DEF IInv, Typed
      <4>2. PICK d \in Callers : call[d].pc \in OwnerPCs /\ call[d].piece = p
        BY <4>1 DEF IInv, Flights
      <4>3. d # c
        BY <1>1, <4>2 DEF At, OwnerPCs
      <4> QED
        BY <1>6, <4>2, <4>3 DEF Becomes
    <3> QED
      BY <3>1, <3>2
  <2> QED
    BY <2>1, <2>2, <2>3 DEF Flights, OwnerPCs
<1>12. SlotsAccounted'
  BY <1>6, <1>7, SlotsKept DEF IInv, Becomes, Own, At
<1>13. Parsed'
  <2>1. \A q \in 1..Len(ops') : ops'[q].done => q \in 1..Len(ops)
    BY <1>2, <1>4, <1>9
  <2>2. \A d \in Callers : call'[d].pc \in {"release", "close"} =>
          call'[d] = call[d] /\ call[d].op \in 1..Len(ops)
    BY <1>6, <1>7 DEF Becomes, IInv, Flights, Flight, OwnerPCs
  <2>3. \A q \in 1..Len(ops') : ops'[q].done /\ ops'[q].err = "nil" => Records[ops'[q].deal] # Broken
    BY <1>4, <2>1 DEF IInv, Parsed, Records
  <2>4. ASSUME NEW d \in Callers, call'[d].pc \in {"release", "close"}
        PROVE  /\ call[d].pc \in {"release", "close"} /\ call'[d].op = call[d].op
               /\ ops'[call'[d].op] = ops[call[d].op]
    BY <1>4, <2>2, <2>4
  <2>5. \A d \in Callers : call'[d].pc \in {"release", "close"} /\ ops'[call'[d].op].err = "nil" =>
           Records[ops'[call'[d].op].deal] # Broken
    BY <2>4 DEF IInv, Parsed
  <2> QED
    BY <2>3, <2>5 DEF Parsed, Records
<1>14. Honest'
  <2>1. \A p \in Pieces : BuiltBy(p) => BuiltBy(p)'
    BY <1>2, <1>4 DEF BuiltBy, Records
  <2>2. \A d \in Callers : call'[d].pc # "idle" => call'[d].piece \in Pieces
    BY <1>10 DEF Typed, Active, Calls, NoCall
  <2> QED
    BY <1>6, <1>7, <2>1, <2>2 DEF IInv, Honest, Becomes, At
<1> QED
  BY <1>10, <1>11, <1>12, <1>13, <1>14 DEF IInv

\* Deleting the map entry ends the ownership; the operation stays done with its result.
LEMMA DeleteOpInv ==
  ASSUME IInv, NEW c \in Callers, DeleteOp(c)
  PROVE  IInv'
<1> DEFINE o == call[c].op
           k == [[call[c] EXCEPT !.pc = "attempted"] EXCEPT !.err = ops[o].err]
<1>1. /\ call[c].pc = "delete" /\ call[c] \in Calls /\ Active(c)
      /\ call[c].piece \in Pieces /\ call[c].deal \in Deals
  BY ActiveCalls DEF DeleteOp, IInv, Typed, At, Active, Calls
<1>2. /\ o \in 1..Len(ops) /\ ops[o].done /\ ops[o].err \in Errors
      /\ opByCid[call[c].piece] = o /\ ops[o].piece = call[c].piece
  <2>1. /\ o \in 1..Len(ops) /\ ops[o].done
        /\ opByCid[call[c].piece] = o /\ ops[o].piece = call[c].piece
    BY <1>1 DEF IInv, Flights, Flight, OwnerPCs
  <2> QED
    BY <2>1, ErrTyped DEF IInv
<1>3. k \in Calls /\ Becomes(c, k)
  BY <1>1, <1>2, GoesToAttempted DEF IInv, DeleteOp
<1>4. /\ k.pc = "attempted" /\ k.err = ops[o].err /\ k.piece = call[c].piece
      /\ k.deal = call[c].deal
  BY <1>1 DEF Calls
<1> HIDE DEF k
<1>5. /\ opByCid' = [opByCid EXCEPT ![call[c].piece] = None]
      /\ UNCHANGED <<ops, throttle>>
  BY DEF DeleteOp
<1>6. \A d \in Callers \ {c} : call[d].pc \in OwnerPCs =>
        call[d].piece # call[c].piece /\ call[d].piece \in Pieces
  <2> SUFFICES ASSUME NEW d \in Callers \ {c}, call[d].pc \in OwnerPCs
               PROVE  call[d].piece # call[c].piece /\ call[d].piece \in Pieces
    OBVIOUS
  <2>1. call[d] \in Calls
    BY ActiveCalls DEF IInv, Active, OwnerPCs
  <2> QED
    BY <1>1, <2>1 DEF IInv, Flights, OwnerPCs, Calls
<1>7. Typed'
  <2>1. opByCid' \in [Pieces -> Nat \cup {None}]
    BY <1>5 DEF IInv, Typed
  <2> QED
    BY <1>1, <1>3, <1>4, <1>5, <2>1 DEF IInv, Typed, Becomes, Active, At
<1>8. Flights'
  <2>1. \A d \in Callers : Flight(d)'
    <3> SUFFICES ASSUME NEW d \in Callers PROVE Flight(d)'
      OBVIOUS
    <3>1. CASE d = c
      BY <1>3, <1>4, <3>1 DEF Flight, Becomes, OwnerPCs
    <3>2. CASE d # c
      <4>1. Flight(d) /\ call'[d] = call[d]
        BY <1>3, <3>2 DEF IInv, Flights, Becomes
      <4>2. call[d].pc \in OwnerPCs => opByCid'[call[d].piece] = opByCid[call[d].piece]
        BY <1>5, <1>6, <3>2 DEF IInv, Typed
      <4> QED
        BY <1>5, <4>1, <4>2 DEF Flight
    <3> QED
      BY <3>1, <3>2
  <2>2. \A d, e \in Callers :
          call'[d].pc \in OwnerPCs /\ call'[e].pc \in OwnerPCs /\ call'[d].piece = call'[e].piece
          => d = e
    BY <1>3, <1>4 DEF Becomes, IInv, Flights, OwnerPCs
  <2>3. \A p \in Pieces : opByCid'[p] # None =>
          \E d \in Callers : call'[d].pc \in OwnerPCs /\ call'[d].piece = p
    <3> SUFFICES ASSUME NEW p \in Pieces, opByCid'[p] # None
                 PROVE  \E d \in Callers : call'[d].pc \in OwnerPCs /\ call'[d].piece = p
      OBVIOUS
    <3>1. p # call[c].piece /\ opByCid[p] # None
      BY <1>1, <1>5 DEF IInv, Typed
    <3>2. PICK d \in Callers : call[d].pc \in OwnerPCs /\ call[d].piece = p
      BY <3>1 DEF IInv, Flights
    <3> QED
      BY <1>3, <3>1, <3>2 DEF Becomes
  <2> QED
    BY <2>1, <2>2, <2>3 DEF Flights, OwnerPCs
<1>9. SlotsAccounted'
  BY <1>1, <1>3, <1>4, <1>5, SlotsKept DEF IInv, Becomes
<1>10. Parsed'
  BY <1>3, <1>4, <1>5 DEF IInv, Parsed, Becomes, Records
<1>11. Honest'
  <2>1. \A p \in Pieces : BuiltBy(p)' <=> BuiltBy(p)
    BY <1>5 DEF BuiltBy, Records
  <2>2. \A d \in Callers : call'[d].pc # "idle" => call'[d].piece \in Pieces
    BY <1>7 DEF Typed, Active, Calls, NoCall
  <2>3. ops[o].err = "nil" => BuiltBy(call[c].piece)
    BY <1>2, DoneBuilds
  <2> QED
    BY <1>3, <1>4, <2>1, <2>2, <2>3 DEF IInv, Honest, Becomes, At
<1> QED
  BY <1>7, <1>8, <1>9, <1>10, <1>11 DEF IInv

-----------------------------------------------------------------------------

\* The store only has deals, so a build only tries deals.
Inv == IInv /\ stored \subseteq Deals

LEMMA NextInv == Inv /\ [Next]_vars => Inv'
<1> SUFFICES ASSUME Inv, [Next]_vars PROVE Inv'
  OBVIOUS
<1>1. IInv'
  <2>1. ASSUME NEW c \in Callers, NEW d \in Deals, AddDealForPiece(c, d) \/ TxAddDealForPiece(c, d)
        PROVE  IInv'
    BY <2>1, AddDealForPieceInv DEF Inv
  <2>2. ASSUME NEW c \in Callers, NEW p \in Pieces, BuildIndexForPiece(c, p) PROVE IInv'
    BY <2>2, BuildIndexForPieceInv DEF Inv
  <2>3. ASSUME NEW c \in Callers, Cancel(c) \/ TakeSlot(c) \/ CallStep(c) PROVE IInv'
    BY <2>3, CancelInv, TakeSlotInv, JoinInv, OwnInv, WaitInv, ThrottleCanceledInv,
       addIndexForPieceInv, ReleaseSlotInv, CloseDoneInv, DeleteOpInv, NextDealInv, GoStoreInv,
       FinishInv
       DEF Inv, CallStep
  <2>4. CASE UNCHANGED vars
    BY <2>4 DEF vars, Inv, IInv, Typed, Active, At, Flights, Flight, OwnerPCs, SlotsAccounted,
                Parsed, Honest, BuiltBy, Records
  <2> QED
    BY <2>1, <2>2, <2>3, <2>4 DEF Next, Finished
<1>2. stored' \subseteq Deals
  <2>1. ASSUME NEW c \in Callers, StoreDeal(c) PROVE stored' \subseteq Deals
    BY <2>1 DEF Inv, IInv, Typed, StoreDeal, Active, At
  <2>2. ASSUME NEW c \in Callers, CallStep(c), ~StoreDeal(c) PROVE UNCHANGED stored
    BY <2>2 DEF CallStep, Join, Own, WaitDone, WaitCanceled, ThrottleCanceled, addIndexForPiece,
                ReleaseSlot, CloseDone, DeleteOp, NextDeal, GoStore, Return, StoreFails
  <2>3. ASSUME NEW c \in Callers, Cancel(c) \/ TakeSlot(c) PROVE UNCHANGED stored
    BY <2>3 DEF Cancel, TakeSlot
  <2>4. ASSUME NEW c \in Callers, NEW d \in Deals, AddDealForPiece(c, d) \/ TxAddDealForPiece(c, d)
        PROVE  UNCHANGED stored
    BY <2>4 DEF AddDealForPiece, TxAddDealForPiece, NewCall
  <2>5. ASSUME NEW c \in Callers, NEW p \in Pieces, BuildIndexForPiece(c, p)
        PROVE  UNCHANGED stored
    BY <2>5 DEF BuildIndexForPiece, NewCall
  <2>6. UNCHANGED vars => UNCHANGED stored
    BY DEF vars
  <2> QED
    BY <2>1, <2>2, <2>3, <2>4, <2>5, <2>6 DEF Inv, Next, Finished
<1> QED
  BY <1>1, <1>2 DEF Inv

\* Inv is an inductive invariant of PieceDirectory.
THEOREM Invariance == Spec => []Inv
<1>1. Init => Inv
  BY InitInv DEF Init, Inv
<1> QED
  BY <1>1, NextInv, PTL DEF Spec

\* At most one call owns an index operation of a piece, and the map entry is the operation of
\* the owner from LoadOrStore to Delete, whoever is cancelled meanwhile.
THEOREM OneFlight == Spec => []SingleFlight
<1>1. Inv => SingleFlight
  <2> SUFFICES ASSUME Inv, NEW p \in Pieces
               PROVE  /\ \A c, d \in Owners(p) : c = d
                      /\ (opByCid[p] = None) <=> (Owners(p) = {})
                      /\ \A c \in Owners(p) : call[c].op = opByCid[p]
    BY DEF SingleFlight
  <2>1. \A c, d \in Owners(p) : c = d
    BY DEF Inv, IInv, Flights, Owners
  <2>2. \A c \in Owners(p) : call[c].op = opByCid[p] /\ opByCid[p] # None
    <3> SUFFICES ASSUME NEW c \in Owners(p)
                 PROVE  call[c].op = opByCid[p] /\ opByCid[p] # None
      OBVIOUS
    <3>1. c \in Callers /\ call[c].pc \in OwnerPCs /\ call[c].piece = p
      BY DEF Owners
    <3>2. call[c].op = opByCid[p] /\ call[c].op \in 1..Len(ops)
      BY <3>1 DEF Inv, IInv, Flights, Flight
    <3>3. Len(ops) \in Nat
      BY DEF Inv, IInv, Typed
    <3> QED
      BY <3>2, <3>3
  <2>3. opByCid[p] # None => Owners(p) # {}
    BY DEF Inv, IInv, Flights, Owners
  <2> QED
    BY <2>1, <2>2, <2>3
<1> QED
  BY <1>1, Invariance, PTL

\* No path of an owner, cancelled or failed, loses a slot of the throttle or gives back one it
\* did not take.
THEOREM SlotsExact == Spec => []SlotsAccounted
<1>1. Inv => SlotsAccounted
  BY DEF Inv, IInv
<1> QED
  BY <1>1, Invariance, PTL

\* No call reports success and no deal is recorded without an operation about its piece that was
\* done and parsed readable data.
THEOREM SuccessReal == Spec => []SuccessIsReal
<1>1. Inv => SuccessIsReal
  <2> SUFFICES ASSUME Inv, NEW c \in Callers, Returns(c) \/ At(c, "store"), call[c].err = "nil"
               PROVE  Built(call[c].piece)
    BY DEF SuccessIsReal
  <2>1. BuiltBy(call[c].piece)
    <3>1. CASE At(c, "store")
      BY <3>1 DEF Inv, IInv, Honest
    <3>2. CASE Returns(c)
      <4>1. At(c, "attempted") /\ call[c].deal # None
        BY <3>2 DEF Returns, Inv, IInv, Typed, Active, At
      <4> QED
        BY <4>1 DEF Inv, IInv, Honest
    <3> QED
      BY <3>1, <3>2
  <2>2. /\ DOMAIN ops = 1..Len(ops)
        /\ \A o \in 1..Len(ops) : ops[o].deal \in Deals
    <3>1. DOMAIN ops = 1..Len(ops)
      BY DEF Inv, IInv, Typed
    <3>2. \A o \in 1..Len(ops) : ops[o] \in AddIndexOperation
      BY ErrTyped DEF Inv, IInv
    <3> QED
      BY <3>1, <3>2 DEF AddIndexOperation
  <2>3. \A d \in Deals : Records[d] # Broken => d \in Good
    <3>1. \A d \in Deals : ParsedRight(Data[d])
      BY ParserCorrect
    <3> QED
      BY <3>1 DEF ParsedRight, Records, Good
  <2> QED
    BY <2>1, <2>2, <2>3 DEF BuiltBy, Built
<1> QED
  BY <1>1, Invariance, PTL

\* Whatever the contents of the pieces are, the records of a piece that is being indexed are those
\* of all the segments it should be taken for, at their places.
THEOREM RecordsCorrect == Spec => []RecordsRight
<1>1. ParserRight
  BY ParserCorrect DEF ParserRight
<1>2. RecordsRight
  BY <1>1 DEF RecordsRight
<1> QED
  BY <1>2, PTL

\* All the waiters of an operation get the same answer: once done is closed, nothing changes it.
THEOREM Frozen == Spec => ResultFrozen
<1> DEFINE Same == \A o \in DOMAIN ops : ops[o].done => ops'[o] = ops[o]
<1>1. Inv /\ [Next]_vars => [Same]_vars
  <2> SUFFICES ASSUME Inv, Next PROVE Same
    OBVIOUS
  <2>1. DOMAIN ops = 1..Len(ops) /\ ops \in Seq(AddIndexOperation)
    BY DEF Inv, IInv, Typed
  <2>2. ASSUME NEW c \in Callers, ThrottleCanceled(c) \/ addIndexForPiece(c) \/ CloseDone(c)
        PROVE  Same
    <3>1. call[c].op \in 1..Len(ops) /\ ~ops[call[c].op].done
      BY <2>2, OwnOp DEF Inv, ThrottleCanceled, addIndexForPiece, CloseDone, At, OwnerPCs
    <3>2. \A o \in 1..Len(ops) : o # call[c].op => ops'[o] = ops[o]
      BY <2>1, <2>2 DEF ThrottleCanceled, addIndexForPiece, CloseDone
    <3> QED
      BY <2>1, <3>1, <3>2
  <2>3. ASSUME NEW c \in Callers, Own(c) PROVE Same
    <3> DEFINE op == [piece |-> call[c].piece, deal |-> call[c].deal, done |-> FALSE, err |-> "nil"]
    <3>1. ops' = Append(ops, op)
      BY <2>3 DEF Own
    <3> HIDE DEF op
    <3> QED
      BY <2>1, <3>1
  <2>4. ASSUME NEW c \in Callers, \/ Join(c) \/ WaitDone(c) \/ WaitCanceled(c)
                                 \/ ReleaseSlot(c) \/ DeleteOp(c) \/ NextDeal(c) \/ GoStore(c)
                                 \/ Return(c) \/ StoreDeal(c) \/ StoreFails(c)
                                 \/ Cancel(c) \/ TakeSlot(c)
        PROVE  UNCHANGED ops
    BY <2>4 DEF Join, WaitDone, WaitCanceled, ReleaseSlot, DeleteOp, NextDeal, GoStore, Return,
                StoreDeal, StoreFails, Cancel, TakeSlot
  <2>5. ASSUME NEW c \in Callers, NEW d \in Deals, AddDealForPiece(c, d) \/ TxAddDealForPiece(c, d)
        PROVE  UNCHANGED ops
    BY <2>5 DEF AddDealForPiece, TxAddDealForPiece, NewCall
  <2>6. ASSUME NEW c \in Callers, NEW p \in Pieces, BuildIndexForPiece(c, p) PROVE UNCHANGED ops
    BY <2>6 DEF BuildIndexForPiece, NewCall
  <2>7. Finished => UNCHANGED ops
    BY DEF Finished, vars
  <2>8. UNCHANGED ops => Same
    OBVIOUS
  <2> HIDE DEF Same
  <2> QED
    BY <2>2, <2>3, <2>4, <2>5, <2>6, <2>7, <2>8 DEF Next, CallStep
<1> QED
  BY <1>1, Invariance, PTL DEF Spec, ResultFrozen

-----------------------------------------------------------------------------
(* The bound on the operations: a call owes one to each deal it may still  *)
(* try to index.                                                           *)

\* The deals c may still make an operation for.
Pending(c) ==
  IF Active(c) THEN call[c].todo \cup {d \in {call[c].deal} : At(c, "join")} ELSE {}

Owed == {x \in Callers \X Deals : x[2] \in Pending(x[1])}

\* A call refers to operations that were made, and has taken its deal from the ones to try.
Known(c) ==
  /\ Active(c) /\ call[c].op # None => call[c].op \in 1..Len(ops)
  /\ At(c, "join") => call[c].deal \notin call[c].todo

Counted ==
  /\ calls \in 0..MaxCalls
  /\ throttle \in 0..ThrottleSize
  /\ \A c \in Callers : Known(c)
  /\ IsFiniteSet(Owed)
  /\ Len(ops) + Cardinality(Owed) <= calls * Cardinality(Deals)

LEMMA PendingDeals ==
  ASSUME Typed, NEW c \in Callers
  PROVE  Pending(c) \subseteq Deals
BY ActiveCalls DEF Pending, Calls, Typed, At

\* Where c's call owes no more than before, the others are as they were, and no operation is new.
LEMMA CountedKept ==
  ASSUME Inv, Counted, NEW c \in Callers, \A d \in Callers \ {c} : call'[d] = call[d],
         Pending(c)' \subseteq Pending(c), Known(c)', UNCHANGED calls, Len(ops') = Len(ops),
         throttle' \in 0..ThrottleSize
  PROVE  Counted'
<1>1. Owed' \in SUBSET Owed
  BY DEF Owed, Pending, Active, At
<1>2. IsFiniteSet(Owed') /\ Cardinality(Owed') <= Cardinality(Owed)
      /\ Cardinality(Owed') \in Nat /\ Cardinality(Owed) \in Nat
  <2>1. IsFiniteSet(Owed') /\ Cardinality(Owed') <= Cardinality(Owed)
    BY <1>1, FS_Subset DEF Counted
  <2> QED
    BY <2>1, FS_CardinalityType DEF Counted
<1>3. \A d \in Callers : Known(d)'
  BY DEF Counted, Known, Active, At
<1>4. Len(ops') + Cardinality(Owed') <= calls' * Cardinality(Deals)
  <2>1. PICK n : n = calls * Cardinality(Deals)
    OBVIOUS
  <2>2. Len(ops) \in Nat
    BY DEF Inv, IInv, Typed
  <2> QED
    BY <1>2, <2>1, <2>2 DEF Counted
<1> QED
  BY <1>2, <1>3, <1>4 DEF Counted

\* A step to a place after which nothing is owed but the deals still to try.
LEMMA MovesOnCounted ==
  ASSUME Inv, Counted, NEW c \in Callers, Active(c), NEW k \in Calls, Becomes(c, k),
         k.pc # "join", k.todo = call[c].todo,
         k.op = call[c].op \/ k.op \in 1..Len(ops),
         UNCHANGED calls, Len(ops') = Len(ops), throttle' \in 0..ThrottleSize
  PROVE  Counted'
<1>1. Pending(c)' \subseteq Pending(c)
  BY DEF Pending, Becomes, At
<1>2. Known(c)'
  BY DEF Counted, Known, Becomes, At
<1> QED
  BY <1>1, <1>2, CountedKept DEF Becomes

LEMMA WaitCounted ==
  ASSUME Inv, Counted, NEW c \in Callers, Join(c) \/ WaitDone(c) \/ WaitCanceled(c)
  PROVE  Counted'
<1>1. call[c] \in Calls /\ Active(c) /\ UNCHANGED <<ops, calls, throttle>>
  BY ActiveCalls DEF Join, WaitDone, WaitCanceled, Inv, IInv, At, Active
<1>2. CASE Join(c)
  <2>1. PICK o : o = opByCid[call[c].piece]
    OBVIOUS
  <2>2. o \in Nat /\ o \in 1..Len(ops)
    <3>1. o # None /\ call[c].piece \in Pieces
      BY <1>1, <1>2, <2>1 DEF Join, Calls
    <3>2. PICK d \in Callers : call[d].pc \in OwnerPCs /\ call[d].piece = call[c].piece
      BY <2>1, <3>1 DEF Inv, IInv, Flights
    <3> QED
      BY <2>1, <3>2 DEF Inv, IInv, Flights, Flight, Typed
  <2>3. PICK k : k = [[call[c] EXCEPT !.pc = "wait"] EXCEPT !.op = o]
    OBVIOUS
  <2>4. k \in Calls /\ k.pc = "wait" /\ k.op = o /\ k.todo = call[c].todo
    BY <1>1, <2>2, <2>3 DEF Calls, PCs
  <2>5. call' = [call EXCEPT ![c] = k]
    BY <1>1, <1>2, <2>1, <2>3 DEF Join, Calls
  <2>6. Becomes(c, k)
    BY <2>4, <2>5, CallChanged DEF Inv, IInv
  <2> QED
    BY <1>1, <2>2, <2>4, <2>6, MovesOnCounted DEF Counted
<1>3. ASSUME NEW e \in Errors, Attempted(c, e) PROVE Counted'
  <2>1. PICK k : k = [[call[c] EXCEPT !.pc = "attempted"] EXCEPT !.err = e]
    OBVIOUS
  <2>2. Becomes(c, k) /\ k \in Calls
    BY <1>1, <1>3, <2>1, GoesToAttempted DEF Inv, IInv
  <2>3. k.pc = "attempted" /\ k.op = call[c].op /\ k.todo = call[c].todo
    BY <1>1, <2>1 DEF Calls
  <2> QED
    BY <1>1, <2>2, <2>3, MovesOnCounted DEF Counted
<1>4. CASE WaitDone(c)
  <2>1. call[c].op \in 1..Len(ops)
    BY <1>4 DEF WaitDone, Inv, IInv, Flights, Flight, At
  <2> QED
    BY <1>3, <1>4, <2>1, ErrTyped DEF WaitDone, Inv, IInv
<1>5. CASE WaitCanceled(c)
  BY <1>3, <1>5 DEF WaitCanceled, Errors
<1> QED
  BY <1>2, <1>4, <1>5

\* The steps of an owner that only go on.
LEMMA GoesCounted ==
  ASSUME Inv, Counted, NEW c \in Callers, Active(c), NEW pc \in PCs \ {"idle", "join"},
         Goto(c, pc), UNCHANGED calls, Len(ops') = Len(ops), throttle' \in 0..ThrottleSize
  PROVE  Counted'
<1>1. PICK k : k = [call[c] EXCEPT !.pc = pc]
  OBVIOUS
<1>2. call[c] \in Calls /\ k \in Calls /\ Becomes(c, k)
  BY <1>1, GoesTo, ActiveCalls DEF Inv, IInv
<1>3. k.pc = pc /\ k.op = call[c].op /\ k.todo = call[c].todo
  BY <1>1, <1>2 DEF Calls
<1> QED
  BY <1>2, <1>3, MovesOnCounted

LEMMA OwnerCounted ==
  ASSUME Inv, Counted, NEW c \in Callers,
         \/ TakeSlot(c) \/ ThrottleCanceled(c) \/ addIndexForPiece(c)
         \/ ReleaseSlot(c) \/ CloseDone(c) \/ GoStore(c)
  PROVE  Counted'
<1>1. Active(c) /\ UNCHANGED calls
  BY DEF TakeSlot, ThrottleCanceled, addIndexForPiece, ReleaseSlot, CloseDone, GoStore, At, Active
<1>2. ops \in Seq(AddIndexOperation) /\ throttle \in 0..ThrottleSize
  BY DEF Inv, IInv, Typed, Counted
<1>3. CASE TakeSlot(c)
  BY <1>1, <1>2, <1>3, GoesCounted DEF TakeSlot, PCs, OwnerPCs
<1>4. CASE ReleaseSlot(c)
  <2>1. throttle # 0
    <3>1. c \in Holders
      BY <1>4 DEF ReleaseSlot, Holders, At
    <3>2. Cardinality(Holders) # 0
      BY <3>1, HoldersFinite, FS_EmptySet
    <3> QED
      BY <3>2 DEF Inv, IInv, SlotsAccounted, Holders
  <2>2. throttle - 1 \in 0..ThrottleSize
    BY <1>2, <2>1
  <2> QED
    BY <1>1, <1>4, <2>2, GoesCounted DEF ReleaseSlot, PCs, OwnerPCs
<1>5. CASE GoStore(c)
  BY <1>1, <1>2, <1>5, GoesCounted DEF GoStore, PCs
<1>6. CASE ThrottleCanceled(c)
  <2>1. Len(ops') = Len(ops)
    BY <1>2, <1>6 DEF ThrottleCanceled
  <2> QED
    BY <1>1, <1>2, <1>6, <2>1, GoesCounted DEF ThrottleCanceled, PCs, OwnerPCs
<1>7. CASE addIndexForPiece(c)
  <2>1. Len(ops') = Len(ops)
    BY <1>2, <1>7 DEF addIndexForPiece
  <2> QED
    BY <1>1, <1>2, <1>7, <2>1, GoesCounted DEF addIndexForPiece, PCs, OwnerPCs
<1>8. CASE CloseDone(c)
  <2>1. Len(ops') = Len(ops)
    BY <1>2, <1>8 DEF CloseDone
  <2> QED
    BY <1>1, <1>2, <1>8, <2>1, GoesCounted DEF CloseDone, PCs, OwnerPCs
<1> QED
  BY <1>3, <1>4, <1>5, <1>6, <1>7, <1>8

LEMMA CancelCounted ==
  ASSUME Inv, Counted, NEW c \in Callers, Cancel(c)
  PROVE  Counted'
<1>1. PICK k : k = [call[c] EXCEPT !.canceled = TRUE]
  OBVIOUS
<1>2. call[c] \in Calls /\ Active(c)
  BY ActiveCalls DEF Cancel, Inv, IInv, At, Active
<1>3. k \in Calls /\ k.pc = call[c].pc /\ k.op = call[c].op /\ k.todo = call[c].todo
  BY <1>1, <1>2 DEF Calls
<1>4. Becomes(c, k)
  BY <1>1, <1>3, CallChanged DEF Cancel, Inv, IInv
<1> QED
  BY <1>2, <1>3, <1>4, MovesOnCounted DEF Cancel, At, Counted

LEMMA DeleteOpCounted ==
  ASSUME Inv, Counted, NEW c \in Callers, DeleteOp(c)
  PROVE  Counted'
<1>1. call[c] \in Calls /\ Active(c)
  BY ActiveCalls DEF DeleteOp, Inv, IInv, At, Active
<1>2. PICK e \in Errors : Attempted(c, e)
  <2>1. call[c].op \in 1..Len(ops)
    BY DEF DeleteOp, Inv, IInv, Flights, Flight, At, OwnerPCs
  <2> QED
    BY <2>1, ErrTyped DEF DeleteOp, Inv, IInv
<1>3. PICK k : k = [[call[c] EXCEPT !.pc = "attempted"] EXCEPT !.err = e]
  OBVIOUS
<1>4. Becomes(c, k) /\ k \in Calls
  BY <1>1, <1>2, <1>3, GoesToAttempted DEF Inv, IInv
<1>5. k.pc = "attempted" /\ k.op = call[c].op /\ k.todo = call[c].todo
  BY <1>1, <1>3 DEF Calls
<1> QED
  BY <1>1, <1>4, <1>5, MovesOnCounted DEF DeleteOp, Counted

\* The deal that is tried next was one of those still to try.
LEMMA NextDealCounted ==
  ASSUME Inv, Counted, NEW c \in Callers, NextDeal(c)
  PROVE  Counted'
<1>1. call[c] \in Calls /\ Active(c) /\ ~At(c, "join")
  BY ActiveCalls DEF NextDeal, Inv, IInv, At, Active
<1>2. PICK d \in call[c].todo :
        call' = [call EXCEPT ![c].pc = "join", ![c].deal = d, ![c].todo = @ \ {d}]
  BY DEF NextDeal
<1>3. PICK k : k = [[[call[c] EXCEPT !.pc = "join"] EXCEPT !.deal = d] EXCEPT
                     !.todo = call[c].todo \ {d}]
  OBVIOUS
<1>4. d \in Deals
  BY <1>1 DEF Calls
<1>5. /\ k \in Calls /\ k.pc = "join" /\ k.deal = d /\ k.op = call[c].op
      /\ k.todo = call[c].todo \ {d}
  BY <1>1, <1>3, <1>4 DEF Calls, PCs
<1>6. Becomes(c, k)
  <2>1. call' = [call EXCEPT ![c] = k]
    BY <1>1, <1>2, <1>3 DEF Calls
  <2> QED
    BY <1>5, <2>1, CallChanged DEF Inv, IInv
<1>7. Pending(c)' \subseteq Pending(c)
  BY <1>1, <1>2, <1>5, <1>6 DEF Pending, Becomes, Active, At
<1>8. Known(c)'
  BY <1>1, <1>5, <1>6 DEF Counted, Known, Becomes, Active, At, NextDeal
<1> QED
  BY <1>6, <1>7, <1>8, CountedKept DEF NextDeal, Becomes, Counted

LEMMA FinishCounted ==
  ASSUME Inv, Counted, NEW c \in Callers, Return(c) \/ StoreDeal(c) \/ StoreFails(c)
  PROVE  Counted'
<1>1. call' = [call EXCEPT ![c] = NoCall] /\ UNCHANGED <<ops, calls, throttle>>
  BY DEF Return, StoreDeal, StoreFails, Finish
<1>2. Becomes(c, NoCall) /\ NoCall.pc = "idle"
  BY <1>1, CallChanged DEF Inv, IInv, NoCall
<1>3. Pending(c)' = {}
  BY <1>2 DEF Pending, Becomes, Active
<1>4. Known(c)'
  BY <1>2 DEF Known, Becomes, Active, At
<1> QED
  BY <1>1, <1>2, <1>3, <1>4, CountedKept DEF Becomes, Counted

LEMMA CreatedCount ==
  ASSUME NEW n \in Nat
  PROVE  Cardinality(1..n) = n
<1>1. Cardinality(1..n) = IF 1 > n THEN 0 ELSE n - 1 + 1
  BY FS_Interval
<1> QED
  BY <1>1

\* A new operation is the one its call owed for the deal.
LEMMA OwnCounted ==
  ASSUME Inv, Counted, NEW c \in Callers, Own(c)
  PROVE  Counted'
<1>1. call[c] \in Calls /\ Active(c) /\ At(c, "join") /\ call[c].deal \in Deals
  BY ActiveCalls DEF Own, Inv, IInv, Typed, At, Active
<1>2. PICK n \in Nat : n = Len(ops)
  BY DEF Inv, IInv, Typed
<1>3. created = n
  <2>1. DOMAIN ops = 1..n
    BY <1>2 DEF Inv, IInv, Typed
  <2> QED
    BY <2>1, CreatedCount DEF created
<1>4. Len(ops') = n + 1
  <2> DEFINE op == [piece |-> call[c].piece, deal |-> call[c].deal, done |-> FALSE, err |-> "nil"]
  <2>1. ops' = Append(ops, op)
    BY DEF Own
  <2>2. op \in AddIndexOperation
    BY <1>1 DEF AddIndexOperation, Calls, Errors
  <2>3. ops \in Seq(AddIndexOperation)
    BY DEF Inv, IInv, Typed
  <2> HIDE DEF op
  <2> QED
    BY <1>2, <2>1, <2>2, <2>3
<1>5. PICK m \in Nat : m = n + 1
  OBVIOUS
<1>6. PICK k : k = [[call[c] EXCEPT !.pc = "throttle"] EXCEPT !.op = m]
  OBVIOUS
<1>7. k \in Calls /\ k.pc = "throttle" /\ k.op = m /\ k.todo = call[c].todo
  BY <1>1, <1>6 DEF Calls, PCs, OwnerPCs
<1>8. Becomes(c, k)
  <2>1. call' = [call EXCEPT ![c] = k]
    BY <1>5, <1>1, <1>3, <1>6 DEF Own, Calls
  <2> QED
    BY <1>7, <2>1, CallChanged DEF Inv, IInv
<1>9. PICK x : x = <<c, call[c].deal>>
  OBVIOUS
<1>10. Owed' = Owed \ {x} /\ x \in Owed
  <2>1. Pending(c) = call[c].todo \cup {call[c].deal} /\ call[c].deal \notin call[c].todo
    BY <1>1 DEF Pending, Counted, Known
  <2>2. Pending(c)' = call[c].todo
    BY <1>7, <1>8 DEF Pending, Becomes, Active, At
  <2>3. \A d \in Callers \ {c} : Pending(d)' = Pending(d)
    BY <1>8 DEF Pending, Becomes, Active, At
  <2> QED
    BY <1>1, <1>9, <2>1, <2>2, <2>3 DEF Owed
<1>11. IsFiniteSet(Owed') /\ Cardinality(Owed') = Cardinality(Owed) - 1
  BY <1>10, FS_RemoveElement DEF Counted
<1>12. Len(ops') + Cardinality(Owed') <= calls' * Cardinality(Deals)
  <2>1. Cardinality(Owed) \in Nat
    BY FS_CardinalityType DEF Counted
  <2>2. PICK o \in Nat : o = Cardinality(Owed)
    BY <2>1
  <2>3. PICK s : s = calls * Cardinality(Deals)
    OBVIOUS
  <2>4. n + o <= s /\ calls' = calls
    BY <1>2, <2>2, <2>3 DEF Counted, Own
  <2>5. (n + 1) + (o - 1) = n + o
    BY <2>2
  <2> QED
    BY <1>4, <1>11, <2>2, <2>3, <2>4, <2>5
<1>13. ASSUME NEW d \in Callers PROVE Known(d)'
  BY <1>5, <1>2, <1>4, <1>7, <1>8 DEF Counted, Known, Becomes, Active, At
<1> QED
  BY <1>11, <1>12, <1>13 DEF Counted, Own

\* A new call owes at most one operation for each deal.
LEMMA NewCallCounted ==
  ASSUME IsFiniteSet(Deals), Inv, Counted, NEW c \in Callers, NEW kind \in Kinds,
         NEW pc \in {"join", "store", "attempted"}, NEW p \in Pieces, NEW d \in Deals \cup {None},
         NEW todo \in SUBSET Deals, pc = "join" => d \in Deals /\ d \notin todo,
         NewCall(c, kind, pc, p, d, todo)
  PROVE  Counted'
<1>1. PICK k : k = [pc |-> pc, kind |-> kind, piece |-> p, deal |-> d, op |-> None, todo |-> todo,
                    err |-> "nil", canceled |-> FALSE]
  OBVIOUS
<1>2. k \in Calls /\ k.pc = pc /\ k.deal = d /\ k.todo = todo /\ k.op = None
  BY <1>1 DEF Calls, PCs, Errors
<1>3. call' = [call EXCEPT ![c] = k]
  BY <1>1 DEF NewCall
<1>4. Becomes(c, k) /\ call[c].pc = "idle"
  BY <1>2, <1>3, CallChanged DEF NewCall, Inv, IInv, Active
<1>5. PICK S : S = {c} \X Deals
  OBVIOUS
<1>6. IsFiniteSet(S) /\ Cardinality(S) = Cardinality(Deals) /\ Cardinality(Deals) \in Nat
  <2>1. IsFiniteSet({c}) /\ Cardinality({c}) = 1
    BY FS_Singleton
  <2>2. PICK n \in Nat : n = Cardinality(Deals)
    BY FS_CardinalityType
  <2>3. IsFiniteSet(S) /\ Cardinality(S) = 1 * n
    BY <1>5, <2>1, <2>2, FS_Product
  <2> QED
    BY <2>2, <2>3
<1>7. Owed' \subseteq Owed \cup S
  <2>1. \A e \in Callers \ {c} : Pending(e)' = Pending(e)
    BY <1>4 DEF Pending, Becomes, Active, At
  <2> QED
    BY <1>5, <2>1 DEF Owed
<1>8. IsFiniteSet(Owed') /\ Cardinality(Owed') <= Cardinality(Owed) + Cardinality(Deals)
      /\ Cardinality(Owed') \in Nat /\ Cardinality(Owed) \in Nat
  <2>1. PICK o \in Nat, s \in Nat, b \in Nat :
          o = Cardinality(Owed) /\ s = Cardinality(S) /\ b = Cardinality(Owed \cap S)
    BY <1>6, FS_CardinalityType, FS_Subset DEF Counted
  <2>2. IsFiniteSet(Owed \cup S) /\ Cardinality(Owed \cup S) = o + s - b
    BY <1>6, <2>1, FS_Union DEF Counted
  <2>3. IsFiniteSet(Owed') /\ Cardinality(Owed') <= o + s - b /\ Cardinality(Owed') \in Nat
    BY <1>7, <2>2, FS_Subset, FS_CardinalityType
  <2>4. o + s - b <= o + s
    BY <2>1
  <2> QED
    BY <1>6, <2>1, <2>3, <2>4
<1>9. calls \in Nat /\ calls' = calls + 1 /\ calls' \in 0..MaxCalls
  BY DEF Counted, NewCall
<1>10. Len(ops') + Cardinality(Owed') <= calls' * Cardinality(Deals)
  <2>1. PICK n \in Nat : n = Cardinality(Deals)
    BY <1>6
  <2>2. calls' * n = calls * n + n
    BY <1>9, <2>1
  <2>3. PICK s \in Int : s = calls * n
    BY <1>9, <2>1
  <2>4. PICK l \in Nat, o \in Nat, q \in Nat :
          l = Len(ops) /\ o = Cardinality(Owed) /\ q = Cardinality(Owed')
    BY <1>8 DEF Inv, IInv, Typed
  <2>5. l + o <= s /\ q <= o + n /\ ops' = ops
    BY <1>8, <2>1, <2>3, <2>4 DEF Counted, NewCall
  <2>6. l + q <= s + n
    BY <2>3, <2>4, <2>5
  <2> QED
    BY <2>1, <2>2, <2>3, <2>4, <2>5, <2>6
<1>11. ASSUME NEW e \in Callers PROVE Known(e)'
  BY <1>2, <1>4 DEF Counted, Known, Becomes, Active, At, NewCall
<1> QED
  BY <1>8, <1>9, <1>10, <1>11 DEF Counted, NewCall

LEMMA BeginsCounted ==
  ASSUME IsFiniteSet(Deals), Inv, Counted, NEW c \in Callers,
         \/ \E d \in Deals : AddDealForPiece(c, d) \/ TxAddDealForPiece(c, d)
         \/ \E p \in Pieces : BuildIndexForPiece(c, p)
  PROVE  Counted'
<1>1. ASSUME NEW d \in Deals, AddDealForPiece(c, d) PROVE Counted'
  BY <1>1, NewCallCounted DEF AddDealForPiece, Kinds
<1>2. ASSUME NEW d \in Deals, TxAddDealForPiece(c, d) PROVE Counted'
  BY <1>2, NewCallCounted DEF TxAddDealForPiece, Kinds
<1>3. ASSUME NEW p \in Pieces, BuildIndexForPiece(c, p) PROVE Counted'
  <2>1. DealsOf(p) \subseteq Deals
    BY DEF DealsOf, Inv
  <2> QED
    BY <1>3, <2>1, NewCallCounted DEF BuildIndexForPiece, Kinds
<1> QED
  BY <1>1, <1>2, <1>3

LEMMA CountedInv ==
  ASSUME IsFiniteSet(Deals)
  PROVE  Inv /\ Counted /\ [Next]_vars => Counted'
<1> SUFFICES ASSUME Inv, Counted, [Next]_vars PROVE Counted'
  OBVIOUS
<1>1. ASSUME NEW c \in Callers, Cancel(c) \/ TakeSlot(c) \/ CallStep(c) PROVE Counted'
  BY <1>1, CancelCounted, WaitCounted, OwnCounted, OwnerCounted, DeleteOpCounted, NextDealCounted,
     FinishCounted DEF CallStep
<1>2. CASE UNCHANGED vars
  <2>1. Owed' = Owed
    BY <1>2 DEF vars, Owed, Pending, Active, At
  <2> QED
    BY <1>2, <2>1 DEF vars, Counted, Known, Active, At
<1> QED
  BY <1>1, <1>2, BeginsCounted DEF Next, Finished

\* With finitely many deals, no call makes more operations than it has deals to try, and every
\* variable has its type.
THEOREM TypeCorrect ==
  ASSUME IsFiniteSet(Deals)
  PROVE  Spec => []TypeOK
<1>1. Init => Counted
  <2> SUFFICES ASSUME Init PROVE Counted
    OBVIOUS
  <2>1. \A c \in Callers : ~Active(c) /\ ~At(c, "join")
    BY DEF Init, Active, At, NoCall
  <2>2. Owed = {}
    BY <2>1 DEF Owed, Pending
  <2>3. IsFiniteSet(Owed) /\ Cardinality(Owed) = 0
    BY <2>2, FS_EmptySet
  <2>4. Cardinality(Deals) \in Nat
    BY FS_CardinalityType
  <2>5. Len(ops) = 0 /\ calls = 0 /\ throttle = 0
    BY DEF Init
  <2>6. Len(ops) + Cardinality(Owed) <= calls * Cardinality(Deals)
    BY <2>3, <2>4, <2>5
  <2> QED
    BY <2>1, <2>3, <2>5, <2>6 DEF Counted, Known
<1>2. Inv /\ Counted => TypeOK
  <2> SUFFICES ASSUME Inv, Counted PROVE TypeOK
    OBVIOUS
  <2>1. PICK n \in Nat : n = Len(ops)
    BY DEF Inv, IInv, Typed
  <2>2. DOMAIN ops = 1..n /\ created = n
    <3>1. DOMAIN ops = 1..n
      BY <2>1 DEF Inv, IInv, Typed
    <3> QED
      BY <3>1, CreatedCount DEF created
  <2>3. n \in 0..Cardinality(Ops) /\ \A o \in 1..n : o \in Ops
    <3>1. PICK m \in Nat, o \in Nat : m = Cardinality(Deals) /\ o = Cardinality(Owed)
      BY FS_CardinalityType DEF Counted
    <3>2. PICK b \in Nat : b = MaxCalls * m
      BY <3>1
    <3>3. calls \in Nat /\ calls <= MaxCalls
      BY DEF Counted
    <3>4. calls * m <= b
      BY <3>2, <3>3
    <3>5. n + o <= calls * m
      BY <2>1, <3>1 DEF Counted
    <3>6. n <= b
      BY <3>3, <3>4, <3>5
    <3>7. Ops = 1..b
      BY <3>1, <3>2 DEF Ops
    <3> QED
      BY <3>6, <3>7, CreatedCount
  <2>4. \A o \in DOMAIN ops : ops[o] \in AddIndexOperation
    BY <2>1, <2>2, ErrTyped DEF Inv, IInv
  <2>5. opByCid \in [Pieces -> DOMAIN ops \cup {None}]
    <3>1. ASSUME NEW p \in Pieces, opByCid[p] # None PROVE opByCid[p] \in DOMAIN ops
      <4>1. PICK c \in Callers : call[c].pc \in OwnerPCs /\ call[c].piece = p
        BY <3>1 DEF Inv, IInv, Flights
      <4> QED
        BY <2>1, <2>2, <4>1 DEF Inv, IInv, Flights, Flight
    <3> QED
      BY <3>1 DEF Inv, IInv, Typed
  <2>6. ASSUME NEW c \in Callers PROVE call[c] \in Call \cup {NoCall}
    <3>1. CASE Active(c)
      <4>1. call[c] \in Calls
        BY <3>1, ActiveCalls DEF Inv, IInv
      <4>2. call[c].op \in Ops \cup {None}
        BY <2>1, <2>3, <3>1 DEF Counted, Known
      <4> QED
        BY <4>1, <4>2 DEF Calls, Call
    <3>2. CASE ~Active(c)
      BY <3>2 DEF Inv, IInv, Typed, Calls, Active
    <3> QED
      BY <3>1, <3>2
  <2> QED
    BY <2>2, <2>3, <2>4, <2>5, <2>6 DEF TypeOK, Inv, Counted
<1> QED
  BY <1>1, <1>2, CountedInv, Invariance, PTL DEF Spec

=============================================================================
