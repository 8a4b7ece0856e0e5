-------------------------- MODULE RecursionLemmas --------------------------
(***************************************************************************)
(* What the proofs about recursive functions on sequences share: induction *)
(* and recursion over an interval, told of sets and functions, since a     *)
(* theorem about an operator cannot be cited; least elements; and the parts*)
(* of a concatenation of two sequences or of many.                         *)
(***************************************************************************)
EXTENDS Integers, Sequences, FiniteSetsExt, SequencesExt, SequenceTheorems, WellFoundedInduction, TLAPS

(* A set that has 0 and, with each number below N, the next has them all.  *)
LEMMA Induction ==
  ASSUME NEW N \in Nat, NEW X, 0 \in X,
         \A k \in 0..N-1 : k \in X => k + 1 \in X
  PROVE  \A k \in 0..N : k \in X
<1> DEFINE T == {k \in 0..N : k \notin X}
           R == OpToRel(<, Nat)
<1> SUFFICES ASSUME T # {} PROVE FALSE
  OBVIOUS
<1>1. \A x, y \in Nat : x < y => <<x, y>> \in R
  BY DEF OpToRel
<1>2. T \subseteq Nat
  OBVIOUS
<1>3. PICK x \in T : \A y \in T : ~ (<<y, x>> \in R)
  <2> HIDE DEF T
  <2> QED
    BY WFMin, NatLessThanWellFounded, <1>2
<1> HIDE DEF R
<1>4. x # 0 /\ x - 1 \in 0..N-1
  OBVIOUS
<1>5. x - 1 \in T
  BY <1>4
<1>6. <<x - 1, x>> \in R
  BY <1>1, <1>4
<1> QED
  BY <1>3, <1>5, <1>6

(* A function is defined by its value at 0 and by a step.                  *)
Recursive(f, N, c, step) ==
  f[0] = c /\ \A n \in 1..N : f[n] = step[<<f[n - 1], n>>]

(* There is one: such a recursive definition has a value.                  *)
LEMMA RecursionExists ==
  ASSUME NEW N \in Nat, NEW S, NEW c \in S, NEW step \in [S \X (1..N) -> S]
  PROVE  \E f \in [0..N -> S] : Recursive(f, N, c, step)
<1> DEFINE X == {k \in 0..N : \E f \in [0..k -> S] : Recursive(f, k, c, step)}
<1>1. 0 \in X
  <2> DEFINE g == [n \in 0..0 |-> c]
  <2>1. g \in [0..0 -> S] /\ Recursive(g, 0, c, step)
    BY DEF Recursive
  <2> HIDE DEF g
  <2> QED
    BY <2>1
<1>2. ASSUME NEW k \in 0..N-1, k \in X
      PROVE  k + 1 \in X
  <2>1. PICK f \in [0..k -> S] : Recursive(f, k, c, step)
    BY <1>2
  <2> DEFINE g == [n \in 0..k+1 |-> IF n <= k THEN f[n] ELSE step[<<f[k], k + 1>>]]
  <2>2. g \in [0..k+1 -> S]
    OBVIOUS
  <2>3. ASSUME NEW n \in 1..k+1
        PROVE  g[n] = step[<<g[n - 1], n>>]
    <3>1. CASE n = k + 1
      BY <3>1
    <3>2. CASE n \in 1..k
      <4>1. g[n] = f[n] /\ g[n - 1] = f[n - 1]
        BY <3>2
      <4> QED
        BY <2>1, <3>2, <4>1 DEF Recursive
    <3> QED
      BY <3>1, <3>2
  <2>4. g[0] = c
    BY <2>1 DEF Recursive
  <2> HIDE DEF g
  <2>5. Recursive(g, k + 1, c, step)
    BY <2>3, <2>4 DEF Recursive
  <2> QED
    BY <2>2, <2>5
<1> HIDE DEF X
<1>3. N \in X
  BY <1>1, <1>2, Induction
<1> QED
  BY <1>3 DEF X

(* The two parts of a concatenation.                                       *)
LEMMA ConcatParts ==
  ASSUME NEW S, NEW s \in Seq(S), NEW t \in Seq(S)
  PROVE  /\ s \o t \in Seq(S)
         /\ Len(s) \in Nat /\ Len(t) \in Nat /\ Len(s \o t) = Len(s) + Len(t)
         /\ \A i \in 1..Len(s) : (s \o t)[i] = s[i]
         /\ \A i \in 1..Len(t) : (s \o t)[Len(s) + i] = t[i]
OBVIOUS

(* What Min of FiniteSetsExt is, for numbers.                              *)
LEMMA MinIsLeast ==
  ASSUME NEW S \in SUBSET Nat, S # {}
  PROVE  Min(S) \in S /\ \A y \in S : Min(S) <= y
<1> DEFINE R == OpToRel(<, Nat)
<1>1. PICK x \in S : \A y \in S : ~ (<<y, x>> \in R)
  BY WFMin, NatLessThanWellFounded
<1>2. \A y \in Nat : y < x => <<y, x>> \in R
  BY DEF OpToRel
<1> HIDE DEF R
<1>3. \A y \in S : x <= y
  <2>1. ASSUME NEW y \in S
        PROVE  x <= y
    <3>1. ~(y < x) /\ x \in Nat /\ y \in Nat
      BY <1>1, <1>2
    <3> QED
      BY <3>1
  <2> QED
    BY <2>1
<1> QED
  BY <1>3 DEF Min

(* Of one number.                                                          *)
LEMMA MinOfOne ==
  ASSUME NEW n \in Nat
  PROVE  Min({n}) = n
BY MinIsLeast

(* A prefix and the next element are the next prefix.                      *)
LEMMA NextPrefix ==
  ASSUME NEW S, NEW s \in Seq(S), NEW k \in 0..Len(s)-1
  PROVE  /\ SubSeq(s, 1, k) \in Seq(S) /\ Len(SubSeq(s, 1, k)) = k /\ s[k + 1] \in S
         /\ Append(SubSeq(s, 1, k), s[k + 1]) = SubSeq(s, 1, k + 1)
<1>1. /\ Len(s) \in Nat /\ k \in 0..Len(s) /\ k + 1 \in 1..Len(s) /\ 1 \in 1..Len(s)
      /\ (k + 1) - 1 = k
  OBVIOUS
<1>2. SubSeq(s, 1, k) \in Seq(S) /\ Len(SubSeq(s, 1, k)) = k
  BY <1>1, SubSeqProperties
<1>3. s[k + 1] \in S
  BY <1>1, ElementOfSeq
<1>4. SubSeq(s, 1, k + 1) = SubSeq(s, 1, k) \o <<s[k + 1]>>
  BY <1>1, SubSeqRecursiveSecond
<1>5. Append(SubSeq(s, 1, k), s[k + 1]) = SubSeq(s, 1, k) \o <<s[k + 1]>>
  BY <1>2, <1>3, AppendIsConcat
<1> QED
  BY <1>2, <1>3, <1>4, <1>5

(* A position in a concatenation is one in either part.                    *)
LEMMA Positions ==
  ASSUME NEW k \in Nat, NEW l \in Nat, NEW n \in 1..k+l
  PROVE  n \in 1..k \/ \E i \in 1..l : n = k + i
<1>1. CASE n > k
  <2>1. n - k \in 1..l /\ n = k + (n - k)
    BY <1>1
  <2> QED
    BY <2>1
<1>2. CASE n <= k
  BY <1>2
<1> QED
  BY <1>1, <1>2

-----------------------------------------------------------------------------
(* FlattenSeq, step by step.                                               *)
LEMMA Flattened ==
  ASSUME NEW S, NEW seqs \in Seq(Seq(S))
  PROVE  \E F \in [0..Len(seqs) -> Seq(S)] :
           /\ F[0] = <<>>
           /\ \A n \in 1..Len(seqs) : F[n] = F[n - 1] \o seqs[n]
           /\ FlattenSeq(seqs) = F[Len(seqs)]
<1> DEFINE N == Len(seqs)
           step == [p \in Seq(S) \X (1..N) |-> p[1] \o seqs[p[2]]]
           G == CHOOSE f : f = [i \in 1..N |-> IF i = 1 THEN seqs[i] ELSE f[i - 1] \o seqs[i]]
<1>1. N \in Nat /\ \A n \in 1..N : seqs[n] \in Seq(S)
  OBVIOUS
<1>2. step \in [Seq(S) \X (1..N) -> Seq(S)]
  BY <1>1, ConcatProperties
<1>3. <<>> \in Seq(S)
  OBVIOUS
<1>4. N # 0 => FlattenSeq(seqs) = G[N]
  BY DEF FlattenSeq
<1>5. N = 0 => FlattenSeq(seqs) = <<>>
  BY DEF FlattenSeq
<1> HIDE DEF N
<1>6. PICK F \in [0..N -> Seq(S)] : Recursive(F, N, <<>>, step)
  <2> HIDE DEF step
  <2> QED
    BY <1>1, <1>2, <1>3, RecursionExists
<1>7. F[0] = <<>> /\ \A n \in 1..N : F[n] = F[n - 1] \o seqs[n]
  <2>1. F[0] = <<>>
    BY <1>6 DEF Recursive
  <2>2. ASSUME NEW n \in 1..N
        PROVE  F[n] = F[n - 1] \o seqs[n]
    <3>1. n - 1 \in 0..N /\ F[n - 1] \in Seq(S)
      BY <1>1
    <3>2. F[n] = step[<<F[n - 1], n>>]
      BY <1>6 DEF Recursive
    <3> QED
      BY <3>1, <3>2
  <2> QED
    BY <2>1, <2>2
<1> HIDE DEF step
<1>8. N # 0 => F[1] = seqs[1]
  <2>1. N # 0 => 1 \in 1..N /\ 1 - 1 = 0
    BY <1>1
  <2>2. N # 0 => F[1] = <<>> \o seqs[1] /\ seqs[1] \in Seq(S)
    BY <1>1, <1>7, <2>1, Zenon
  <2> QED
    BY <2>2, ConcatEmptySeq
<1>9. N # 0 => G[N] = F[N]
  <2> DEFINE f == [i \in 1..N |-> F[i]]
  <2>1. ASSUME NEW i \in 1..N
        PROVE  f[i] = IF i = 1 THEN seqs[i] ELSE f[i - 1] \o seqs[i]
    <3>1. CASE i = 1
      BY <1>8, <3>1
    <3>2. CASE i # 1
      <4>1. i - 1 \in 1..N
        BY <1>1, <3>2
      <4> QED
        BY <1>7, <3>2, <4>1
    <3> QED
      BY <3>1, <3>2
  <2>2. f = [i \in 1..N |-> IF i = 1 THEN seqs[i] ELSE f[i - 1] \o seqs[i]]
    BY <2>1
  <2> HIDE DEF f
  <2>3. G = [i \in 1..N |-> IF i = 1 THEN seqs[i] ELSE G[i - 1] \o seqs[i]]
    BY <2>2
  <2> HIDE DEF G
  <2> DEFINE X == {k \in 0..N : k # 0 => G[k] = F[k]}
  <2>4. 0 \in X
    BY <1>1
  <2>5. ASSUME NEW k \in 0..N-1, k \in X
        PROVE  k + 1 \in X
    <3>1. k + 1 \in 1..N /\ (k + 1) - 1 = k /\ k + 1 # 0 /\ k + 1 \in 0..N
      BY <1>1
    <3>2. G[k + 1] = IF k + 1 = 1 THEN seqs[k + 1] ELSE G[k] \o seqs[k + 1]
      BY <2>3, <3>1, Zenon
    <3>3. F[k + 1] = F[k] \o seqs[k + 1]
      BY <1>7, <3>1, Zenon
    <3>4. CASE k = 0
      <4>1. k + 1 = 1 /\ N # 0
        BY <1>1, <3>4
      <4>2. G[k + 1] = F[k + 1]
        BY <1>8, <3>2, <4>1
      <4> QED
        BY <3>1, <4>2
    <3>5. CASE k # 0
      <4>1. G[k] = F[k]
        BY <2>5, <3>5
      <4>2. k + 1 # 1
        BY <1>1, <3>5
      <4>3. G[k + 1] = F[k + 1]
        BY <3>2, <3>3, <4>1, <4>2, Zenon
      <4> QED
        BY <3>1, <4>3
    <3> QED
      BY <3>4, <3>5
  <2> HIDE DEF X
  <2>6. \A k \in 0..N : k \in X
    BY <1>1, <2>4, <2>5, Induction
  <2>7. N \in X
    BY <1>1, <2>6
  <2> QED
    BY <2>7 DEF X
<1>10. FlattenSeq(seqs) = F[N]
  BY <1>4, <1>5, <1>7, <1>9
<1> QED
  BY <1>6, <1>7, <1>10 DEF N

(* The last one comes last.                                                *)
LEMMA FlattenLast ==
  ASSUME NEW S, NEW seqs \in Seq(Seq(S)), NEW x \in Seq(S)
  PROVE  /\ FlattenSeq(seqs) \in Seq(S)
         /\ FlattenSeq(Append(seqs, x)) = FlattenSeq(seqs) \o x
<1> DEFINE N == Len(seqs)
           more == Append(seqs, x)
<1>1. /\ N \in Nat /\ more \in Seq(Seq(S)) /\ Len(more) = N + 1 /\ more[N + 1] = x
      /\ \A n \in 1..N : more[n] = seqs[n]
  OBVIOUS
<1>2. PICK F \in [0..N -> Seq(S)] :
        /\ F[0] = <<>>
        /\ \A n \in 1..N : F[n] = F[n - 1] \o seqs[n]
        /\ FlattenSeq(seqs) = F[N]
  BY Flattened
<1> HIDE DEF N, more
<1>3. PICK G \in [0..Len(more) -> Seq(S)] :
        /\ G[0] = <<>>
        /\ \A n \in 1..Len(more) : G[n] = G[n - 1] \o more[n]
        /\ FlattenSeq(more) = G[Len(more)]
  BY <1>1, Flattened
<1>4. /\ \A n \in 1..N+1 : G[n] = G[n - 1] \o more[n]
      /\ FlattenSeq(more) = G[N + 1]
  BY <1>1, <1>3
<1> DEFINE X == {k \in 0..N : G[k] = F[k]}
<1>5. 0 \in X
  BY <1>1, <1>2, <1>3
<1>6. ASSUME NEW k \in 0..N-1, k \in X
      PROVE  k + 1 \in X
  <2>1. k + 1 \in 1..N /\ k + 1 \in 1..N+1 /\ (k + 1) - 1 = k /\ k + 1 \in 0..N
    BY <1>1
  <2>2. G[k + 1] = G[k] \o more[k + 1]
    BY <1>4, <2>1, Zenon
  <2>3. F[k + 1] = F[k] \o seqs[k + 1]
    BY <1>2, <2>1, Zenon
  <2>4. more[k + 1] = seqs[k + 1]
    BY <1>1, <2>1
  <2>5. G[k + 1] = F[k + 1]
    BY <1>6, <2>2, <2>3, <2>4
  <2> QED
    BY <2>1, <2>5
<1> HIDE DEF X
<1>7. N \in X
  <2>1. N \in 0..N
    BY <1>1
  <2> QED
    BY <1>1, <1>5, <1>6, <2>1, Induction
<1>8. G[N] = F[N]
  BY <1>7 DEF X
<1>9. G[N + 1] = G[N] \o x
  <2>1. N + 1 \in 1..N+1 /\ (N + 1) - 1 = N
    BY <1>1
  <2>2. G[N + 1] = G[N] \o more[N + 1]
    BY <1>4, <2>1, Zenon
  <2> QED
    BY <1>1, <2>2
<1>10. F[N] \in Seq(S)
  <2>1. N \in 0..N
    BY <1>1
  <2> QED
    BY <2>1
<1> QED
  BY <1>2, <1>4, <1>8, <1>9, <1>10 DEF more

(* The first k, put together.                                              *)
FlatTo(A, k) == FlattenSeq(SubSeq(A, 1, k))

LEMMA FlatPrefixes ==
  ASSUME NEW S, NEW A \in Seq(Seq(S))
  PROVE  /\ FlatTo(A, 0) = <<>> /\ FlatTo(A, Len(A)) = FlattenSeq(A)
         /\ \A k \in 0..Len(A) : FlatTo(A, k) \in Seq(S)
         /\ \A k \in 0..Len(A)-1 : A[k + 1] \in Seq(S) /\ FlatTo(A, k + 1) = FlatTo(A, k) \o A[k + 1]
<1> DEFINE N == Len(A)
<1>1. N \in Nat /\ SubSeq(A, 1, N) = A
  OBVIOUS
<1>2. SubSeq(A, 1, 0) = <<>>
  BY SubSeqEmpty
<1>3. FlattenSeq(<<>>) = <<>>
  BY DEF FlattenSeq
<1>4. FlatTo(A, 0) = <<>> /\ FlatTo(A, N) = FlattenSeq(A)
  BY <1>1, <1>2, <1>3 DEF FlatTo
<1>5. ASSUME NEW k \in 0..N
      PROVE  FlatTo(A, k) \in Seq(S)
  <2> DEFINE u == SubSeq(A, 1, k)
  <2>1. u \in Seq(Seq(S))
    <3>1. \A i \in 1..k : A[i] \in Seq(S)
      <4> TAKE i \in 1..k
      <4>1. i \in 1..Len(A)
        BY <1>1
      <4> QED
        BY <4>1, ElementOfSeq
    <3>2. k \in Int /\ 1 \in Int
      OBVIOUS
    <3> QED
      BY <3>1, <3>2, SubSeqProperties
  <2> HIDE DEF u
  <2>2. <<>> \in Seq(S)
    OBVIOUS
  <2>3. FlattenSeq(u) \in Seq(S)
    BY <2>1, <2>2, FlattenLast
  <2> QED
    BY <2>3 DEF FlatTo, u
<1>6. ASSUME NEW k \in 0..N-1
      PROVE  A[k + 1] \in Seq(S) /\ FlatTo(A, k + 1) = FlatTo(A, k) \o A[k + 1]
  <2> DEFINE u == SubSeq(A, 1, k)
             x == A[k + 1]
  <2>1. u \in Seq(Seq(S)) /\ x \in Seq(S) /\ Append(u, x) = SubSeq(A, 1, k + 1)
    BY NextPrefix
  <2> HIDE DEF u, x
  <2>2. FlattenSeq(Append(u, x)) = FlattenSeq(u) \o x
    BY <2>1, FlattenLast
  <2> QED
    BY <2>1, <2>2 DEF FlatTo, u, x
<1> QED
  BY <1>4, <1>5, <1>6

(* The first k come before the next ones.                                  *)
LEMMA FlatTails ==
  ASSUME NEW S, NEW A \in Seq(Seq(S)), NEW k \in 0..Len(A), NEW j \in 0..Len(A), k <= j
  PROVE  \E t \in Seq(S) : FlatTo(A, j) = FlatTo(A, k) \o t
<1> DEFINE N == Len(A)
           X == {n \in 0..N-k : \E t \in Seq(S) : FlatTo(A, k + n) = FlatTo(A, k) \o t}
<1>1. N \in Nat /\ k \in 0..N /\ j \in 0..N /\ N - k \in Nat
  OBVIOUS
<1>2. /\ \A n \in 0..N : FlatTo(A, n) \in Seq(S)
      /\ \A n \in 0..N-1 : A[n + 1] \in Seq(S) /\ FlatTo(A, n + 1) = FlatTo(A, n) \o A[n + 1]
  BY FlatPrefixes
<1> HIDE DEF N
<1>3. 0 \in X
  <2>1. FlatTo(A, k) = FlatTo(A, k) \o <<>> /\ <<>> \in Seq(S)
    <3>1. FlatTo(A, k) \in Seq(S)
      BY <1>1, <1>2
    <3> QED
      BY <3>1, ConcatEmptySeq
  <2>2. k + 0 = k /\ 0 \in 0..N-k
    BY <1>1
  <2> QED
    BY <2>1, <2>2
<1>4. ASSUME NEW n \in 0..(N-k)-1, n \in X
      PROVE  n + 1 \in X
  <2>1. PICK t \in Seq(S) : FlatTo(A, k + n) = FlatTo(A, k) \o t
    BY <1>4
  <2>2. k + n \in 0..N-1 /\ (k + n) + 1 = k + (n + 1) /\ n + 1 \in 0..N-k
    BY <1>1
  <2> DEFINE u == FlatTo(A, k)
             x == A[(k + n) + 1]
  <2>3. u \in Seq(S) /\ x \in Seq(S) /\ FlatTo(A, (k + n) + 1) = FlatTo(A, k + n) \o x
    BY <1>1, <1>2, <2>2
  <2> HIDE DEF u, x
  <2>4. FlatTo(A, (k + n) + 1) = (u \o t) \o x
    BY <2>1, <2>3 DEF u
  <2>5. (u \o t) \o x = u \o (t \o x) /\ t \o x \in Seq(S)
    <3>1. (u \o t) \o x = u \o (t \o x)
      <4>1. u \in Seq(S) /\ t \in Seq(S) /\ x \in Seq(S)
        BY <2>3
      <4> HIDE DEF X
      <4> QED
        BY <4>1, ConcatAssociative
    <3>2. t \o x \in Seq(S)
      BY <2>3, ConcatProperties
    <3> QED
      BY <3>1, <3>2
  <2>6. FlatTo(A, k + (n + 1)) = u \o (t \o x)
    BY <2>2, <2>4, <2>5
  <2> QED
    BY <2>2, <2>5, <2>6 DEF u
<1>5. j - k \in X
  <2> HIDE DEF X
  <2>1. \A n \in 0..N-k : n \in X
    BY <1>1, <1>3, <1>4, Induction
  <2>2. j - k \in 0..N-k
    BY <1>1
  <2> QED
    BY <2>1, <2>2
<1>6. k + (j - k) = j
  BY <1>1
<1> QED
  BY <1>5, <1>6

(* What is put together from parts has each part at its place.             *)
Sums(F, A, N) == \A n \in 1..N : F[n] = F[n - 1] \o A[n]

HasParts(F, A, N) ==
  \A n \in 1..N :
    /\ Len(F[n - 1]) \in Nat /\ Len(F[n]) = Len(F[n - 1]) + Len(A[n])
    /\ Len(F[n]) <= Len(F[N])
    /\ \A i \in 1..Len(A[n]) : F[N][Len(F[n - 1]) + i] = A[n][i]

LEMMA PartsOfSum ==
  ASSUME NEW S, NEW N \in Nat, NEW A \in [1..N -> Seq(S)], NEW F \in [0..N -> Seq(S)],
         Sums(F, A, N)
  PROVE  HasParts(F, A, N)
<1> DEFINE Has(s, n) == /\ Len(F[n]) <= Len(s)
                        /\ \A i \in 1..Len(A[n]) : s[Len(F[n - 1]) + i] = A[n][i]
           X == {k \in 0..N : \A n \in 1..k : Has(F[k], n)}
<1>1. \A n \in 1..N : F[n] = F[n - 1] \o A[n]
  BY DEF Sums
<1>2. ASSUME NEW n \in 1..N
      PROVE  /\ F[n - 1] \in Seq(S) /\ A[n] \in Seq(S) /\ F[n] \in Seq(S)
             /\ Len(F[n - 1]) \in Nat /\ Len(A[n]) \in Nat
             /\ Len(F[n]) = Len(F[n - 1]) + Len(A[n])
             /\ \A i \in 1..Len(F[n - 1]) : F[n][i] = F[n - 1][i]
             /\ \A i \in 1..Len(A[n]) : F[n][Len(F[n - 1]) + i] = A[n][i]
  <2>1. n - 1 \in 0..N /\ n \in 0..N
    OBVIOUS
  <2>2. F[n - 1] \in Seq(S) /\ A[n] \in Seq(S) /\ F[n] \in Seq(S)
    BY <2>1
  <2>3. F[n] = F[n - 1] \o A[n]
    BY <1>1
  <2> QED
    BY <2>2, <2>3, ConcatParts
<1>3. 0 \in X
  OBVIOUS
<1>4. ASSUME NEW k \in 0..N-1, k \in X
      PROVE  k + 1 \in X
  <2>1. k + 1 \in 1..N /\ k + 1 \in 0..N /\ (k + 1) - 1 = k
    OBVIOUS
  <2>2. /\ Len(F[k]) \in Nat /\ Len(A[k + 1]) \in Nat /\ Len(F[k + 1]) \in Nat
        /\ Len(F[k + 1]) = Len(F[k]) + Len(A[k + 1])
        /\ \A i \in 1..Len(F[k]) : F[k + 1][i] = F[k][i]
        /\ \A i \in 1..Len(A[k + 1]) : F[k + 1][Len(F[k]) + i] = A[k + 1][i]
    <3>1. F[k + 1] = F[k] \o A[k + 1]
      BY <1>1, <2>1, Zenon
    <3> DEFINE s == F[k]
               t == A[k + 1]
    <3>2. s \in Seq(S) /\ t \in Seq(S)
      BY <2>1
    <3> HIDE DEF s, t
    <3>3. /\ s \o t \in Seq(S)
          /\ Len(s) \in Nat /\ Len(t) \in Nat /\ Len(s \o t) = Len(s) + Len(t)
          /\ \A i \in 1..Len(s) : (s \o t)[i] = s[i]
          /\ \A i \in 1..Len(t) : (s \o t)[Len(s) + i] = t[i]
      BY <3>2, ConcatParts
    <3>4. Len(s \o t) \in Nat
      BY <3>3
    <3> QED
      BY <3>1, <3>3, <3>4 DEF s, t
  <2>3. ASSUME NEW n \in 1..k+1
        PROVE  Has(F[k + 1], n)
    <3>1. CASE n = k + 1
      <4>1. Len(F[k + 1]) <= Len(F[k + 1])
        BY <2>2
      <4> QED
        BY <2>1, <2>2, <3>1, <4>1, Zenon
    <3>2. CASE n # k + 1
      <4>1. n \in 1..k /\ n \in 1..N
        BY <3>2
      <4>2. Has(F[k], n)
        BY <1>4, <4>1
      <4>3. /\ Len(F[n - 1]) \in Nat /\ Len(A[n]) \in Nat /\ Len(F[n]) \in Nat
            /\ Len(F[n]) = Len(F[n - 1]) + Len(A[n])
        <5> DEFINE l == Len(F[n - 1])
                   a == Len(A[n])
        <5>1. l \in Nat /\ a \in Nat /\ Len(F[n]) = l + a
          BY <1>2, <4>1, Zenon
        <5> HIDE DEF l, a
        <5>2. Len(F[n]) \in Nat
          BY <5>1
        <5> QED
          BY <5>1, <5>2 DEF l, a
      <4>4. Len(F[n]) <= Len(F[k])
        BY <4>2
      <4>5. \A i \in 1..Len(A[n]) : Len(F[n - 1]) + i \in 1..Len(F[k])
        <5> DEFINE l == Len(F[n - 1])
                   a == Len(A[n])
                   u == Len(F[n])
                   v == Len(F[k])
        <5>1. l \in Nat /\ a \in Nat /\ u = l + a /\ u <= v /\ v \in Nat
          BY <2>2, <4>3, <4>4
        <5> HIDE DEF l, a, u, v
        <5>2. \A i \in 1..a : l + i \in 1..v
          BY <5>1
        <5> QED
          BY <5>2 DEF l, a, v
      <4>6. Len(F[n]) <= Len(F[k + 1])
        <5> DEFINE u == Len(F[n])
                   v == Len(F[k])
                   w == Len(F[k + 1])
                   x == Len(A[k + 1])
        <5>1. u \in Nat /\ v \in Nat /\ x \in Nat /\ w = v + x /\ u <= v
          BY <2>2, <4>3, <4>4
        <5> HIDE DEF u, v, w, x
        <5>2. u <= w
          BY <5>1
        <5> QED
          BY <5>2 DEF u, w
      <4>7. ASSUME NEW i \in 1..Len(A[n])
            PROVE  F[k + 1][Len(F[n - 1]) + i] = A[n][i]
        <5>1. F[k][Len(F[n - 1]) + i] = A[n][i]
          BY <4>2
        <5>2. F[k + 1][Len(F[n - 1]) + i] = F[k][Len(F[n - 1]) + i]
          BY <2>2, <4>5, Zenon
        <5> QED
          BY <5>1, <5>2
      <4> QED
        BY <4>6, <4>7
    <3> QED
      BY <3>1, <3>2
  <2> HIDE DEF Has
  <2> QED
    BY <2>1, <2>3
<1> HIDE DEF X
<1>5. N \in X
  <2>1. N \in 0..N
    OBVIOUS
  <2> QED
    BY <1>3, <1>4, <2>1, Induction
<1>6. \A n \in 1..N : Has(F[N], n)
  BY <1>5 DEF X
<1> QED
  BY <1>2, <1>6 DEF HasParts
=============================================================================
