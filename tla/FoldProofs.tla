------------------------------ MODULE FoldProofs ------------------------------
(***************************************************************************)
(* What a fold over a sequence returns, for a step given as a function: a  *)
(* loop over n elements ends in a value that is right after n of them; and *)
(* where each part of a flattened sequence is.                             *)
(***************************************************************************)
EXTENDS SequencesExt, WellFoundedInduction, TLAPS

\* The equation that FoldLeft gives to its recursive function, for the indices
\* 1..n: the last element of a set is folded after the others.
IsFold(f, n, base, step) ==
    f = [s \in SUBSET (1..n) |->
            IF s = {} THEN base ELSE step[<<Max(s), f[s \ {Max(s)}]>>]]

-----------------------------------------------------------------------------

\* The least-number principle.
LEMMA LeastExists ==
    ASSUME NEW S \in SUBSET Nat, NEW n \in S
    PROVE  \E k \in S : \A j \in S : k <= j
<1>1. \E k \in S : \A j \in S : ~(<<j, k>> \in OpToRel(<, Nat))
  BY WFMin, NatLessThanWellFounded, Zenon
<1>2. PICK k \in S : \A j \in S : ~(<<j, k>> \in OpToRel(<, Nat))
  BY <1>1, Zenon
<1>3. ASSUME NEW j \in S, j < k PROVE FALSE
  <2>1. <<j, k>> \in OpToRel(<, Nat)
    BY <1>3, Zenon DEF OpToRel
  <2>2. QED
    BY <1>2, <2>1, Zenon
<1>4. QED
  BY <1>3

\* Indices are bounded, so a nonempty set of them has a last one.
LEMMA LastIndex ==
    ASSUME NEW n \in Nat, NEW s \in SUBSET (1..n), s # {}
    PROVE  /\ Max(s) \in s
           /\ \A y \in s : Max(s) >= y
<1> DEFINE T == {d \in 0..n : (n - d) \in s}
<1>1. PICK x \in s : TRUE
  OBVIOUS
<1>2. n - x \in T
  <2>1. n - (n - x) = x /\ n - x \in 0..n
    OBVIOUS
  <2>2. QED
    BY <2>1
<1>3. PICK d \in T : \A e \in T : d <= e
  <2>1. T \in SUBSET Nat
    OBVIOUS
  <2> HIDE DEF T
  <2>2. QED
    BY <1>2, <2>1, LeastExists
<1>4. n - d \in s
  BY <1>3
<1>5. ASSUME NEW y \in s PROVE n - d >= y
  <2>1. n - y \in T
    <3>1. n - (n - y) = y /\ n - y \in 0..n
      OBVIOUS
    <3>2. QED
      BY <3>1
  <2>2. d <= n - y
    BY <1>3, <2>1
  <2>3. d \in 0..n /\ y \in 1..n
    BY <1>3
  <2>4. QED
    BY <2>2, <2>3
<1>6. \E m \in s : \A y \in s : m >= y
  BY <1>4, <1>5
<1>7. QED
  BY <1>6 DEF Max

LEMMA LastOfAll ==
    ASSUME NEW n \in Nat
    PROVE  Max(1..(n + 1)) = n + 1 /\ (1..(n + 1)) \ {n + 1} = 1..n
<1>1. n + 1 \in 1..(n + 1) /\ 1..(n + 1) \in SUBSET (1..(n + 1)) /\ n + 1 \in Nat
  OBVIOUS
<1>2. Max(1..(n + 1)) \in 1..(n + 1) /\ \A y \in 1..(n + 1) : Max(1..(n + 1)) >= y
  BY <1>1, LastIndex
<1>3. Max(1..(n + 1)) >= n + 1
  BY <1>1, <1>2
<1>4. QED
  BY <1>2, <1>3

\* There is a function that satisfies the equation, stage by stage.
LEMMA FoldExists ==
    ASSUME NEW n \in Nat, NEW A, NEW base \in A, NEW step \in [(1..n) \X A -> A]
    PROVE  \E f \in [SUBSET (1..n) -> A] : IsFold(f, n, base, step)
<1> DEFINE Some(k) == \E f \in [SUBSET (1..k) -> A] : IsFold(f, k, base, step)
<1> DEFINE Missing == {k \in 0..n : ~Some(k)}
<1>1. Some(0)
  <2> DEFINE f == [s \in SUBSET (1..0) |-> base]
  <2>1. \A s \in SUBSET (1..0) : s = {}
    OBVIOUS
  <2>2. f \in [SUBSET (1..0) -> A]
    OBVIOUS
  <2>3. IsFold(f, 0, base, step)
    BY <2>1 DEF IsFold
  <2>4. QED
    BY <2>2, <2>3
<1>2. ASSUME NEW k \in 0..n, k # n, Some(k) PROVE Some(k + 1)
  <2>1. PICK f \in [SUBSET (1..k) -> A] : IsFold(f, k, base, step)
    BY <1>2
  <2> DEFINE With(s) == step[<<k + 1, f[s \ {k + 1}]>>]
  <2> DEFINE g == [s \in SUBSET (1..(k + 1)) |-> IF k + 1 \in s THEN With(s) ELSE f[s]]
  <2>2. k \in Nat /\ k + 1 \in Nat /\ k + 1 \in 1..n
    BY <1>2
  <2>3. ASSUME NEW s \in SUBSET (1..(k + 1)), k + 1 \notin s PROVE s \in SUBSET (1..k)
    BY <2>2, <2>3
  <2>4. ASSUME NEW s \in SUBSET (1..(k + 1)) PROVE s \ {k + 1} \in SUBSET (1..k)
    BY <2>2
  <2>5. ASSUME NEW s \in SUBSET (1..(k + 1)) PROVE g[s] \in A
    <3>1. CASE k + 1 \in s
      <4>1. f[s \ {k + 1}] \in A
        BY <2>1, <2>4
      <4>2. <<k + 1, f[s \ {k + 1}]>> \in (1..n) \X A
        BY <2>2, <4>1
      <4>3. QED
        BY <3>1, <4>2
    <3>2. CASE k + 1 \notin s
      BY <2>1, <2>3, <3>2
    <3>3. QED
      BY <3>1, <3>2
  <2>6. ASSUME NEW s \in SUBSET (1..(k + 1))
        PROVE  g[s] = IF s = {} THEN base ELSE step[<<Max(s), g[s \ {Max(s)}]>>]
    <3>1. CASE k + 1 \in s
      <4>1. Max(s) = k + 1
        <5>1. Max(s) \in s /\ Max(s) >= k + 1
          BY <2>2, <3>1, LastIndex
        <5>2. Max(s) \in 1..(k + 1)
          BY <5>1
        <5> DEFINE m == Max(s)
        <5> HIDE DEF m
        <5>3. m \in 1..(k + 1) /\ m >= k + 1
          BY <5>1, <5>2 DEF m
        <5>4. m = k + 1
          BY <2>2, <5>3
        <5>5. QED
          BY <5>4 DEF m
      <4>2. g[s \ {k + 1}] = f[s \ {k + 1}]
        <5>1. s \ {k + 1} \in SUBSET (1..(k + 1)) /\ k + 1 \notin s \ {k + 1}
          OBVIOUS
        <5>2. QED
          BY <5>1
      <4>3. s # {} /\ g[s] = With(s)
        BY <3>1
      <4> HIDE DEF g
      <4>4. QED
        BY <4>1, <4>2, <4>3
    <3>2. CASE k + 1 \notin s
      <4>1. s \in SUBSET (1..k) /\ g[s] = f[s]
        BY <2>3, <3>2
      <4>2. f[s] = IF s = {} THEN base ELSE step[<<Max(s), f[s \ {Max(s)}]>>]
        <5>1. \A t \in SUBSET (1..k) : f[t] = IF t = {} THEN base ELSE step[<<Max(t), f[t \ {Max(t)}]>>]
          BY <2>1 DEF IsFold
        <5>2. QED
          BY <4>1, <5>1
      <4>3. g[s \ {Max(s)}] = f[s \ {Max(s)}]
        <5>1. s \ {Max(s)} \in SUBSET (1..(k + 1)) /\ k + 1 \notin s \ {Max(s)}
          BY <3>2
        <5>2. QED
          BY <5>1
      <4> HIDE DEF g
      <4>4. QED
        BY <4>1, <4>2, <4>3
    <3>3. QED
      BY <3>1, <3>2
  <2>7. g \in [SUBSET (1..(k + 1)) -> A]
    BY <2>5
  <2>8. g = [s \in SUBSET (1..(k + 1)) |->
               IF s = {} THEN base ELSE step[<<Max(s), g[s \ {Max(s)}]>>]]
    <3>1. g = [s \in SUBSET (1..(k + 1)) |-> g[s]]
      OBVIOUS
    <3> HIDE DEF g
    <3>2. QED
      BY <2>6, <3>1
  <2> HIDE DEF g
  <2>9. QED
    BY <2>7, <2>8 DEF IsFold
<1>3. Missing = {}
  <2> SUFFICES ASSUME Missing # {} PROVE FALSE
    OBVIOUS
  <2>1. Missing \in SUBSET Nat
    OBVIOUS
  <2>2. PICK k \in Missing : \A j \in Missing : k <= j
    <3>1. PICK m \in Missing : TRUE
      OBVIOUS
    <3> HIDE DEF Missing
    <3>2. QED
      BY <2>1, <3>1, LeastExists
  <2> HIDE DEF Some
  <2>3. k # 0 /\ k \in 0..n
    BY <1>1
  <2>4. Some(k - 1)
    <3>1. k - 1 \in 0..n /\ ~(k <= k - 1)
      BY <2>3
    <3>2. QED
      BY <2>2, <3>1
  <2>5. Some((k - 1) + 1)
    BY <1>2, <2>3, <2>4
  <2>6. (k - 1) + 1 = k
    BY <2>3
  <2>7. Some(k)
    BY <2>5, <2>6
  <2>8. QED
    BY <2>7
<1>4. Some(n)
  <2> HIDE DEF Some
  <2>1. n \in 0..n
    OBVIOUS
  <2>2. \A k \in 0..n : Some(k)
    BY <1>3
  <2>3. QED
    BY <2>1, <2>2
<1>5. QED
  BY <1>4

-----------------------------------------------------------------------------

\* The equation along the indices in their order: the loop in its usual form.
LEMMA FoldUnrolled ==
    ASSUME NEW n \in Nat, NEW base, NEW step, NEW f, IsFold(f, n, base, step)
    PROVE  /\ f[1..0] = base
           /\ \A k \in 0..(n - 1) : f[1..(k + 1)] = step[<<k + 1, f[1..k]>>]
<1>1. f[1..0] = base
  <2>1. 1..0 = {} /\ 1..0 \in SUBSET (1..n)
    OBVIOUS
  <2>2. QED
    BY <2>1 DEF IsFold
<1>2. ASSUME NEW k \in 0..(n - 1) PROVE f[1..(k + 1)] = step[<<k + 1, f[1..k]>>]
  <2>1. 1..(k + 1) \in SUBSET (1..n) /\ 1..(k + 1) # {} /\ k \in Nat
    <3>1. k \in Nat /\ k + 1 <= n /\ 1 \in 1..(k + 1)
      OBVIOUS
    <3>2. \A x \in 1..(k + 1) : x \in 1..n
      BY <3>1
    <3>3. QED
      BY <3>1, <3>2
  <2>2. f[1..(k + 1)] =
            step[<<Max(1..(k + 1)), f[(1..(k + 1)) \ {Max(1..(k + 1))}]>>]
    BY <2>1 DEF IsFold
  <2>3. QED
    BY <2>1, <2>2, LastOfAll
<1>3. QED
  BY <1>1, <1>2

\* What is right before the first element, and stays right from each element to
\* the next, is right at the end of the loop.
LEMMA LoopKeeps ==
    ASSUME NEW n \in Nat, NEW f, NEW Right,
           f[1..0] \in Right[0],
           \A k \in 0..(n - 1) : f[1..k] \in Right[k] => f[1..(k + 1)] \in Right[k + 1]
    PROVE  f[1..n] \in Right[n]
<1> DEFINE Wrong == {k \in 0..n : f[1..k] \notin Right[k]}
<1>1. Wrong = {}
  <2> SUFFICES ASSUME Wrong # {} PROVE FALSE
    OBVIOUS
  <2>1. Wrong \in SUBSET Nat
    OBVIOUS
  <2>2. PICK k \in Wrong : \A j \in Wrong : k <= j
    <3>1. PICK m \in Wrong : TRUE
      OBVIOUS
    <3> HIDE DEF Wrong
    <3>2. QED
      BY <2>1, <3>1, LeastExists
  <2>3. k # 0 /\ k \in 0..n
    OBVIOUS
  <2>4. f[1..(k - 1)] \in Right[k - 1]
    <3>1. k - 1 \in 0..n /\ ~(k <= k - 1)
      BY <2>3
    <3>2. QED
      BY <2>2, <3>1
  <2>5. k - 1 \in 0..(n - 1) /\ (k - 1) + 1 = k
    BY <2>3
  <2>6. f[1..k] \in Right[k]
    BY <2>4, <2>5
  <2>7. QED
    BY <2>6
<1>2. QED
  BY <1>1

-----------------------------------------------------------------------------

\* Counting up: what holds of 0, and of k + 1 if it does of k, holds up to n.
LEMMA UpTo ==
    ASSUME NEW n \in Nat, NEW Good, 0 \in Good,
           \A k \in 0..(n - 1) : k \in Good => k + 1 \in Good
    PROVE  \A k \in 0..n : k \in Good
<1> DEFINE Bad == {k \in 0..n : k \notin Good}
<1> SUFFICES ASSUME Bad # {} PROVE FALSE
  OBVIOUS
<1>1. PICK k \in Bad : \A j \in Bad : k <= j
  <2>1. PICK m \in Bad : TRUE
    OBVIOUS
  <2>2. Bad \in SUBSET Nat
    OBVIOUS
  <2> HIDE DEF Bad
  <2>3. QED
    BY <2>1, <2>2, LeastExists
<1>2. k \in 0..n /\ k # 0
  OBVIOUS
<1>3. k - 1 \in 0..(n - 1) /\ k - 1 \in 0..n /\ (k - 1) + 1 = k /\ ~(k <= k - 1)
  BY <1>2
<1>4. k - 1 \in Good
  BY <1>1, <1>3
<1>5. QED
  BY <1>3, <1>4

\* The values of a loop along the way.
IsLoop(a, n, base, step) ==
    a[0] = base /\ \A k \in 0..(n - 1) : a[k + 1] = step[<<k + 1, a[k]>>]

LEMMA LoopExists ==
    ASSUME NEW n \in Nat, NEW A, NEW base \in A, NEW step \in [(1..n) \X A -> A]
    PROVE  \E a \in [0..n -> A] : IsLoop(a, n, base, step)
<1>1. PICK f \in [SUBSET (1..n) -> A] : IsFold(f, n, base, step)
  BY FoldExists
<1> DEFINE a == [k \in 0..n |-> f[1..k]]
<1>2. f[1..0] = base /\ \A k \in 0..(n - 1) : f[1..(k + 1)] = step[<<k + 1, f[1..k]>>]
  BY <1>1, FoldUnrolled
<1>3. ASSUME NEW k \in 0..n PROVE 1..k \in SUBSET (1..n)
  OBVIOUS
<1>4. a \in [0..n -> A]
  BY <1>1, <1>3
<1>5. a[0] = base
  BY <1>2
<1>6. ASSUME NEW k \in 0..(n - 1) PROVE a[k + 1] = step[<<k + 1, a[k]>>]
  <2>1. k \in 0..n /\ k + 1 \in 0..n
    OBVIOUS
  <2>2. QED
    BY <1>2, <2>1
<1> HIDE DEF a
<1>7. QED
  BY <1>4, <1>5, <1>6 DEF IsLoop

\* What the recursive function that FlattenSeq chooses returns: each sequence
\* is put behind those before it.
LEMMA Chosen ==
    ASSUME NEW n \in Nat \ {0}, NEW seqs, NEW p, Len(seqs) = n,
           \A k \in 1..n : p[k] = IF k = 1 THEN seqs[k] ELSE p[k - 1] \o seqs[k]
    PROVE  FlattenSeq(seqs) = p[n]
<1> DEFINE Eq(g) == g = [i \in 1..n |-> IF i = 1 THEN seqs[i] ELSE g[i - 1] \o seqs[i]]
           g == CHOOSE g : Eq(g)
           q == [i \in 1..n |-> p[i]]
<1>1. Eq(q)
  <2>1. \A i \in 1..n : i # 1 => i - 1 \in 1..n
    OBVIOUS
  <2>2. QED
    BY <2>1
<1>2. Eq(g)
  <2> HIDE DEF q
  <2>1. QED
    BY <1>1
<1> DEFINE Same == {k \in 0..n : k # 0 => g[k] = p[k]}
<1> HIDE DEF g
<1>3. ASSUME NEW k \in 0..(n - 1), k \in Same PROVE k + 1 \in Same
  <2>1. k + 1 \in 1..n /\ (k + 1) - 1 = k /\ k + 1 \in 0..n
    OBVIOUS
  <2>2. g[k + 1] = IF k + 1 = 1 THEN seqs[k + 1] ELSE g[k] \o seqs[k + 1]
    BY <1>2, <2>1
  <2>3. p[k + 1] = IF k + 1 = 1 THEN seqs[k + 1] ELSE p[k] \o seqs[k + 1]
    BY <2>1
  <2>4. k + 1 # 1 => g[k] = p[k]
    BY <1>3
  <2>5. g[k + 1] = p[k + 1]
    BY <2>2, <2>3, <2>4
  <2>6. QED
    BY <2>1, <2>5
<1>4. n \in Same
  <2>1. 0 \in Same /\ n \in 0..n
    OBVIOUS
  <2> HIDE DEF Same
  <2>2. QED
    BY <1>3, <2>1, UpTo
<1>5. FlattenSeq(seqs) = g[n]
  BY DEF FlattenSeq, g
<1>6. QED
  BY <1>4, <1>5

\* p[k] is the first k sequences, joined.
Joins(p, n, seqs) ==
    p[0] = <<>> /\ \A k \in 0..(n - 1) : p[k + 1] = p[k] \o seqs[k + 1]

LEMMA Flattened ==
    ASSUME NEW A, NEW seqs
    PROVE  seqs \in Seq(Seq(A)) =>
              \E p \in [0..Len(seqs) -> Seq(A)] :
                 Joins(p, Len(seqs), seqs) /\ FlattenSeq(seqs) = p[Len(seqs)]
<1>1. SUFFICES ASSUME seqs \in Seq(Seq(A))
               PROVE  \E p \in [0..Len(seqs) -> Seq(A)] :
                         Joins(p, Len(seqs), seqs) /\ FlattenSeq(seqs) = p[Len(seqs)]
  OBVIOUS
<1> DEFINE n == Len(seqs)
           S == Seq(A)
           empty == <<>>
           join == [x \in (1..n) \X S |-> x[2] \o seqs[x[1]]]
<1>0. n \in Nat /\ empty \in S
  BY <1>1
<1>2. \A i \in 1..n : seqs[i] \in S
  BY <1>1
<1>3. join \in [(1..n) \X S -> S]
  BY <1>0, <1>2
<1>4. PICK p \in [0..n -> S] :
          p[0] = empty /\ \A k \in 0..(n - 1) : p[k + 1] = join[<<k + 1, p[k]>>]
  <2> HIDE DEF join, n, empty, S
  <2>1. PICK p \in [0..n -> S] : IsLoop(p, n, empty, join)
    BY <1>0, <1>3, LoopExists
  <2>2. QED
    BY <2>1 DEF IsLoop
<1>5. ASSUME NEW k \in 0..(n - 1) PROVE p[k + 1] = p[k] \o seqs[k + 1]
  <2>1. k + 1 \in 1..n /\ p[k] \in S
    <3> HIDE DEF S, n
    <3>1. QED
      BY <1>0, <1>2, <1>4
  <2>2. p[k + 1] = join[<<k + 1, p[k]>>]
    BY <1>4
  <2>3. join[<<k + 1, p[k]>>] = p[k] \o seqs[k + 1]
    <3> HIDE DEF S, n
    <3>1. QED
      BY <2>1
  <2>4. QED
    BY <2>2, <2>3
<1>6. ASSUME NEW k \in 1..n
      PROVE  p[k] = IF k = 1 THEN seqs[k] ELSE p[k - 1] \o seqs[k]
  <2>1. k - 1 \in 0..(n - 1) /\ (k - 1) + 1 = k
    <3> HIDE DEF n
    <3>1. QED
      BY <1>0
  <2>2. p[k] = p[k - 1] \o seqs[k]
    <3> HIDE DEF n, S, empty, join
    <3>1. QED
      BY <1>5, <2>1
  <2>3. CASE k = 1
    <3>1. p[0] = <<>> /\ seqs[1] \in Seq(A)
      BY <1>0, <1>2, <1>4, <2>3
    <3>2. <<>> \o seqs[1] = seqs[1]
      BY <3>1
    <3>3. k - 1 = 0
      BY <2>3
    <3>4. p[k - 1] = <<>>
      BY <3>1, <3>3
    <3>5. QED
      BY <2>2, <2>3, <3>2, <3>4
  <2>4. QED
    BY <2>2, <2>3
<1>7. FlattenSeq(seqs) = p[n]
  <2>1. CASE n = 0
    <3>1. seqs = <<>> /\ FlattenSeq(seqs) = seqs
      BY <1>1, <2>1 DEF FlattenSeq
    <3>2. QED
      BY <1>4, <2>1, <3>1
  <2>2. CASE n # 0
    <3>1. n \in Nat \ {0} /\ Len(seqs) = n
      BY <1>0, <2>2
    <3> HIDE DEF n, S, empty, join
    <3>2. QED
      BY <1>6, <3>1, Chosen
  <2>3. QED
    BY <2>1, <2>2
<1>8. Joins(p, n, seqs)
  BY <1>4, <1>5 DEF Joins
<1> HIDE DEF join
<1>9. QED
  BY <1>4, <1>7, <1>8

LEMMA Concatenated ==
    ASSUME NEW A, NEW a \in Seq(A), NEW b \in Seq(A)
    PROVE  /\ a \o b \in Seq(A)
           /\ Len(a) \in Nat /\ Len(b) \in Nat /\ Len(a \o b) = Len(a) + Len(b)
           /\ \A i \in 1..Len(a) : (a \o b)[i] = a[i]
           /\ \A m \in 1..Len(b) : (a \o b)[Len(a) + m] = b[m]
<1>1. Len(a) \in Nat /\ Len(b) \in Nat /\ Len(a \o b) = Len(a) + Len(b) /\ a \o b \in Seq(A)
  OBVIOUS
<1>2. ASSUME NEW i \in 1..Len(a) PROVE (a \o b)[i] = a[i]
  OBVIOUS
<1>3. ASSUME NEW m \in 1..Len(b) PROVE (a \o b)[Len(a) + m] = b[m]
  <2>1. Len(a) + m \in 1..(Len(a) + Len(b)) /\ ~(Len(a) + m <= Len(a)) /\ (Len(a) + m) - Len(a) = m
    BY <1>1
  <2>2. QED
    BY <1>1, <2>1
<1>4. QED
  BY <1>1, <1>2, <1>3

\* The sequence behind the first k of them, and where it is in the whole.
IsNext(p, seqs, whole, k) ==
    /\ p[k + 1] = p[k] \o seqs[k + 1]
    /\ Len(p[k + 1]) = Len(p[k]) + Len(seqs[k + 1])
    /\ Len(p[k + 1]) <= Len(whole)
    /\ \A m \in 1..Len(seqs[k + 1]) : whole[Len(p[k]) + m] = seqs[k + 1][m]

LEMMA Placed ==
    ASSUME NEW A, NEW n \in Nat, NEW seqs, NEW p \in [0..n -> Seq(A)], Joins(p, n, seqs),
           \A k \in 1..n : seqs[k] \in Seq(A),
           NEW k \in 0..(n - 1)
    PROVE  IsNext(p, seqs, p[n], k)
<1>1. k \in 0..n /\ k + 1 \in 1..n /\ k + 1 \in 0..n /\ n \in 0..n
  OBVIOUS
<1>2. p[k] \in Seq(A) /\ seqs[k + 1] \in Seq(A) /\ p[k + 1] = p[k] \o seqs[k + 1]
  BY <1>1 DEF Joins
<1>3. /\ Len(p[k + 1]) = Len(p[k]) + Len(seqs[k + 1])
      /\ Len(p[k]) \in Nat /\ Len(seqs[k + 1]) \in Nat
  BY <1>2, Concatenated
<1>4. \A m \in 1..Len(seqs[k + 1]) : p[k + 1][Len(p[k]) + m] = seqs[k + 1][m]
  <2> DEFINE a == p[k]
             b == seqs[k + 1]
  <2>1. a \in Seq(A) /\ b \in Seq(A) /\ p[k + 1] = a \o b
    BY <1>2
  <2> HIDE DEF a, b
  <2>2. \A m \in 1..Len(b) : (a \o b)[Len(a) + m] = b[m]
    BY <2>1, Concatenated
  <2>3. \A m \in 1..Len(b) : p[k + 1][Len(a) + m] = b[m]
    BY <2>1, <2>2
  <2>4. QED
    BY <2>3 DEF a, b
<1> DEFINE Extends(j) == /\ Len(p[k + 1]) <= Len(p[j])
                         /\ \A i \in 1..Len(p[k + 1]) : p[j][i] = p[k + 1][i]
           Good == {j \in 0..n : j >= k + 1 => Extends(j)}
<1>5. ASSUME NEW j \in 0..(n - 1), j \in Good PROVE j + 1 \in Good
  <2>1. j + 1 \in 1..n /\ j + 1 \in 0..n /\ j \in 0..n
    OBVIOUS
  <2>2. p[j] \in Seq(A) /\ seqs[j + 1] \in Seq(A) /\ p[j + 1] = p[j] \o seqs[j + 1]
    BY <2>1 DEF Joins
  <2>3. /\ Len(p[j]) \in Nat /\ Len(p[j]) <= Len(p[j + 1]) /\ Len(p[j + 1]) \in Nat
        /\ \A i \in 1..Len(p[j]) : p[j + 1][i] = p[j][i]
    <3> DEFINE a == p[j]
               b == seqs[j + 1]
    <3>1. a \in Seq(A) /\ b \in Seq(A) /\ p[j + 1] = a \o b
      BY <2>2
    <3> HIDE DEF a, b
    <3>2. /\ Len(a) \in Nat /\ Len(b) \in Nat /\ Len(a \o b) = Len(a) + Len(b)
          /\ \A i \in 1..Len(a) : (a \o b)[i] = a[i]
      BY <3>1, Concatenated
    <3>3. /\ Len(a) \in Nat /\ Len(a) <= Len(p[j + 1]) /\ Len(p[j + 1]) \in Nat
          /\ \A i \in 1..Len(a) : p[j + 1][i] = a[i]
      BY <3>1, <3>2
    <3>4. QED
      BY <3>3 DEF a
  <2>4. p[k + 1] \in Seq(A) /\ Len(p[k + 1]) \in Nat
    BY <1>1
  <2>5. CASE j >= k + 1
    <3>1. Extends(j)
      BY <1>5, <2>5
    <3>2. \A i \in 1..Len(p[k + 1]) : i \in 1..Len(p[j])
      BY <2>3, <2>4, <3>1
    <3>3. Extends(j + 1)
      BY <2>3, <2>4, <3>1, <3>2
    <3>4. QED
      BY <2>1, <3>3
  <2>6. CASE ~(j >= k + 1)
    <3>1. j + 1 >= k + 1 => j + 1 = k + 1
      BY <2>6
    <3>2. Extends(k + 1)
      BY <2>4
    <3> HIDE DEF Extends
    <3>3. QED
      BY <2>1, <3>1, <3>2
  <2>7. QED
    BY <2>5, <2>6
<1>6. n \in Good
  <2>1. 0 \in Good
    OBVIOUS
  <2> HIDE DEF Good
  <2>2. QED
    BY <1>1, <1>5, <2>1, UpTo
<1>7. Extends(n)
  <2> HIDE DEF Extends
  <2>1. n >= k + 1
    OBVIOUS
  <2>2. QED
    BY <1>6, <2>1
<1>8. ASSUME NEW m \in 1..Len(seqs[k + 1]) PROVE p[n][Len(p[k]) + m] = seqs[k + 1][m]
  <2> DEFINE x == Len(p[k])
             y == Len(seqs[k + 1])
             z == Len(p[k + 1])
  <2>1. x \in Nat /\ y \in Nat /\ z = x + y /\ m \in 1..y
    BY <1>3
  <2> HIDE DEF x, y, z
  <2>2. x + m \in 1..z
    BY <2>1
  <2>3. QED
    BY <1>4, <1>7, <2>2 DEF x, z
<1>9. QED
  BY <1>2, <1>3, <1>7, <1>8 DEF IsNext

\* The sequences one behind the other: p[k] is the first k of them.
IsLaid(p, seqs, whole) ==
    /\ p[0] = <<>> /\ p[Len(seqs)] = whole
    /\ \A k \in 0..(Len(seqs) - 1) : IsNext(p, seqs, whole, k)

LEMMA LaidOut ==
    ASSUME NEW A, NEW seqs
    PROVE  seqs \in Seq(Seq(A)) =>
              \E p \in [0..Len(seqs) -> Seq(A)] : IsLaid(p, seqs, FlattenSeq(seqs))
<1>1. SUFFICES ASSUME seqs \in Seq(Seq(A))
               PROVE  \E p \in [0..Len(seqs) -> Seq(A)] : IsLaid(p, seqs, FlattenSeq(seqs))
  OBVIOUS
<1> DEFINE n == Len(seqs)
           whole == FlattenSeq(seqs)
<1>2. n \in Nat /\ \A k \in 1..n : seqs[k] \in Seq(A)
  BY <1>1
<1>3. PICK p \in [0..n -> Seq(A)] : Joins(p, n, seqs) /\ whole = p[n]
  BY <1>1, Flattened
<1> HIDE DEF n, whole
<1>4. ASSUME NEW k \in 0..(n - 1) PROVE IsNext(p, seqs, whole, k)
  BY <1>2, <1>3, Placed
<1>5. p[0] = <<>> /\ p[n] = whole
  BY <1>3 DEF Joins
<1>6. IsLaid(p, seqs, whole)
  BY <1>4, <1>5 DEF IsLaid, n
<1>7. QED
  BY <1>3, <1>6 DEF n, whole
=============================================================================
