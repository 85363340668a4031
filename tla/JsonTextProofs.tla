--------------------------- MODULE JsonTextProofs ---------------------------
(***************************************************************************)
(* Proofs about JsonText.  What its recursive functions compute is proved  *)
(* by induction over the natural numbers, as the existence of the least    *)
(* element of a set: the library proves it for well-founded relations.     *)
(***************************************************************************)
EXTENDS JsonText, FiniteSetTheorems, SequenceTheorems, WellFoundedInduction, TLAPS

-----------------------------------------------------------------------------
(* Induction and recursion. *)

LEMMA LeastNatural ==
  ASSUME NEW C \in SUBSET Nat, C # {}
  PROVE  \E m \in C : \A k \in C : m <= k
<1> DEFINE Upto(m) == 0 .. m
           T == {Upto(m) : m \in C}
<1>1. \A m \in C : Upto(m) \in FiniteSubsetsOf(Nat)
  <2> SUFFICES ASSUME NEW m \in C PROVE Upto(m) \in FiniteSubsetsOf(Nat)
    OBVIOUS
  <2>1. m \in Int /\ 0 \in Int
    OBVIOUS
  <2>2. IsFiniteSet(0 .. m)
    BY <2>1, FS_Interval
  <2>3. 0 .. m \in SUBSET Nat
    BY <2>1
  <2> QED
    BY <2>2, <2>3 DEF FiniteSubsetsOf
<1>2. \A k, m \in C : k < m => <<Upto(k), Upto(m)>> \in StrictSubsetOrdering(Nat)
  <2> SUFFICES ASSUME NEW k \in C, NEW m \in C, k < m
               PROVE  <<Upto(k), Upto(m)>> \in StrictSubsetOrdering(Nat)
    OBVIOUS
  <2>1. Upto(k) \in SUBSET Nat /\ Upto(m) \in SUBSET Nat /\ Upto(k) \subseteq Upto(m)
    OBVIOUS
  <2>2. m \in Upto(m) /\ m \notin Upto(k)
    OBVIOUS
  <2> HIDE DEF Upto
  <2> QED
    BY <2>1, <2>2 DEF StrictSubsetOrdering
<1>3. IsWellFoundedOn(StrictSubsetOrdering(Nat), FiniteSubsetsOf(Nat))
  BY FS_StrictSubsetOrderingWellFounded
<1> HIDE DEF Upto
<1>4. T \subseteq FiniteSubsetsOf(Nat) /\ T # {}
  BY <1>1
<1> HIDE DEF T
<1>5. \E x \in T : \A y \in T : ~(<<y, x>> \in StrictSubsetOrdering(Nat))
  BY <1>3, <1>4, WFMin
<1>6. PICK m \in C : \A k \in C : ~(<<Upto(k), Upto(m)>> \in StrictSubsetOrdering(Nat))
  BY <1>5 DEF T
<1>7. \A k \in C : ~(k < m)
  BY <1>2, <1>6
<1> QED
  BY <1>7

LEMMA Induction ==
  ASSUME NEW S, 0 \in S, \A n \in Nat : n \in S => n + 1 \in S
  PROVE  \A n \in Nat : n \in S
<1> SUFFICES ASSUME Nat \ S # {} PROVE FALSE
  OBVIOUS
<1>1. PICK m \in Nat \ S : \A k \in Nat \ S : m <= k
  BY LeastNatural
<1>2. m - 1 \in Nat /\ m - 1 \in S
  BY <1>1
<1> QED
  BY <1>1, <1>2

\* Induction over the elements of a set by their rank.
LEMMA RankInduction ==
  ASSUME NEW S, NEW rank \in [S -> Nat], NEW T,
         \A x \in S : (\A y \in S : rank[y] < rank[x] => y \in T) => x \in T
  PROVE  S \subseteq T
<1> SUFFICES ASSUME S \ T # {} PROVE FALSE
  OBVIOUS
<1> DEFINE C == {rank[x] : x \in S \ T}
<1>1. C \in SUBSET Nat /\ C # {}
  OBVIOUS
<1>2. PICK m \in C : \A k \in C : m <= k
  <2> HIDE DEF C
  <2> QED
    BY <1>1, LeastNatural
<1>3. PICK x \in S \ T : m = rank[x]
  BY <1>2
<1>4. ASSUME NEW y \in S, rank[y] < rank[x], y \notin T
      PROVE  FALSE
  <2>1. rank[y] \in C /\ rank[x] \in Nat /\ rank[y] \in Nat
    BY <1>4
  <2> HIDE DEF C
  <2> QED
    BY <1>2, <1>3, <1>4, <2>1
<1> QED
  BY <1>3, <1>4

\* The step of a recursive function looks at smaller arguments only.
Local(S, D, rank, step) ==
  \A x \in S : \A g, h \in [S -> D] :
    (\A y \in S : rank[y] < rank[x] => g[y] = h[y]) => step[x][g] = step[x][h]

Solves(S, rank, step, g, n) == \A x \in S : rank[x] < n => g[x] = step[x][g]

LEMMA SolutionExists ==
  ASSUME NEW S, NEW D, D # {}, NEW rank \in [S -> Nat],
         NEW step \in [S -> [[S -> D] -> D]], Local(S, D, rank, step)
  PROVE  \A n \in Nat : \E g \in [S -> D] : Solves(S, rank, step, g, n)
<1> DEFINE Solved == {n \in Nat : \E g \in [S -> D] : Solves(S, rank, step, g, n)}
<1>1. 0 \in Solved
  <2>1. PICK d \in D : TRUE
    OBVIOUS
  <2> DEFINE g == [x \in S |-> d]
  <2>2. g \in [S -> D]
    OBVIOUS
  <2>3. Solves(S, rank, step, g, 0)
    BY DEF Solves
  <2> QED
    BY <2>2, <2>3
<1>2. ASSUME NEW n \in Nat, n \in Solved
      PROVE  n + 1 \in Solved
  <2>1. PICK g \in [S -> D] : Solves(S, rank, step, g, n)
    BY <1>2
  <2> DEFINE h == [x \in S |-> IF rank[x] < n THEN g[x] ELSE step[x][g]]
  <2>2. h \in [S -> D]
    OBVIOUS
  <2>3. ASSUME NEW x \in S, rank[x] < n + 1
        PROVE  h[x] = step[x][h]
    <3>1. \A y \in S : rank[y] < rank[x] => g[y] = h[y]
      BY <2>3
    <3>2. step[x][g] = step[x][h]
      BY <2>2, <3>1 DEF Local
    <3>3. h[x] = step[x][g]
      BY <2>1 DEF Solves
    <3> QED
      BY <3>2, <3>3
  <2>4. Solves(S, rank, step, h, n + 1)
    BY <2>3 DEF Solves
  <2> HIDE DEF h
  <2> QED
    BY <2>2, <2>4
<1> HIDE DEF Solved
<1>3. \A n \in Nat : n \in Solved
  BY <1>1, <1>2, Induction
<1> QED
  BY <1>3 DEF Solved

Descends(S, D, rank, step) ==
  /\ D # {} /\ rank \in [S -> Nat] /\ step \in [S -> [[S -> D] -> D]]
  /\ Local(S, D, rank, step)

Recursive(S, D, step) == \E f \in [S -> D] : \A x \in S : f[x] = step[x][f]

\* A recursive function of finite descent exists.
LEMMA Recursion ==
  ASSUME NEW S, NEW D, NEW rank, NEW step, Descends(S, D, rank, step)
  PROVE  Recursive(S, D, step)
<1> SUFFICES ASSUME D # {}, rank \in [S -> Nat], step \in [S -> [[S -> D] -> D]],
                    Local(S, D, rank, step)
             PROVE  Recursive(S, D, step)
  BY DEF Descends
<1>0. \A n \in Nat : \A g, h \in [S -> D] :
        Solves(S, rank, step, g, n) /\ Solves(S, rank, step, h, n)
          => \A x \in S : rank[x] < n => g[x] = h[x]
  <2> SUFFICES ASSUME NEW n \in Nat, NEW g \in [S -> D], NEW h \in [S -> D],
                      Solves(S, rank, step, g, n), Solves(S, rank, step, h, n)
               PROVE  \A x \in S : rank[x] < n => g[x] = h[x]
    OBVIOUS
  <2> DEFINE T == {x \in S : rank[x] < n => g[x] = h[x]}
  <2>1. ASSUME NEW x \in S, \A y \in S : rank[y] < rank[x] => y \in T
        PROVE  x \in T
    <3> SUFFICES ASSUME rank[x] < n PROVE g[x] = h[x]
      OBVIOUS
    <3>1. \A y \in S : rank[y] < rank[x] => g[y] = h[y]
      BY <2>1
    <3>2. step[x][g] = step[x][h]
      BY <3>1 DEF Local
    <3> QED
      BY <3>2 DEF Solves
  <2> HIDE DEF T
  <2>2. S \subseteq T
    BY <2>1, RankInduction
  <2> QED
    BY <2>2 DEF T
<1> DEFINE part[n \in Nat] == CHOOSE g \in [S -> D] : Solves(S, rank, step, g, n)
           f == [x \in S |-> part[rank[x] + 1][x]]
<1>1. \A n \in Nat : part[n] \in [S -> D] /\ Solves(S, rank, step, part[n], n)
  BY SolutionExists
<1> HIDE DEF part
<1>2. f \in [S -> D]
  BY <1>1
<1>3. ASSUME NEW x \in S
      PROVE  f[x] = step[x][f]
  <2> DEFINE n == rank[x] + 1
  <2>1. n \in Nat /\ f[x] = part[n][x]
    OBVIOUS
  <2>2. part[n][x] = step[x][part[n]]
    BY <1>1, <2>1 DEF Solves
  <2>3. ASSUME NEW y \in S, rank[y] < rank[x]
        PROVE  part[n][y] = f[y]
    <3> DEFINE m == rank[y] + 1
    <3>1. m \in Nat /\ m <= n /\ rank[y] < m /\ f[y] = part[m][y]
      BY <2>3
    <3> HIDE DEF m, n, f
    <3>2. Solves(S, rank, step, part[n], m)
      <4>1. \A z \in S : rank[z] < m => rank[z] < n
        BY <2>1, <3>1
      <4> QED
        BY <1>1, <2>1, <4>1 DEF Solves
    <3>3. /\ part[n] \in [S -> D] /\ part[m] \in [S -> D]
          /\ Solves(S, rank, step, part[m], m)
      BY <1>1, <2>1, <3>1
    <3>4. part[n] \in [S -> D]
      BY <3>3
    <3>5. \A z \in S : rank[z] < m => part[n][z] = part[m][z]
      BY <1>0, <3>1, <3>2, <3>3, <3>4
    <3> QED
      BY <3>1, <3>5
  <2> HIDE DEF f, n
  <2>4. step[x][part[n]] = step[x][f]
    BY <1>1, <1>2, <2>1, <2>3 DEF Local
  <2> QED
    BY <2>1, <2>2, <2>4
<1> HIDE DEF f
<1> QED
  BY <1>2, <1>3 DEF Recursive

LEMMA InductionUpTo ==
  ASSUME NEW n \in Nat, NEW S, 0 \in S, \A i \in 1 .. n : i - 1 \in S => i \in S
  PROVE  \A i \in 0 .. n : i \in S
<1> DEFINE T == {i \in Nat : i <= n => i \in S}
<1>1. 0 \in T
  OBVIOUS
<1>2. ASSUME NEW i \in Nat, i \in T
      PROVE  i + 1 \in T
  <2> SUFFICES ASSUME i + 1 <= n PROVE i + 1 \in S
    OBVIOUS
  <2>1. i + 1 \in 1 .. n /\ (i + 1) - 1 = i /\ i \in S
    BY <1>2
  <2> HIDE DEF T
  <2> QED
    BY <2>1
<1> HIDE DEF T
<1>3. \A i \in Nat : i \in T
  BY <1>1, <1>2, Induction
<1> QED
  BY <1>3 DEF T

\* A function on 0 .. n by its value at 0 and the step from each i - 1 to i.
Links(D, n, first, next) == n \in Nat /\ first \in D /\ next \in [1 .. n -> [D -> D]]

Chained(D, n, first, next) ==
  \E f \in [0 .. n -> D] :
    f = [i \in 0 .. n |-> IF i = 0 THEN first ELSE next[i][f[i - 1]]]

LEMMA Chain ==
  ASSUME NEW D, NEW n, NEW first, NEW next, Links(D, n, first, next)
  PROVE  Chained(D, n, first, next)
<1> SUFFICES ASSUME n \in Nat, first \in D, next \in [1 .. n -> [D -> D]]
             PROVE  Chained(D, n, first, next)
  BY DEF Links
<1> DEFINE S == 0 .. n
           rank == [i \in S |-> i]
           step == [i \in S |-> [g \in [S -> D] |->
                      IF i = 0 THEN first ELSE next[i][g[i - 1]]]]
<1>1. rank \in [S -> Nat] /\ D # {}
  OBVIOUS
<1>2. step \in [S -> [[S -> D] -> D]]
  <2> SUFFICES ASSUME NEW i \in S, NEW g \in [S -> D]
               PROVE  (IF i = 0 THEN first ELSE next[i][g[i - 1]]) \in D
    OBVIOUS
  <2>1. CASE i = 0
    BY <2>1
  <2>2. CASE i # 0
    <3>1. i \in 1 .. n /\ i - 1 \in 0 .. n
      BY <2>2
    <3>2. g[i - 1] \in D
      BY <3>1
    <3>3. next[i] \in [D -> D]
      BY <3>1
    <3>4. next[i][g[i - 1]] \in D
      BY <3>2, <3>3
    <3> QED
      BY <2>2, <3>4
  <2> QED
    BY <2>1, <2>2
<1>3. Local(S, D, rank, step)
  <2> SUFFICES ASSUME NEW i \in S, NEW g \in [S -> D], NEW h \in [S -> D],
                      \A j \in S : rank[j] < rank[i] => g[j] = h[j]
               PROVE  step[i][g] = step[i][h]
    BY DEF Local
  <2>1. CASE i = 0
    BY <2>1
  <2>2. CASE i # 0
    <3>1. i - 1 \in S /\ rank[i - 1] < rank[i]
      BY <2>2
    <3>2. g[i - 1] = h[i - 1]
      BY <3>1
    <3> QED
      BY <3>2
  <2> QED
    BY <2>1, <2>2
<1>4. Recursive(S, D, step)
  <2> HIDE DEF S, rank, step
  <2> QED
    BY <1>1, <1>2, <1>3, Recursion DEF Descends
<1>5. PICK f \in [S -> D] : \A i \in S : f[i] = step[i][f]
  BY <1>4 DEF Recursive
<1>6. \A i \in S : f[i] = (IF i = 0 THEN first ELSE next[i][f[i - 1]])
  BY <1>5
<1>7. f = [i \in S |-> f[i]]
  OBVIOUS
<1>8. f = [i \in S |-> IF i = 0 THEN first ELSE next[i][f[i - 1]]]
  BY <1>6, <1>7
<1> QED
  BY <1>8 DEF Chained

-----------------------------------------------------------------------------
(* Sums and texts in a row. *)

LEMMA TotalSum ==
  ASSUME NEW sizes \in Seq(Nat)
  PROVE  \E sum \in [0 .. Len(sizes) -> Nat] :
           /\ sum[0] = 0
           /\ \A i \in 1 .. Len(sizes) : sum[i] = sum[i - 1] + sizes[i]
           /\ Total(sizes) = sum[Len(sizes)]
<1> DEFINE n == Len(sizes)
           next == [i \in 1 .. n |-> [m \in Nat |-> m + sizes[i]]]
<1>1. n \in Nat /\ next \in [1 .. n -> [Nat -> Nat]]
  OBVIOUS
<1>2. PICK f \in [0 .. n -> Nat] :
        f = [i \in 0 .. n |-> IF i = 0 THEN 0 ELSE next[i][f[i - 1]]]
  <2>1. Links(Nat, n, 0, next)
    BY <1>1 DEF Links
  <2> HIDE DEF next, n
  <2>2. Chained(Nat, n, 0, next)
    BY <2>1, Chain
  <2> QED
    BY <2>2 DEF Chained
<1>3. \A i \in 0 .. n : (IF i = 0 THEN 0 ELSE next[i][f[i - 1]])
                          = (IF i = 0 THEN 0 ELSE f[i - 1] + sizes[i])
  <2> SUFFICES ASSUME NEW i \in 0 .. n, i # 0
               PROVE  next[i][f[i - 1]] = f[i - 1] + sizes[i]
    OBVIOUS
  <2>1. i \in 1 .. n /\ i - 1 \in 0 .. n
    OBVIOUS
  <2>2. f[i - 1] \in Nat
    BY <2>1
  <2> QED
    BY <2>1, <2>2
<1>4. f = [i \in 0 .. n |-> IF i = 0 THEN 0 ELSE f[i - 1] + sizes[i]]
  <2> HIDE DEF next
  <2> QED
    BY <1>2, <1>3
<1> DEFINE sum[i \in 0 .. n] == IF i = 0 THEN 0 ELSE sum[i - 1] + sizes[i]
<1>5. sum = [i \in 0 .. n |-> IF i = 0 THEN 0 ELSE sum[i - 1] + sizes[i]]
  <2> HIDE DEF n, next
  <2> QED
    BY <1>4, Zenon DEF sum
<1> HIDE DEF sum, next
<1>6. \A i \in 0 .. n : sum[i] = (IF i = 0 THEN 0 ELSE sum[i - 1] + sizes[i])
  <2> DEFINE e(i) == IF i = 0 THEN 0 ELSE sum[i - 1] + sizes[i]
  <2>1. sum = [i \in 0 .. n |-> e(i)]
    BY <1>5
  <2> HIDE DEF e, n
  <2>2. \A i \in 0 .. n : sum[i] = e(i)
    BY <2>1
  <2> QED
    BY <2>2 DEF e
<1>7. sum[0] = 0 /\ \A i \in 1 .. n : sum[i] = sum[i - 1] + sizes[i]
  BY <1>1, <1>6
<1> DEFINE T == {i \in 0 .. n : sum[i] \in Nat}
<1>8. ASSUME NEW i \in 1 .. n, i - 1 \in T
      PROVE  i \in T
  <2>1. sum[i - 1] \in Nat /\ sizes[i] \in Nat /\ i \in 0 .. n
    BY <1>8
  <2>2. sum[i] \in Nat
    BY <1>7, <2>1
  <2> QED
    BY <2>1, <2>2
<1>9. 0 \in T
  BY <1>1, <1>7
<1> HIDE DEF T
<1>10. \A i \in 0 .. n : i \in T
  <2> HIDE DEF n
  <2> QED
    BY <1>1, <1>8, <1>9, InductionUpTo
<1>11. sum \in [0 .. n -> Nat]
  <2> HIDE DEF n
  <2>1. sum = [i \in 0 .. n |-> sum[i]]
    BY <1>5
  <2> QED
    BY <1>10, <2>1 DEF T
<1>12. Total(sizes) = sum[n]
  BY Zenon DEF Total, sum
<1> HIDE DEF n
<1>13. \E s \in [0 .. n -> Nat] :
         s[0] = 0 /\ (\A i \in 1 .. n : s[i] = s[i - 1] + sizes[i]) /\ Total(sizes) = s[n]
  BY <1>7, <1>11, <1>12
<1> QED
  BY <1>13 DEF n

\* FlattenSeq, by its prefixes.
LEMMA Flattened ==
  ASSUME NEW S, NEW seqs \in Seq(Seq(S))
  PROVE  \E flat \in [0 .. Len(seqs) -> Seq(S)] :
           /\ flat[0] = <<>>
           /\ \A i \in 1 .. Len(seqs) : flat[i] = flat[i - 1] \o seqs[i]
           /\ Seqs!FlattenSeq(seqs) = flat[Len(seqs)]
<1> DEFINE n == Len(seqs)
           next == [i \in 1 .. n |-> [s \in Seq(S) |-> s \o seqs[i]]]
<1>1. n \in Nat /\ \A i \in 1 .. n : seqs[i] \in Seq(S)
  OBVIOUS
<1>2. next \in [1 .. n -> [Seq(S) -> Seq(S)]]
  <2> SUFFICES ASSUME NEW i \in 1 .. n, NEW s \in Seq(S) PROVE s \o seqs[i] \in Seq(S)
    OBVIOUS
  <2>1. seqs[i] \in Seq(S)
    BY <1>1
  <2> QED
    BY <2>1, ConcatProperties
<1>3. PICK f \in [0 .. n -> Seq(S)] :
        f = [i \in 0 .. n |-> IF i = 0 THEN <<>> ELSE next[i][f[i - 1]]]
  <2>1. <<>> \in Seq(S)
    OBVIOUS
  <2> HIDE DEF next, n
  <2>2. Links(Seq(S), n, <<>>, next)
    BY <1>1, <1>2, <2>1 DEF Links
  <2>3. Chained(Seq(S), n, <<>>, next)
    BY <2>2, Chain
  <2> QED
    BY <2>3 DEF Chained
<1>4. f[0] = <<>>
  <2> HIDE DEF next, n
  <2>1. 0 \in 0 .. n
    BY <1>1
  <2> QED
    BY <1>3, <2>1
<1>5. ASSUME NEW i \in 1 .. n
      PROVE  f[i - 1] \in Seq(S) /\ f[i] = f[i - 1] \o seqs[i]
  <2>1. i \in 0 .. n /\ i - 1 \in 0 .. n /\ i # 0
    BY <1>1
  <2>2. f[i - 1] \in Seq(S)
    BY <2>1
  <2>3. f[i] = next[i][f[i - 1]]
    <3> HIDE DEF next
    <3> QED
      BY <1>3, <2>1
  <2>4. next[i][f[i - 1]] = f[i - 1] \o seqs[i]
    BY <2>2
  <2> QED
    BY <2>2, <2>3, <2>4
<1>6. CASE n = 0
  <2>1. seqs = <<>>
    BY <1>6
  <2>2. Seqs!FlattenSeq(seqs) = seqs
    BY <1>6 DEF Seqs!FlattenSeq
  <2>3. Seqs!FlattenSeq(seqs) = f[n]
    BY <1>4, <1>6, <2>1, <2>2
  <2> QED
    BY <1>4, <1>5, <2>3
<1>7. CASE n # 0
  <2> DEFINE g == [i \in 1 .. n |-> f[i]]
  <2>1. \A i \in 1 .. n : f[i] = (IF i = 1 THEN seqs[i] ELSE f[i - 1] \o seqs[i])
    <3> SUFFICES ASSUME NEW i \in 1 .. n
                 PROVE  f[i] = (IF i = 1 THEN seqs[i] ELSE f[i - 1] \o seqs[i])
      OBVIOUS
    <3>1. f[i] = f[i - 1] \o seqs[i]
      BY <1>5
    <3>2. CASE i = 1
      <4>1. seqs[i] \in Seq(S) /\ f[i - 1] = <<>>
        BY <1>1, <1>4, <3>2
      <4>2. f[i] = seqs[i]
        BY <3>1, <4>1, ConcatEmptySeq
      <4> QED
        BY <3>2, <4>2
    <3> QED
      BY <3>1, <3>2
  <2>2. g = [i \in 1 .. n |-> IF i = 1 THEN seqs[i] ELSE g[i - 1] \o seqs[i]]
    <3>1. \A i \in 1 .. n : i # 1 => f[i - 1] = g[i - 1]
      OBVIOUS
    <3> QED
      BY <2>1, <3>1
  <2> DEFINE flatten[i \in 1 .. n] == IF i = 1 THEN seqs[i] ELSE flatten[i - 1] \o seqs[i]
  <2>3. flatten = [i \in 1 .. n |-> IF i = 1 THEN seqs[i] ELSE flatten[i - 1] \o seqs[i]]
    <3> HIDE DEF n, g
    <3> QED
      BY <2>2, Zenon DEF flatten
  <2>4. Seqs!FlattenSeq(seqs) = flatten[n]
    BY <1>7, Zenon DEF Seqs!FlattenSeq
  <2> HIDE DEF flatten
  <2> DEFINE T == {i \in Nat : i \in 1 .. n => flatten[i] = f[i]}
  <2>5. 0 \in T
    OBVIOUS
  <2>6. ASSUME NEW i \in Nat, i \in T PROVE i + 1 \in T
    <3> SUFFICES ASSUME i + 1 \in 1 .. n PROVE flatten[i + 1] = f[i + 1]
      OBVIOUS
    <3>0. flatten[i + 1] = (IF i + 1 = 1 THEN seqs[i + 1]
                            ELSE flatten[(i + 1) - 1] \o seqs[i + 1])
      BY <2>3
    <3>1. CASE i = 0
      BY <2>1, <3>0, <3>1
    <3>2. CASE i # 0
      <4>1. i \in 1 .. n /\ (i + 1) - 1 = i /\ i + 1 # 1
        BY <3>2
      <4>2. flatten[i] = f[i]
        BY <2>6, <4>1
      <4>3. f[i + 1] = f[i] \o seqs[i + 1]
        BY <1>5, <4>1
      <4> QED
        BY <3>0, <4>1, <4>2, <4>3
    <3> QED
      BY <3>1, <3>2
  <2> HIDE DEF T
  <2>7. n \in T
    BY <1>1, <2>5, <2>6, Induction
  <2>8. flatten[n] = f[n]
    BY <1>1, <1>7, <2>7 DEF T
  <2> QED
    BY <1>4, <1>5, <2>4, <2>8
<1> QED
  BY <1>6, <1>7

LEMMA FlattenType ==
  ASSUME NEW S, NEW seqs \in Seq(Seq(S))
  PROVE  Seqs!FlattenSeq(seqs) \in Seq(S)
<1>1. PICK flat \in [0 .. Len(seqs) -> Seq(S)] : Seqs!FlattenSeq(seqs) = flat[Len(seqs)]
  BY Flattened
<1>2. Len(seqs) \in 0 .. Len(seqs)
  OBVIOUS
<1> QED
  BY <1>1, <1>2

LEMMA TotalType ==
  ASSUME NEW sizes \in Seq(Nat)
  PROVE  Total(sizes) \in Nat
<1>1. PICK sum \in [0 .. Len(sizes) -> Nat] : Total(sizes) = sum[Len(sizes)]
  BY TotalSum
<1>2. Len(sizes) \in 0 .. Len(sizes)
  OBVIOUS
<1> QED
  BY <1>1, <1>2

\* The length of texts in a row is the total of their lengths.
LEMMA FlattenLength ==
  ASSUME NEW S, NEW seqs \in Seq(Seq(S)), NEW sizes \in Seq(Nat), Len(sizes) = Len(seqs),
         \A i \in 1 .. Len(seqs) : sizes[i] = Len(seqs[i])
  PROVE  Len(Seqs!FlattenSeq(seqs)) = Total(sizes)
<1> DEFINE n == Len(seqs)
<1>0. n \in Nat /\ \A i \in 1 .. n : seqs[i] \in Seq(S)
  OBVIOUS
<1>1. PICK flat \in [0 .. n -> Seq(S)] :
        /\ flat[0] = <<>>
        /\ \A i \in 1 .. n : flat[i] = flat[i - 1] \o seqs[i]
        /\ Seqs!FlattenSeq(seqs) = flat[n]
  BY Flattened
<1>2. PICK sum \in [0 .. n -> Nat] :
        /\ sum[0] = 0
        /\ \A i \in 1 .. n : sum[i] = sum[i - 1] + sizes[i]
        /\ Total(sizes) = sum[n]
  BY TotalSum
<1> DEFINE T == {i \in 0 .. n : Len(flat[i]) = sum[i]}
<1>3. 0 \in T
  <2>1. 0 \in 0 .. n
    BY <1>0
  <2> QED
    BY <1>1, <1>2, <2>1
<1>4. ASSUME NEW i \in 1 .. n, i - 1 \in T
      PROVE  i \in T
  <2>1. i \in 0 .. n /\ i - 1 \in 0 .. n
    BY <1>0
  <2>2. flat[i - 1] \in Seq(S) /\ seqs[i] \in Seq(S)
    BY <1>0, <2>1
  <2>3. Len(flat[i - 1] \o seqs[i]) = Len(flat[i - 1]) + Len(seqs[i])
    BY <2>2, ConcatProperties
  <2>4. Len(flat[i - 1]) = sum[i - 1]
    BY <1>4
  <2>5. Len(flat[i]) = sum[i]
    BY <1>1, <1>2, <2>3, <2>4
  <2> QED
    BY <2>1, <2>5
<1> HIDE DEF T, n
<1>5. \A i \in 0 .. n : i \in T
  BY <1>0, <1>3, <1>4, InductionUpTo
<1>6. n \in T
  BY <1>0, <1>5
<1> QED
  BY <1>1, <1>2, <1>6 DEF T

\* What the separators add up to: `each` for every part, but one less.
LEMMA TotalSeparated ==
  ASSUME NEW sizes \in Seq(Nat), NEW more \in Seq(Nat), Len(more) = Len(sizes),
         NEW each \in {1, 2},
         \A i \in 1 .. Len(sizes) :
           more[i] = sizes[i] + (IF i = 1 THEN each - 1 ELSE each)
  PROVE  Total(more) = Total(sizes) + Separators(Len(sizes), each)
<1> DEFINE n == Len(sizes)
<1>0. n \in Nat /\ \A i \in 1 .. n : sizes[i] \in Nat /\ more[i] \in Nat
  OBVIOUS
<1>1. PICK sum \in [0 .. n -> Nat] :
        /\ sum[0] = 0
        /\ \A i \in 1 .. n : sum[i] = sum[i - 1] + sizes[i]
        /\ Total(sizes) = sum[n]
  BY TotalSum
<1>2. PICK sum2 \in [0 .. n -> Nat] :
        /\ sum2[0] = 0
        /\ \A i \in 1 .. n : sum2[i] = sum2[i - 1] + more[i]
        /\ Total(more) = sum2[n]
  BY TotalSum
<1> DEFINE T == {i \in 0 .. n : sum2[i] = sum[i] + Separators(i, each)}
<1>3. 0 \in T
  <2>1. 0 \in 0 .. n
    BY <1>0
  <2> QED
    BY <1>1, <1>2, <2>1 DEF Separators
<1>4. ASSUME NEW i \in 1 .. n, i - 1 \in T
      PROVE  i \in T
  <2>1. i \in 0 .. n /\ i - 1 \in 0 .. n
    BY <1>0
  <2>2. sum2[i - 1] = sum[i - 1] + Separators(i - 1, each)
    BY <1>4
  <2>3. more[i] = sizes[i] + (IF i = 1 THEN each - 1 ELSE each)
    OBVIOUS
  <2>4. Separators(i, each) = Separators(i - 1, each) + (IF i = 1 THEN each - 1 ELSE each)
    BY DEF Separators
  <2>5. sum[i - 1] \in Nat /\ sizes[i] \in Nat
    BY <1>0, <2>1
  <2>7. Separators(i - 1, each) \in Nat
    <3>1. CASE each = 1
      BY <2>1, <3>1 DEF Separators
    <3>2. CASE each = 2
      BY <2>1, <3>2 DEF Separators
    <3> QED
      BY <3>1, <3>2
  <2>6. sum2[i] = sum[i] + Separators(i, each)
    <3>1. sum[i] = sum[i - 1] + sizes[i] /\ sum2[i] = sum2[i - 1] + more[i]
      BY <1>1, <1>2
    <3> DEFINE a == sum[i - 1]
               b == sizes[i]
               p == Separators(i - 1, each)
               q == IF i = 1 THEN each - 1 ELSE each
    <3>2. a \in Nat /\ b \in Nat /\ p \in Nat /\ q \in Nat
      BY <2>5, <2>7
    <3>3. sum[i] = a + b /\ sum2[i] = (a + p) + (b + q) /\ Separators(i, each) = p + q
      BY <2>2, <2>3, <2>4, <3>1
    <3> HIDE DEF a, b, p, q
    <3> QED
      BY <3>2, <3>3
  <2> QED
    BY <2>1, <2>6
<1> HIDE DEF T, n
<1>5. \A i \in 0 .. n : i \in T
  BY <1>0, <1>3, <1>4, InductionUpTo
<1>6. n \in T
  BY <1>0, <1>5
<1>7. Total(more) = Total(sizes) + Separators(n, each)
  BY <1>1, <1>2, <1>6 DEF T
<1> QED
  BY <1>7 DEF n

LEMMA TotalLonger ==
  ASSUME NEW sizes \in Seq(Nat), NEW longer \in Seq(Nat), Len(longer) = Len(sizes),
         \A i \in 1 .. Len(sizes) : longer[i] = sizes[i] + 1
  PROVE  Total(longer) = Total(sizes) + Len(sizes)
<1> DEFINE n == Len(sizes)
<1>0. n \in Nat /\ \A i \in 1 .. n : sizes[i] \in Nat
  OBVIOUS
<1>1. PICK sum \in [0 .. n -> Nat] :
        /\ sum[0] = 0
        /\ \A i \in 1 .. n : sum[i] = sum[i - 1] + sizes[i]
        /\ Total(sizes) = sum[n]
  BY TotalSum
<1>2. PICK sum2 \in [0 .. n -> Nat] :
        /\ sum2[0] = 0
        /\ \A i \in 1 .. n : sum2[i] = sum2[i - 1] + longer[i]
        /\ Total(longer) = sum2[n]
  BY TotalSum
<1> DEFINE T == {i \in 0 .. n : sum2[i] = sum[i] + i}
<1>3. 0 \in T
  BY <1>0, <1>1, <1>2
<1>4. ASSUME NEW i \in 1 .. n, i - 1 \in T
      PROVE  i \in T
  <2>1. i \in 0 .. n /\ i - 1 \in 0 .. n /\ i \in Int
    BY <1>0
  <2>2. sum2[i - 1] = sum[i - 1] + (i - 1) /\ longer[i] = sizes[i] + 1
    BY <1>4
  <2>3. sum[i] = sum[i - 1] + sizes[i] /\ sum2[i] = sum2[i - 1] + longer[i]
    BY <1>1, <1>2
  <2>4. sum[i - 1] \in Nat /\ sizes[i] \in Nat
    BY <1>0, <2>1
  <2>5. sum2[i] = sum[i] + i
    BY <2>1, <2>2, <2>3, <2>4
  <2> QED
    BY <2>1, <2>5
<1> HIDE DEF T, n
<1>5. \A i \in 0 .. n : i \in T
  BY <1>0, <1>3, <1>4, InductionUpTo
<1>6. n \in T
  BY <1>0, <1>5
<1>7. Total(longer) = Total(sizes) + n
  BY <1>1, <1>2, <1>6 DEF T
<1> QED
  BY <1>7 DEF n

-----------------------------------------------------------------------------
(* Values. *)

Tower(g, n) == g = [d \in 0 .. n |-> Over(IF d = 0 THEN {} ELSE g[d - 1])]

LEMMA TowerExists == \A n \in Nat : \E g : Tower(g, n)
<1> DEFINE T == {n \in Nat : \E g : Tower(g, n)}
<1>1. 0 \in T
  <2> DEFINE g == [d \in 0 .. 0 |-> Over({})]
  <2>1. \A d \in 0 .. 0 : Over({}) = Over(IF d = 0 THEN {} ELSE g[d - 1])
    OBVIOUS
  <2>2. Tower(g, 0)
    BY <2>1 DEF Tower
  <2> QED
    BY <2>2
<1>2. ASSUME NEW n \in Nat, n \in T
      PROVE  n + 1 \in T
  <2>1. PICK g : Tower(g, n)
    BY <1>2
  <2> DEFINE h == [d \in 0 .. n + 1 |-> IF d <= n THEN g[d] ELSE Over(g[n])]
  <2>2. \A d \in 0 .. n : g[d] = Over(IF d = 0 THEN {} ELSE g[d - 1])
    <3> DEFINE e(d) == Over(IF d = 0 THEN {} ELSE g[d - 1])
    <3>1. g = [d \in 0 .. n |-> e(d)]
      BY <2>1 DEF Tower
    <3> HIDE DEF e
    <3>2. \A d \in 0 .. n : g[d] = e(d)
      BY <3>1
    <3> QED
      BY <3>2 DEF e
  <2>3. ASSUME NEW d \in 0 .. n + 1
        PROVE  h[d] = Over(IF d = 0 THEN {} ELSE h[d - 1])
    <3>1. CASE d = 0
      <4>1. d <= n /\ d \in 0 .. n
        BY <3>1
      <4>2. h[d] = g[d]
        BY <4>1
      <4> QED
        BY <2>2, <3>1, <4>1, <4>2
    <3>2. CASE d # 0 /\ d <= n
      <4>1. d \in 0 .. n /\ d - 1 \in 0 .. n + 1 /\ d - 1 <= n
        BY <3>2
      <4>2. h[d] = g[d] /\ h[d - 1] = g[d - 1]
        BY <3>2, <4>1
      <4> HIDE DEF h
      <4> QED
        BY <2>2, <3>2, <4>1, <4>2
    <3>3. CASE d = n + 1
      <4>1. ~(d <= n) /\ d # 0 /\ d - 1 = n /\ n \in 0 .. n + 1
        BY <3>3
      <4>2. h[d] = Over(g[n]) /\ h[d - 1] = g[n]
        BY <4>1
      <4> HIDE DEF h
      <4> QED
        BY <4>1, <4>2
    <3> QED
      BY <3>1, <3>2, <3>3
  <2>4. Tower(h, n + 1)
    <3> DEFINE e(d) == Over(IF d = 0 THEN {} ELSE h[d - 1])
    <3>1. \A d \in 0 .. n + 1 : h[d] = e(d)
      BY <2>3
    <3>2. h = [d \in 0 .. n + 1 |-> h[d]]
      OBVIOUS
    <3> HIDE DEF e, h
    <3>3. h = [d \in 0 .. n + 1 |-> e(d)]
      BY <3>1, <3>2
    <3> QED
      BY <3>3 DEF Tower, e
  <2> HIDE DEF h
  <2> QED
    BY <2>4
<1> HIDE DEF T
<1>3. \A n \in Nat : n \in T
  BY <1>1, <1>2, Induction
<1> QED
  BY <1>3 DEF T

LEMMA TowersAgree ==
  ASSUME NEW g, NEW h, NEW m \in Nat, NEW n \in Nat, Tower(g, m), Tower(h, n)
  PROVE  \A d \in Nat : d <= m /\ d <= n => g[d] = h[d]
<1> DEFINE eg(d) == Over(IF d = 0 THEN {} ELSE g[d - 1])
           eh(d) == Over(IF d = 0 THEN {} ELSE h[d - 1])
<1>1. g = [d \in 0 .. m |-> eg(d)] /\ h = [d \in 0 .. n |-> eh(d)]
  BY DEF Tower
<1> HIDE DEF eg, eh
<1>2. (\A d \in 0 .. m : g[d] = eg(d)) /\ (\A d \in 0 .. n : h[d] = eh(d))
  BY <1>1
<1> DEFINE T == {d \in Nat : d <= m /\ d <= n => g[d] = h[d]}
<1>3. 0 \in T
  BY <1>2 DEF eg, eh
<1>4. ASSUME NEW d \in Nat, d \in T
      PROVE  d + 1 \in T
  <2> SUFFICES ASSUME d + 1 <= m, d + 1 <= n PROVE g[d + 1] = h[d + 1]
    OBVIOUS
  <2>1. g[d] = h[d]
    BY <1>4
  <2>2. d + 1 \in 0 .. m /\ d + 1 \in 0 .. n /\ (d + 1) - 1 = d /\ d + 1 # 0
    OBVIOUS
  <2>3. eg(d + 1) = Over(g[d]) /\ eh(d + 1) = Over(h[d])
    BY <2>2 DEF eg, eh
  <2> QED
    BY <1>2, <2>1, <2>2, <2>3
<1> HIDE DEF T
<1>5. \A d \in Nat : d \in T
  BY <1>3, <1>4, Induction
<1> QED
  BY <1>5 DEF T

LEMMA ValuesDef == Values = [depth \in Nat |-> Over(IF depth = 0 THEN {} ELSE Values[depth - 1])]
<1> DEFINE tower(n) == CHOOSE g : Tower(g, n)
           f == [d \in Nat |-> tower(d)[d]]
<1>1. \A n \in Nat : Tower(tower(n), n)
  BY TowerExists
<1> HIDE DEF tower
<1>2. ASSUME NEW d \in Nat
      PROVE  f[d] = Over(IF d = 0 THEN {} ELSE f[d - 1])
  <2> DEFINE e(k) == Over(IF k = 0 THEN {} ELSE tower(d)[k - 1])
  <2>1. tower(d) = [k \in 0 .. d |-> e(k)]
    BY <1>1 DEF Tower
  <2> HIDE DEF e
  <2>2. d \in 0 .. d
    OBVIOUS
  <2>3. tower(d)[d] = e(d)
    BY <2>1, <2>2
  <2>4. f[d] = Over(IF d = 0 THEN {} ELSE tower(d)[d - 1])
    BY <2>3 DEF e
  <2>5. CASE d # 0
    <3>1. d - 1 \in Nat /\ d - 1 <= d /\ d - 1 <= d - 1
      BY <2>5
    <3>2. tower(d - 1)[d - 1] = tower(d)[d - 1]
      BY <1>1, <3>1, TowersAgree
    <3>3. f[d - 1] = tower(d)[d - 1]
      BY <3>1, <3>2
    <3> HIDE DEF f
    <3> QED
      BY <2>4, <2>5, <3>3
  <2>6. CASE d = 0
    BY <2>4, <2>6
  <2> QED
    BY <2>5, <2>6
<1>3. f = [depth \in Nat |-> Over(IF depth = 0 THEN {} ELSE f[depth - 1])]
  <2> DEFINE e(d) == Over(IF d = 0 THEN {} ELSE f[d - 1])
  <2>1. \A d \in Nat : f[d] = e(d)
    BY <1>2
  <2>2. f = [d \in Nat |-> f[d]]
    OBVIOUS
  <2> HIDE DEF e, f
  <2>3. f = [d \in Nat |-> e(d)]
    BY <2>1, <2>2
  <2> QED
    BY <2>3 DEF e
<1> HIDE DEF f
<1> QED
  BY <1>3, Zenon DEF Values

LEMMA ValuesAt ==
  /\ Values[0] = Over({})
  /\ \A d \in Nat : Values[d + 1] = Over(Values[d])
<1> DEFINE e(d) == Over(IF d = 0 THEN {} ELSE Values[d - 1])
<1>1. Values = [d \in Nat |-> e(d)]
  BY ValuesDef
<1> HIDE DEF e
<1>2. \A d \in Nat : Values[d] = e(d)
  BY <1>1
<1>3. Values[0] = Over({})
  BY <1>2 DEF e
<1>4. ASSUME NEW d \in Nat PROVE Values[d + 1] = Over(Values[d])
  <2>1. d + 1 \in Nat /\ d + 1 # 0 /\ (d + 1) - 1 = d
    OBVIOUS
  <2> QED
    BY <1>2, <2>1 DEF e
<1> QED
  BY <1>3, <1>4

LEMMA OverMonotone ==
  ASSUME NEW A, NEW B, A \subseteq B
  PROVE  Over(A) \subseteq Over(B)
<1>1. Seq(A) \subseteq Seq(B)
  BY SeqMonotonic
<1>2. [name : Bytes, value : A] \subseteq [name : Bytes, value : B]
  OBVIOUS
<1>3. Seq([name : Bytes, value : A]) \subseteq Seq([name : Bytes, value : B])
  BY <1>2, SeqMonotonic
<1>4. [type : {"array"}, items : Seq(A)] \subseteq [type : {"array"}, items : Seq(B)]
  BY <1>1
<1>5. [type : {"object"}, members : Seq([name : Bytes, value : A])]
        \subseteq [type : {"object"}, members : Seq([name : Bytes, value : B])]
  BY <1>3
<1> QED
  BY <1>4, <1>5, Zenon DEF Over

LEMMA ValuesStep == \A d \in Nat : Values[d] \subseteq Values[d + 1]
<1> DEFINE T == {d \in Nat : Values[d] \subseteq Values[d + 1]}
<1>1. 0 \in T
  <2>1. Values[0] = Over({}) /\ Values[0 + 1] = Over(Values[0])
    BY ValuesAt
  <2>2. {} \subseteq Values[0]
    OBVIOUS
  <2>3. Values[0] \subseteq Values[0 + 1]
    BY <2>1, <2>2, OverMonotone
  <2> QED
    BY <2>3
<1>2. ASSUME NEW d \in Nat, d \in T PROVE d + 1 \in T
  <2>1. Values[d + 1] = Over(Values[d]) /\ Values[(d + 1) + 1] = Over(Values[d + 1])
    BY ValuesAt
  <2>2. Values[d] \subseteq Values[d + 1]
    BY <1>2
  <2>3. Values[d + 1] \subseteq Values[(d + 1) + 1]
    BY <2>1, <2>2, OverMonotone
  <2> QED
    BY <2>3
<1> HIDE DEF T
<1>3. \A d \in Nat : d \in T
  BY <1>1, <1>2, Induction
<1> QED
  BY <1>3 DEF T

LEMMA ValuesMonotone ==
  \A m, n \in Nat : m <= n => Values[m] \subseteq Values[n]
<1> SUFFICES ASSUME NEW m \in Nat PROVE \A n \in Nat : m <= n => Values[m] \subseteq Values[n]
  OBVIOUS
<1> DEFINE T == {n \in Nat : m <= n => Values[m] \subseteq Values[n]}
<1>1. 0 \in T
  OBVIOUS
<1>2. ASSUME NEW n \in Nat, n \in T PROVE n + 1 \in T
  <2> SUFFICES ASSUME m <= n + 1 PROVE Values[m] \subseteq Values[n + 1]
    OBVIOUS
  <2>1. CASE m <= n
    <3>1. Values[m] \subseteq Values[n]
      BY <1>2, <2>1
    <3>2. Values[n] \subseteq Values[n + 1]
      BY ValuesStep
    <3> QED
      BY <3>1, <3>2
  <2>2. CASE m = n + 1
    BY <2>2
  <2> QED
    BY <2>1, <2>2
<1> HIDE DEF T
<1>3. \A n \in Nat : n \in T
  BY <1>1, <1>2, Induction
<1> QED
  BY <1>3 DEF T

\* How deep a value is nested.
Depth == [v \in Value |-> CHOOSE d \in Nat :
            v \in Values[d] /\ \A k \in Nat : v \in Values[k] => d <= k]

LEMMA DepthLeast ==
  /\ Depth \in [Value -> Nat]
  /\ \A v \in Value : /\ v \in Values[Depth[v]] /\ Depth[v] <= MaxDepth
                      /\ \A k \in Nat : v \in Values[k] => Depth[v] <= k
<1>1. ASSUME NEW v \in Value
      PROVE  /\ Depth[v] \in Nat
             /\ v \in Values[Depth[v]] /\ Depth[v] <= MaxDepth
             /\ \A k \in Nat : v \in Values[k] => Depth[v] <= k
  <2> DEFINE C == {d \in Nat : v \in Values[d]}
  <2>1. MaxDepth \in C
    BY DepthAssumption DEF Value
  <2>2. C \in SUBSET Nat /\ C # {}
    BY <2>1
  <2>3. \E d \in C : \A k \in C : d <= k
    <3> HIDE DEF C
    <3> QED
      BY <2>2, LeastNatural
  <2>4. \E d \in Nat : v \in Values[d] /\ \A k \in Nat : v \in Values[k] => d <= k
    BY <2>3
  <2> DEFINE d == CHOOSE d \in Nat : v \in Values[d] /\ \A k \in Nat : v \in Values[k] => d <= k
  <2>5. d \in Nat /\ v \in Values[d] /\ \A k \in Nat : v \in Values[k] => d <= k
    <3> HIDE DEF C
    <3> QED
      BY <2>4, Zenon
  <2>6. Depth[v] = d
    BY DEF Depth
  <2> HIDE DEF d
  <2>7. d <= MaxDepth
    BY <2>1, <2>5
  <2> QED
    BY <2>5, <2>6, <2>7
<1>2. Depth \in [Value -> Nat]
  <2>1. Depth = [v \in Value |-> Depth[v]]
    BY DEF Depth
  <2> QED
    BY <1>1, <2>1
<1> QED
  BY <1>1, <1>2

LEMMA DepthBelow ==
  ASSUME NEW v \in Value
  PROVE  \E inner : /\ v \in Over(inner)
                    /\ \A w \in inner : w \in Value /\ Depth[w] < Depth[v]
<1> DEFINE d == Depth[v]
<1>1. d \in Nat /\ v \in Values[d] /\ d <= MaxDepth
  BY DepthLeast
<1> HIDE DEF d
<1>2. CASE d = 0
  <2>1. v \in Over({})
    BY <1>1, <1>2, ValuesAt
  <2> QED
    BY <2>1
<1>3. CASE d # 0
  <2>1. d - 1 \in Nat /\ (d - 1) + 1 = d /\ d - 1 <= MaxDepth
    BY <1>1, <1>3, DepthAssumption
  <2>2. v \in Over(Values[d - 1])
    BY <1>1, <2>1, ValuesAt
  <2>3. Values[d - 1] \subseteq Value
    BY <2>1, DepthAssumption, ValuesMonotone DEF Value
  <2>4. ASSUME NEW w \in Values[d - 1] PROVE w \in Value /\ Depth[w] < d
    <3>1. w \in Value
      BY <2>3
    <3>2. Depth[w] \in Nat /\ Depth[w] <= d - 1
      BY <2>1, <3>1, DepthLeast
    <3> QED
      BY <1>1, <3>1, <3>2
  <2> QED
    BY <2>2, <2>4 DEF d
<1> QED
  BY <1>2, <1>3

LEMMA OverShape ==
  ASSUME NEW inner, NEW v \in Over(inner)
  PROVE  /\ v.type \in {"string", "number", "literal", "array", "object"}
         /\ v.type = "string" => v.text \in Bytes /\ v = String(v.text)
         /\ v.type = "number" => v.number \in Nat /\ v = Number(v.number)
         /\ v.type = "literal" => v.literal \in DOMAIN Literal /\ v = Plain(v.literal)
         /\ v.type = "array" => v.items \in Seq(inner) /\ v = Array(v.items)
         /\ v.type = "object" => /\ v.members \in Seq([name : Bytes, value : inner])
                                 /\ v = Object(v.members)
<1>1. CASE v \in [type : {"string"}, text : Bytes]
  BY <1>1 DEF String
<1>2. CASE v \in [type : {"number"}, number : Nat]
  BY <1>2 DEF Number
<1>3. CASE v \in [type : {"literal"}, literal : DOMAIN Literal]
  BY <1>3 DEF Plain
<1>4. CASE v \in [type : {"array"}, items : Seq(inner)]
  BY <1>4 DEF Array
<1>5. CASE v \in [type : {"object"}, members : Seq([name : Bytes, value : inner])]
  BY <1>5 DEF Object
<1> QED
  BY <1>1, <1>2, <1>3, <1>4, <1>5, Zenon DEF Over

\* The parts of a value are values, and nested less deep.
LEMMA Parts ==
  ASSUME NEW v \in Value
  PROVE  /\ v.type \in {"string", "number", "literal", "array", "object"}
         /\ v.type = "string" => v.text \in Bytes
         /\ v.type = "number" => v.number \in Nat
         /\ v.type = "literal" => v.literal \in DOMAIN Literal
         /\ v.type = "array" =>
              /\ v.items \in Seq(Value)
              /\ \A i \in DOMAIN v.items : Depth[v.items[i]] < Depth[v]
         /\ v.type = "object" =>
              /\ v.members \in Seq([name : Bytes, value : Value])
              /\ \A i \in DOMAIN v.members : Depth[v.members[i].value] < Depth[v]
<1>1. PICK inner : v \in Over(inner) /\ \A w \in inner : w \in Value /\ Depth[w] < Depth[v]
  BY DepthBelow
<1>2. /\ v.type \in {"string", "number", "literal", "array", "object"}
      /\ v.type = "string" => v.text \in Bytes
      /\ v.type = "number" => v.number \in Nat
      /\ v.type = "literal" => v.literal \in DOMAIN Literal
      /\ v.type = "array" => v.items \in Seq(inner)
      /\ v.type = "object" => v.members \in Seq([name : Bytes, value : inner])
  BY <1>1, OverShape
<1>3. ASSUME v.type = "array"
      PROVE  /\ v.items \in Seq(Value)
             /\ \A i \in DOMAIN v.items : Depth[v.items[i]] < Depth[v]
  <2>1. v.items \in Seq(inner) /\ inner \subseteq Value
    BY <1>1, <1>2, <1>3
  <2>2. \A i \in DOMAIN v.items : v.items[i] \in inner
    BY <2>1
  <2> QED
    BY <1>1, <2>1, <2>2, SeqMonotonic
<1>4. ASSUME v.type = "object"
      PROVE  /\ v.members \in Seq([name : Bytes, value : Value])
             /\ \A i \in DOMAIN v.members : Depth[v.members[i].value] < Depth[v]
  <2> DEFINE P == [name : Bytes, value : inner]
             Q == [name : Bytes, value : Value]
  <2>1. v.members \in Seq(P) /\ P \subseteq Q /\ \A p \in P : p.value \in inner
    BY <1>1, <1>2, <1>4
  <2> HIDE DEF P, Q
  <2>2. \A i \in DOMAIN v.members : v.members[i] \in P
    BY <2>1
  <2>3. v.members \in Seq(Q)
    BY <2>1, SeqMonotonic
  <2> QED
    BY <1>1, <2>1, <2>2, <2>3 DEF Q
<1> QED
  BY <1>2, <1>3, <1>4

LEMMA UnderMember ==
  ASSUME NEW S, NEW members \in Seq([name : Bytes, value : S]), NEW i \in DOMAIN members
  PROVE  \E j \in DOMAIN members : /\ Under(members, members[i].name) = members[j].value
                                   /\ members[j].name = members[i].name
<1> DEFINE j == CHOOSE j \in DOMAIN members : members[j].name = members[i].name
<1>1. j \in DOMAIN members /\ members[j].name = members[i].name
  BY Zenon
<1>2. Under(members, members[i].name) = members[j].value
  BY DEF Under
<1> HIDE DEF j
<1> QED
  BY <1>1, <1>2

-----------------------------------------------------------------------------
(* What is written. *)

LEMMA DecimalEquation ==
  /\ Decimal \in [Nat -> Bytes]
  /\ \A n \in Nat : Decimal[n] = (IF n < 10 THEN <<48 + n>>
                                  ELSE Append(Decimal[n \div 10], 48 + (n % 10)))
<1> DEFINE e(n, g) == IF n < 10 THEN <<48 + n>> ELSE Append(g[n \div 10], 48 + (n % 10))
           rank == [n \in Nat |-> n]
           step == [n \in Nat |-> [g \in [Nat -> Bytes] |-> e(n, g)]]
<1>0. \A n \in Nat : ~(n < 10) => n \div 10 \in Nat /\ n \div 10 < n
  OBVIOUS
<1>1. ASSUME NEW n \in Nat, NEW g, \A m \in Nat : m < n => g[m] \in Bytes
      PROVE  e(n, g) \in Bytes
  <2>1. CASE n < 10
    <3>1. 48 + n \in Byte
      BY <2>1 DEF Byte
    <3>2. e(n, g) = <<48 + n>>
      BY <2>1
    <3>3. <<48 + n>> \in Seq(Byte)
      BY <3>1
    <3> QED
      BY <3>2, <3>3 DEF Bytes
  <2>2. CASE ~(n < 10)
    <3>1. 48 + (n % 10) \in Byte /\ n \div 10 \in Nat /\ n \div 10 < n
      BY <1>0, <2>2 DEF Byte
    <3>2. e(n, g) = Append(g[n \div 10], 48 + (n % 10))
      BY <2>2
    <3>3. g[n \div 10] \in Seq(Byte)
      BY <1>1, <3>1 DEF Bytes
    <3> HIDE DEF e
    <3> QED
      BY <3>1, <3>2, <3>3, AppendProperties DEF Bytes
  <2> QED
    BY <2>1, <2>2
<1>2. ASSUME NEW n \in Nat, NEW g, NEW h, \A m \in Nat : m < n => g[m] = h[m]
      PROVE  e(n, g) = e(n, h)
  BY <1>0, <1>2
<1>3. rank \in [Nat -> Nat] /\ \A n \in Nat : rank[n] = n
  OBVIOUS
<1> HIDE DEF e, rank
<1>4. Local(Nat, Bytes, rank, step)
  <2> SUFFICES ASSUME NEW n \in Nat, NEW g \in [Nat -> Bytes], NEW h \in [Nat -> Bytes],
                      \A m \in Nat : rank[m] < rank[n] => g[m] = h[m]
               PROVE  e(n, g) = e(n, h)
    BY DEF Local
  <2> QED
    BY <1>2, <1>3
<1>5. Descends(Nat, Bytes, rank, step)
  <2>1. step \in [Nat -> [[Nat -> Bytes] -> Bytes]]
    BY <1>1
  <2>2. <<>> \in Bytes
    BY DEF Bytes
  <2> HIDE DEF step
  <2> QED
    BY <1>3, <1>4, <2>1, <2>2 DEF Descends
<1>6. PICK f \in [Nat -> Bytes] : \A n \in Nat : f[n] = step[n][f]
  <2> HIDE DEF step
  <2> QED
    BY <1>5, Recursion DEF Recursive
<1>7. f = [n \in Nat |-> e(n, f)]
  <2>1. \A n \in Nat : f[n] = e(n, f)
    BY <1>6
  <2>2. f = [n \in Nat |-> f[n]]
    OBVIOUS
  <2> QED
    BY <2>1, <2>2
<1>8. Decimal = [n \in Nat |-> e(n, Decimal)]
  BY <1>7, Zenon DEF Decimal, e
<1>9. \A n \in Nat : Decimal[n] = e(n, Decimal)
  BY <1>8
<1> DEFINE T == {n \in Nat : Decimal[n] \in Bytes}
<1>10. Nat \subseteq T
  <2>1. ASSUME NEW n \in Nat, \A m \in Nat : rank[m] < rank[n] => m \in T
        PROVE  n \in T
    BY <1>1, <1>3, <1>9, <2>1
  <2> HIDE DEF T
  <2> QED
    BY <1>3, <2>1, RankInduction
<1>11. Decimal \in [Nat -> Bytes]
  <2>1. Decimal = [n \in Nat |-> Decimal[n]]
    BY <1>8
  <2> QED
    BY <1>10, <2>1
<1> QED
  BY <1>9, <1>11 DEF e

LEMMA BytesFacts ==
  /\ <<>> \in Bytes /\ Len(<<>>) = 0
  /\ \A b \in Byte : <<b>> \in Bytes /\ Len(<<b>>) = 1
  /\ \A a, b \in Byte : <<a, b>> \in Bytes /\ Len(<<a, b>>) = 2
  /\ \A s, t \in Bytes : s \o t \in Bytes /\ Len(s \o t) = Len(s) + Len(t)
  /\ \A s \in Bytes : Len(s) \in Nat
<1>1. \A s, t \in Seq(Byte) : s \o t \in Seq(Byte) /\ Len(s \o t) = Len(s) + Len(t)
  BY ConcatProperties
<1>2. \A s \in Seq(Byte) : Len(s) \in Nat
  OBVIOUS
<1>3. \A b \in Byte : <<b>> \in Seq(Byte) /\ Len(<<b>>) = 1
  OBVIOUS
<1>4. \A a, b \in Byte : <<a, b>> \in Seq(Byte) /\ Len(<<a, b>>) = 2
  OBVIOUS
<1>5. <<>> \in Seq(Byte) /\ Len(<<>>) = 0
  OBVIOUS
<1> QED
  BY <1>1, <1>2, <1>3, <1>4, <1>5 DEF Bytes

LEMMA Marks ==
  /\ QUOTE \in Byte /\ COMMA \in Byte /\ COLON \in Byte /\ BACKSLASH \in Byte
  /\ SLASH \in Byte /\ LETTER_U \in Byte
  /\ Opening.array \in Byte /\ Opening.object \in Byte
  /\ Closing.array \in Byte /\ Closing.object \in Byte
BY DEF Byte, QUOTE, COMMA, COLON, BACKSLASH, SLASH, LETTER_U, Opening, Closing

LEMMA LetterType ==
  /\ DOMAIN Letter = {8, 9, 10, 12, 13, 34, 92}
  /\ \A b \in DOMAIN Letter : b \in Byte /\ Letter[b] \in Byte /\ Letter[b] # 0
<1>1. DOMAIN Letter = {8, 9, 10, 12, 13, 34, 92}
  BY DEF Letter, QUOTE, BACKSLASH
<1>2. /\ Letter[8] = 98 /\ Letter[9] = 116 /\ Letter[10] = 110 /\ Letter[12] = 102
      /\ Letter[13] = 114 /\ Letter[34] = 34 /\ Letter[92] = 92
  BY DEF Letter, QUOTE, BACKSLASH
<1> QED
  BY <1>1, <1>2 DEF Byte

LEMMA EscapedType ==
  ASSUME NEW b \in Byte
  PROVE  Escaped(b) \in Bytes
         /\ Len(Escaped(b)) = (IF b \in {34, 92, 8, 12, 10, 13, 9} THEN 2 ELSE 1)
<1>1. CASE b \in DOMAIN Letter
  BY <1>1, Marks, LetterType, BytesFacts DEF Escaped
<1>2. CASE b \notin DOMAIN Letter
  BY <1>2, LetterType, BytesFacts DEF Escaped
<1> QED
  BY <1>1, <1>2

\* A string is written between quotes, and as long as parson_strlen says.
LEMMA WrittenStringType ==
  ASSUME NEW s \in Bytes
  PROVE  /\ WrittenString(s) \in Bytes
         /\ EscapedLength(s) \in Nat
         /\ Len(WrittenString(s)) = EscapedLength(s) + 2
<1> DEFINE parts == [i \in DOMAIN s |-> Escaped(s[i])]
           sizes == [i \in DOMAIN s |-> IF s[i] \in {34, 92, 8, 12, 10, 13, 9} THEN 2 ELSE 1]
           n == Len(s)
<1>1. n \in Nat /\ DOMAIN s = 1 .. n /\ \A i \in 1 .. n : s[i] \in Byte
  BY DEF Bytes
<1>2. \A i \in 1 .. n : Escaped(s[i]) \in Seq(Byte) /\ Len(Escaped(s[i])) = sizes[i]
  BY <1>1, EscapedType DEF Bytes
<1>3. parts \in Seq(Seq(Byte)) /\ Len(parts) = n /\ \A i \in 1 .. n : parts[i] = Escaped(s[i])
  <2> HIDE DEF n, sizes
  <2> QED
    BY <1>1, <1>2
<1>4. sizes \in Seq(Nat) /\ Len(sizes) = n
  <2> HIDE DEF n
  <2> QED
    BY <1>1
<1>5. \A i \in 1 .. Len(parts) : sizes[i] = Len(parts[i])
  <2> HIDE DEF parts, sizes, n
  <2> QED
    BY <1>2, <1>3
<1>6. Total(sizes) = EscapedLength(s)
  BY DEF EscapedLength
<1> HIDE DEF parts, sizes, n
<1>7. Seqs!FlattenSeq(parts) \in Seq(Byte) /\ Len(Seqs!FlattenSeq(parts)) = Total(sizes)
      /\ Total(sizes) \in Nat
  BY <1>3, <1>4, <1>5, FlattenType, FlattenLength, TotalType
<1>8. WrittenString(s) = <<QUOTE>> \o Seqs!FlattenSeq(parts) \o <<QUOTE>>
  BY DEF WrittenString, parts
<1> QED
  BY <1>6, <1>7, <1>8, Marks, BytesFacts DEF Bytes

\* Texts with commas between them.
LEMMA ListedType ==
  ASSUME NEW texts \in Seq(Bytes), NEW sizes \in Seq(Nat), Len(sizes) = Len(texts),
         \A i \in 1 .. Len(texts) : sizes[i] = Len(texts[i])
  PROVE  /\ Listed(texts) \in Bytes
         /\ Len(Listed(texts)) = Total(sizes) + Separators(Len(texts), 1)
<1> DEFINE n == Len(texts)
           part(i) == IF i = 1 THEN texts[i] ELSE <<COMMA>> \o texts[i]
           parts == [i \in DOMAIN texts |-> part(i)]
           more == [i \in 1 .. n |-> sizes[i] + (IF i = 1 THEN 1 - 1 ELSE 1)]
<1>1. n \in Nat /\ DOMAIN texts = 1 .. n /\ \A i \in 1 .. n : texts[i] \in Bytes
  OBVIOUS
<1> HIDE DEF n
<1>2. /\ parts \in Seq(Bytes) /\ Len(parts) = n
      /\ \A i \in 1 .. n : parts[i] = IF i = 1 THEN texts[i] ELSE <<COMMA>> \o texts[i]
  <2>1. ASSUME NEW i \in 1 .. n PROVE part(i) \in Bytes
    <3>1. texts[i] \in Bytes /\ <<COMMA>> \o texts[i] \in Bytes
      BY <1>1, Marks, BytesFacts
    <3> QED
      BY <3>1
  <2> HIDE DEF part
  <2>2. parts \in Seq(Bytes) /\ Len(parts) = n /\ \A i \in 1 .. n : parts[i] = part(i)
    BY <1>1, <2>1
  <2> HIDE DEF parts
  <2> QED
    BY <2>2 DEF part
<1>3. sizes \in [1 .. n -> Nat]
  BY DEF n
<1>4. ASSUME NEW i \in 1 .. n PROVE sizes[i] + (IF i = 1 THEN 1 - 1 ELSE 1) \in Nat
  <2>1. sizes[i] \in Nat
    BY <1>3
  <2> QED
    BY <2>1
<1>5. more \in Seq(Nat) /\ Len(more) = n
  BY <1>1, <1>4
<1>6. \A i \in 1 .. n : more[i] = sizes[i] + (IF i = 1 THEN 1 - 1 ELSE 1)
  OBVIOUS
<1> HIDE DEF parts, more
<1>7. ASSUME NEW i \in 1 .. n PROVE more[i] = Len(parts[i])
  <2>1. texts[i] \in Bytes /\ sizes[i] = Len(texts[i])
    BY <1>1 DEF n
  <2>2. CASE i = 1
    <3>1. sizes[i] \in Nat
      BY <1>3
    <3>2. parts[i] = texts[i]
      BY <1>2, <2>2
    <3>3. more[i] = sizes[i] + 0
      BY <1>6, <2>2
    <3>4. more[i] = sizes[i]
      BY <3>1, <3>3
    <3> QED
      BY <2>1, <3>2, <3>4
  <2>3. CASE i # 1
    <3>1. parts[i] = <<COMMA>> \o texts[i]
      BY <1>2, <2>3
    <3>2. Len(<<COMMA>> \o texts[i]) = 1 + Len(texts[i]) /\ Len(texts[i]) \in Nat
      BY <2>1, Marks, BytesFacts
    <3>3. more[i] = sizes[i] + 1
      BY <1>6, <2>3
    <3> QED
      BY <2>1, <3>1, <3>2, <3>3
  <2> QED
    BY <2>2, <2>3
<1>8. Listed(texts) = Seqs!FlattenSeq(parts)
  BY DEF Listed, parts
<1>9. parts \in Seq(Seq(Byte))
  BY <1>2 DEF Bytes
<1>10. Seqs!FlattenSeq(parts) \in Seq(Byte)
  BY <1>9, FlattenType
<1>11. Len(Seqs!FlattenSeq(parts)) = Total(more)
  <2>1. Len(more) = Len(parts) /\ \A i \in 1 .. Len(parts) : more[i] = Len(parts[i])
    BY <1>2, <1>5, <1>7
  <2> QED
    BY <1>5, <1>9, <2>1, FlattenLength
<1>12. Total(more) = Total(sizes) + Separators(n, 1)
  <2>1. /\ Len(more) = Len(sizes) /\ 1 \in {1, 2}
        /\ \A i \in 1 .. Len(sizes) : more[i] = sizes[i] + (IF i = 1 THEN 1 - 1 ELSE 1)
    BY <1>5, <1>6 DEF n
  <2>2. Total(more) = Total(sizes) + Separators(Len(sizes), 1)
    BY <1>5, <2>1, TotalSeparated
  <2> QED
    BY <2>2 DEF n
<1> QED
  BY <1>8, <1>10, <1>11, <1>12 DEF Bytes, n

\* The serialiser, by what it writes of the parts.
WrittenBy(v, write) ==
  CASE v.type = "array" ->
         <<Opening.array>> \o Listed([i \in DOMAIN v.items |-> write[v.items[i]]])
           \o <<Closing.array>>
    [] v.type = "object" ->
         <<Opening.object>>
           \o Listed([i \in DOMAIN v.members |->
                        WrittenString(v.members[i].name) \o <<COLON>>
                          \o write[Under(v.members, v.members[i].name)]])
           \o <<Closing.object>>
    [] v.type = "string" -> WrittenString(v.text)
    [] v.type = "number" -> Decimal[v.number]
    [] v.type = "literal" -> Literal[v.literal]

LEMMA LiteralType ==
  /\ DOMAIN Literal = {"null", "true", "false"}
  /\ \A l \in DOMAIN Literal : /\ Literal[l] \in Bytes
                               /\ Len(Literal[l]) = IF l = "false" THEN 5 ELSE 4
<1>1. DOMAIN Literal = {"null", "true", "false"}
  BY DEF Literal
<1>2. /\ Literal["null"] = <<110, 117, 108, 108>>
      /\ Literal["true"] = <<116, 114, 117, 101>>
      /\ Literal["false"] = <<102, 97, 108, 115, 101>>
  BY DEF Literal
<1>3. /\ <<110, 117, 108, 108>> \in Seq(Byte) /\ Len(<<110, 117, 108, 108>>) = 4
      /\ <<116, 114, 117, 101>> \in Seq(Byte) /\ Len(<<116, 114, 117, 101>>) = 4
      /\ <<102, 97, 108, 115, 101>> \in Seq(Byte) /\ Len(<<102, 97, 108, 115, 101>>) = 5
  BY DEF Byte
<1>4. /\ Literal["null"] \in Bytes /\ Len(Literal["null"]) = 4
      /\ Literal["true"] \in Bytes /\ Len(Literal["true"]) = 4
      /\ Literal["false"] \in Bytes /\ Len(Literal["false"]) = 5
  BY <1>2, <1>3, ZenonT(30) DEF Bytes
<1> QED
  BY <1>1, <1>4

LEMMA WrittenByType ==
  ASSUME NEW v \in Value, NEW write,
         \A w \in Value : Depth[w] < Depth[v] => write[w] \in Bytes
  PROVE  WrittenBy(v, write) \in Bytes
<1>1. CASE v.type = "array"
  <2> DEFINE texts == [i \in DOMAIN v.items |-> write[v.items[i]]]
  <2>1. v.items \in Seq(Value) /\ \A i \in DOMAIN v.items : Depth[v.items[i]] < Depth[v]
    BY <1>1, Parts
  <2>2. \A i \in DOMAIN v.items : write[v.items[i]] \in Bytes
    <3>1. \A i \in DOMAIN v.items : v.items[i] \in Value
      BY <2>1
    <3> QED
      BY <2>1, <3>1
  <2>3. texts \in Seq(Bytes)
    BY <2>1, <2>2
  <2> DEFINE sizes == [i \in DOMAIN texts |-> Len(texts[i])]
  <2>4. sizes \in Seq(Nat) /\ Len(sizes) = Len(texts)
        /\ \A i \in 1 .. Len(texts) : sizes[i] = Len(texts[i])
    <3> HIDE DEF texts
    <3>1. \A i \in DOMAIN texts : Len(texts[i]) \in Nat
      BY <2>3, BytesFacts
    <3> QED
      BY <2>3, <3>1
  <2> HIDE DEF texts, sizes
  <2>5. Listed(texts) \in Bytes
    BY <2>3, <2>4, ListedType
  <2>6. WrittenBy(v, write) = <<Opening.array>> \o Listed(texts) \o <<Closing.array>>
    BY <1>1 DEF WrittenBy, texts
  <2> QED
    BY <2>5, <2>6, Marks, BytesFacts
<1>2. CASE v.type = "object"
  <2> DEFINE text(i) == WrittenString(v.members[i].name) \o <<COLON>>
                          \o write[Under(v.members, v.members[i].name)]
             texts == [i \in DOMAIN v.members |-> text(i)]
  <2>1. /\ v.members \in Seq([name : Bytes, value : Value])
        /\ \A i \in DOMAIN v.members : Depth[v.members[i].value] < Depth[v]
    BY <1>2, Parts
  <2>2. ASSUME NEW i \in DOMAIN v.members PROVE text(i) \in Bytes
    <3>1. PICK j \in DOMAIN v.members :
            Under(v.members, v.members[i].name) = v.members[j].value
      BY <2>1, UnderMember
    <3>2. v.members[j].value \in Value /\ v.members[i].name \in Bytes
      <4> DEFINE R == [name : Bytes, value : Value]
      <4>1. v.members[i] \in R /\ v.members[j] \in R
        <5>1. v.members \in Seq(R) /\ i \in DOMAIN v.members /\ j \in DOMAIN v.members
          BY <2>1
        <5> HIDE DEF R
        <5> QED
          BY <5>1
      <4> QED
        BY <4>1
    <3>3. write[v.members[j].value] \in Bytes
      BY <2>1, <3>2
    <3>4. WrittenString(v.members[i].name) \in Bytes
      BY <3>2, WrittenStringType
    <3> QED
      BY <3>1, <3>3, <3>4, Marks, BytesFacts
  <2> HIDE DEF text
  <2>3. texts \in Seq(Bytes)
    BY <2>1, <2>2
  <2> DEFINE sizes == [i \in DOMAIN texts |-> Len(texts[i])]
  <2>4. sizes \in Seq(Nat) /\ Len(sizes) = Len(texts)
        /\ \A i \in 1 .. Len(texts) : sizes[i] = Len(texts[i])
    <3> HIDE DEF texts
    <3>1. \A i \in DOMAIN texts : Len(texts[i]) \in Nat
      BY <2>3, BytesFacts
    <3> QED
      BY <2>3, <3>1
  <2> HIDE DEF texts, sizes
  <2>5. Listed(texts) \in Bytes
    BY <2>3, <2>4, ListedType
  <2>6. WrittenBy(v, write) = <<Opening.object>> \o Listed(texts) \o <<Closing.object>>
    BY <1>2 DEF WrittenBy, texts, text
  <2> QED
    BY <2>5, <2>6, Marks, BytesFacts
<1>3. CASE v.type = "string"
  <2>1. v.text \in Bytes /\ WrittenBy(v, write) = WrittenString(v.text)
    BY <1>3, Parts DEF WrittenBy
  <2> QED
    BY <2>1, WrittenStringType
<1>4. CASE v.type = "number"
  <2>1. v.number \in Nat /\ WrittenBy(v, write) = Decimal[v.number]
    BY <1>4, Parts DEF WrittenBy
  <2> QED
    BY <2>1, DecimalEquation
<1>5. CASE v.type = "literal"
  <2>1. v.literal \in DOMAIN Literal /\ WrittenBy(v, write) = Literal[v.literal]
    BY <1>5, Parts DEF WrittenBy
  <2> QED
    BY <2>1, LiteralType
<1> QED
  BY <1>1, <1>2, <1>3, <1>4, <1>5, Parts

\* The parts of a value that its text and its size are made of.
LEMMA PartsBelow ==
  ASSUME NEW v \in Value
  PROVE  /\ v.type = "array" => \A i \in DOMAIN v.items :
              v.items[i] \in Value /\ Depth[v.items[i]] < Depth[v]
         /\ v.type = "object" => \A i \in DOMAIN v.members :
              /\ v.members[i].name \in Bytes
              /\ v.members[i].value \in Value /\ Depth[v.members[i].value] < Depth[v]
              /\ Under(v.members, v.members[i].name) \in Value
              /\ Depth[Under(v.members, v.members[i].name)] < Depth[v]
<1>1. ASSUME v.type = "array", NEW i \in DOMAIN v.items
      PROVE  v.items[i] \in Value /\ Depth[v.items[i]] < Depth[v]
  <2>1. v.items \in Seq(Value) /\ \A k \in DOMAIN v.items : Depth[v.items[k]] < Depth[v]
    BY <1>1, Parts
  <2> QED
    BY <2>1
<1>2. ASSUME v.type = "object", NEW i \in DOMAIN v.members
      PROVE  /\ v.members[i].name \in Bytes /\ v.members[i].value \in Value
             /\ Depth[v.members[i].value] < Depth[v]
             /\ Under(v.members, v.members[i].name) \in Value
             /\ Depth[Under(v.members, v.members[i].name)] < Depth[v]
  <2> DEFINE R == [name : Bytes, value : Value]
  <2>1. v.members \in Seq(R) /\ \A k \in DOMAIN v.members : Depth[v.members[k].value] < Depth[v]
    BY <1>2, Parts
  <2>2. \A r \in R : r.name \in Bytes /\ r.value \in Value
    OBVIOUS
  <2>3. PICK j \in DOMAIN v.members :
          Under(v.members, v.members[i].name) = v.members[j].value
    BY <2>1, UnderMember
  <2> HIDE DEF R
  <2>4. v.members[i] \in R /\ v.members[j] \in R
    BY <1>2, <2>1
  <2> QED
    BY <1>2, <2>1, <2>2, <2>3, <2>4
<1> QED
  BY <1>1, <1>2

LEMMA WrittenByLocal ==
  ASSUME NEW v \in Value, NEW g, NEW h,
         \A w \in Value : Depth[w] < Depth[v] => g[w] = h[w]
  PROVE  WrittenBy(v, g) = WrittenBy(v, h)
<1>1. CASE v.type = "array"
  <2>1. \A i \in DOMAIN v.items : g[v.items[i]] = h[v.items[i]]
    BY <1>1, PartsBelow
  <2>2. [i \in DOMAIN v.items |-> g[v.items[i]]] = [i \in DOMAIN v.items |-> h[v.items[i]]]
    BY <2>1
  <2> QED
    BY <1>1, <2>2 DEF WrittenBy
<1>2. CASE v.type = "object"
  <2> DEFINE text(f, i) == WrittenString(v.members[i].name) \o <<COLON>>
                             \o f[Under(v.members, v.members[i].name)]
  <2>1. \A i \in DOMAIN v.members : text(g, i) = text(h, i)
    BY <1>2, PartsBelow
  <2> HIDE DEF text
  <2>2. [i \in DOMAIN v.members |-> text(g, i)] = [i \in DOMAIN v.members |-> text(h, i)]
    BY <2>1
  <2> QED
    BY <1>2, <2>2 DEF WrittenBy, text
<1> QED
  BY <1>1, <1>2, Parts DEF WrittenBy

LEMMA WrittenEquation ==
  /\ Written \in [Value -> Bytes]
  /\ \A v \in Value : Written[v] = WrittenBy(v, Written)
<1> DEFINE step == [v \in Value |-> [g \in [Value -> Bytes] |-> WrittenBy(v, g)]]
<1>1. Descends(Value, Bytes, Depth, step)
  <2>1. step \in [Value -> [[Value -> Bytes] -> Bytes]]
    BY WrittenByType
  <2>2. Local(Value, Bytes, Depth, step)
    BY WrittenByLocal DEF Local
  <2> HIDE DEF step
  <2> QED
    BY <2>1, <2>2, BytesFacts, DepthLeast DEF Descends
<1>2. PICK f \in [Value -> Bytes] : \A v \in Value : f[v] = step[v][f]
  <2> HIDE DEF step
  <2> QED
    BY <1>1, Recursion DEF Recursive
<1>3. f = [v \in Value |-> WrittenBy(v, f)]
  <2>1. \A v \in Value : f[v] = WrittenBy(v, f)
    BY <1>2
  <2>2. f = [v \in Value |-> f[v]]
    OBVIOUS
  <2> QED
    BY <2>1, <2>2
<1>4. Written = [v \in Value |-> WrittenBy(v, Written)]
  BY <1>3, Zenon DEF Written, WrittenBy
<1>5. \A v \in Value : Written[v] = WrittenBy(v, Written)
  BY <1>4
<1> DEFINE T == {v \in Value : Written[v] \in Bytes}
<1>6. Value \subseteq T
  <2>1. ASSUME NEW v \in Value, \A w \in Value : Depth[w] < Depth[v] => w \in T
        PROVE  v \in T
    BY <1>5, <2>1, WrittenByType
  <2> HIDE DEF T
  <2> QED
    BY <2>1, DepthLeast, RankInduction
<1>7. Written \in [Value -> Bytes]
  <2>1. Written = [v \in Value |-> Written[v]]
    BY <1>4
  <2> QED
    BY <1>6, <2>1
<1> QED
  BY <1>5, <1>7

\* The size of a value, by that of its parts.
SizeBy(v, size) ==
  CASE v.type = "array" ->
         2 + Separators(Len(v.items), 1)
           + Total([i \in DOMAIN v.items |-> size[v.items[i]]])
    [] v.type = "object" ->
         2 + Separators(Len(v.members), 2)
           + Total([i \in DOMAIN v.members |->
                      EscapedLength(v.members[i].name) + 2
                        + size[Under(v.members, v.members[i].name)]])
    [] v.type = "string" -> EscapedLength(v.text) + 2
    [] v.type = "number" -> Len(Decimal[v.number])
    [] v.type = "literal" -> IF v.literal = "false" THEN 5 ELSE 4

\* The step of the size: it is that of the text, if it is so for the parts.
LEMMA SizeByExact ==
  ASSUME NEW v \in Value, NEW size,
         \A w \in Value : Depth[w] < Depth[v] => size[w] = Len(Written[w])
  PROVE  SizeBy(v, size) = Len(Written[v])
<1>0. \A w \in Value : Written[w] \in Bytes
  BY WrittenEquation
<1>1. CASE v.type = "array"
  <2> DEFINE texts == [i \in DOMAIN v.items |-> Written[v.items[i]]]
             sizes == [i \in DOMAIN v.items |-> size[v.items[i]]]
             n == Len(v.items)
  <2>1. n \in Nat /\ DOMAIN v.items = 1 .. n
    BY <1>1, Parts
  <2>2. \A i \in DOMAIN v.items :
          /\ Written[v.items[i]] \in Bytes
          /\ size[v.items[i]] = Len(Written[v.items[i]])
          /\ size[v.items[i]] \in Nat
    BY <1>0, <1>1, PartsBelow, BytesFacts
  <2> HIDE DEF n
  <2>3. texts \in Seq(Bytes) /\ Len(texts) = n
    BY <2>1, <2>2
  <2>4. sizes \in Seq(Nat) /\ Len(sizes) = n
    BY <2>1, <2>2
  <2>5. \A i \in 1 .. n : sizes[i] = Len(texts[i])
    BY <2>1, <2>2
  <2>6. Written[v] = <<Opening.array>> \o Listed(texts) \o <<Closing.array>>
    BY <1>1, WrittenEquation DEF WrittenBy
  <2>7. SizeBy(v, size) = 2 + Separators(n, 1) + Total(sizes)
    BY <1>1 DEF SizeBy, n
  <2> HIDE DEF texts, sizes
  <2>8. Listed(texts) \in Bytes /\ Len(Listed(texts)) = Total(sizes) + Separators(n, 1)
    BY <2>3, <2>4, <2>5, ListedType
  <2>9. Len(Written[v]) = 1 + Len(Listed(texts)) + 1
    <3>1. Len(<<Opening.array>> \o Listed(texts)) = 1 + Len(Listed(texts))
          /\ <<Opening.array>> \o Listed(texts) \in Bytes
      BY <2>8, Marks, BytesFacts
    <3> QED
      BY <2>6, <3>1, Marks, BytesFacts
  <2>10. Total(sizes) \in Nat /\ Separators(n, 1) \in Nat
    BY <2>1, <2>4, TotalType DEF Separators
  <2> QED
    BY <2>7, <2>8, <2>9, <2>10
<1>2. CASE v.type = "object"
  <2> DEFINE text(i) == WrittenString(v.members[i].name) \o <<COLON>>
                          \o Written[Under(v.members, v.members[i].name)]
             each(i) == EscapedLength(v.members[i].name) + 2
                          + size[Under(v.members, v.members[i].name)]
             texts == [i \in DOMAIN v.members |-> text(i)]
             sizes == [i \in DOMAIN v.members |-> each(i)]
             longer == [i \in DOMAIN v.members |-> each(i) + 1]
             n == Len(v.members)
  <2>1. n \in Nat /\ DOMAIN v.members = 1 .. n
    BY <1>2, Parts
  <2>2. ASSUME NEW i \in DOMAIN v.members
        PROVE  text(i) \in Bytes /\ each(i) \in Nat /\ Len(text(i)) = each(i) + 1
    <3> DEFINE w == Under(v.members, v.members[i].name)
               name == v.members[i].name
    <3>1. name \in Bytes /\ w \in Value /\ Depth[w] < Depth[v]
      BY <1>2, PartsBelow
    <3>2. text(i) = WrittenString(name) \o <<COLON>> \o Written[w]
          /\ each(i) = EscapedLength(name) + 2 + size[w]
      OBVIOUS
    <3> HIDE DEF w, name
    <3>3. size[w] = Len(Written[w]) /\ Written[w] \in Bytes /\ Len(Written[w]) \in Nat
      BY <1>0, <3>1, BytesFacts
    <3>4. /\ WrittenString(name) \in Bytes /\ EscapedLength(name) \in Nat
          /\ Len(WrittenString(name)) = EscapedLength(name) + 2
      BY <3>1, WrittenStringType
    <3>5. WrittenString(name) \o <<COLON>> \in Bytes
          /\ Len(WrittenString(name) \o <<COLON>>) = EscapedLength(name) + 2 + 1
      BY <3>4, Marks, BytesFacts
    <3>6. WrittenString(name) \o <<COLON>> \o Written[w] \in Bytes
          /\ Len(WrittenString(name) \o <<COLON>> \o Written[w])
               = EscapedLength(name) + 2 + 1 + Len(Written[w])
      <4> DEFINE a == WrittenString(name) \o <<COLON>>
      <4>1. a \in Bytes /\ Len(a) = EscapedLength(name) + 2 + 1
        BY <3>5
      <4> HIDE DEF a
      <4>2. a \o Written[w] \in Bytes /\ Len(a \o Written[w]) = Len(a) + Len(Written[w])
        BY <3>3, <4>1, BytesFacts
      <4> QED
        BY <4>1, <4>2 DEF a
    <3> HIDE DEF text, each
    <3>7. text(i) \in Bytes
      BY <3>2, <3>6
    <3>8. Len(text(i)) = EscapedLength(name) + 2 + 1 + Len(Written[w])
      BY <3>2, <3>6
    <3>9. each(i) = EscapedLength(name) + 2 + Len(Written[w])
      BY <3>2, <3>3
    <3> DEFINE a == EscapedLength(name)
               b == Len(Written[w])
    <3>10. a \in Nat /\ b \in Nat /\ Len(text(i)) = a + 2 + 1 + b /\ each(i) = a + 2 + b
      BY <3>3, <3>4, <3>8, <3>9
    <3> HIDE DEF a, b
    <3>11. each(i) \in Nat /\ Len(text(i)) = each(i) + 1
      BY <3>10
    <3> QED
      BY <3>7, <3>11
  <2> HIDE DEF n, text, each
  <2>3. texts \in Seq(Bytes) /\ Len(texts) = n
    BY <2>1, <2>2
  <2>4. sizes \in Seq(Nat) /\ Len(sizes) = n
    BY <2>1, <2>2
  <2>5. longer \in Seq(Nat) /\ Len(longer) = n
    BY <2>1, <2>2
  <2>6. \A i \in 1 .. n : /\ longer[i] = Len(texts[i])
                          /\ longer[i] = sizes[i] + 1 /\ sizes[i] \in Nat
    BY <2>1, <2>2
  <2>7. Written[v] = <<Opening.object>> \o Listed(texts) \o <<Closing.object>>
    BY <1>2, WrittenEquation DEF WrittenBy, text
  <2>8. SizeBy(v, size) = 2 + Separators(n, 2) + Total(sizes)
    BY <1>2 DEF SizeBy, n, each
  <2> HIDE DEF texts, sizes, longer
  <2>9. Listed(texts) \in Bytes /\ Len(Listed(texts)) = Total(longer) + Separators(n, 1)
    BY <2>3, <2>5, <2>6, ListedType
  <2>10. Total(longer) = Total(sizes) + n
    BY <2>1, <2>4, <2>5, <2>6, TotalLonger
  <2>11. Len(Written[v]) = 1 + Len(Listed(texts)) + 1
    <3>1. Len(<<Opening.object>> \o Listed(texts)) = 1 + Len(Listed(texts))
          /\ <<Opening.object>> \o Listed(texts) \in Bytes
      BY <2>9, Marks, BytesFacts
    <3> QED
      BY <2>7, <3>1, Marks, BytesFacts
  <2>12. Total(sizes) \in Nat
    BY <2>4, TotalType
  <2>13. Separators(n, 2) = Separators(n, 1) + n /\ Separators(n, 1) \in Nat
    BY <2>1 DEF Separators
  <2> QED
    BY <2>1, <2>8, <2>9, <2>10, <2>11, <2>12, <2>13
<1>3. CASE v.type = "string"
  <2>1. v.text \in Bytes /\ Written[v] = WrittenString(v.text)
    BY <1>3, Parts, WrittenEquation DEF WrittenBy
  <2>2. SizeBy(v, size) = EscapedLength(v.text) + 2
    BY <1>3 DEF SizeBy
  <2> QED
    BY <2>1, <2>2, WrittenStringType
<1>4. CASE v.type = "number"
  <2>1. Written[v] = Decimal[v.number]
    BY <1>4, WrittenEquation DEF WrittenBy
  <2>2. SizeBy(v, size) = Len(Decimal[v.number])
    BY <1>4 DEF SizeBy
  <2> QED
    BY <2>1, <2>2
<1>5. CASE v.type = "literal"
  <2>1. v.literal \in DOMAIN Literal /\ Written[v] = Literal[v.literal]
    BY <1>5, Parts, WrittenEquation DEF WrittenBy
  <2>2. SizeBy(v, size) = IF v.literal = "false" THEN 5 ELSE 4
    BY <1>5 DEF SizeBy
  <2> QED
    BY <2>1, <2>2, LiteralType
<1> QED
  BY <1>1, <1>2, <1>3, <1>4, <1>5, Parts

\* json_serialization_size is exact, for every value.
LEMMA SizeOfExact ==
  \A v \in Value : SizeOf[v] = Len(Written[v]) /\ SizeOf[v] \in Nat
<1> DEFINE size == [v \in Value |-> Len(Written[v])]
<1>1. \A v \in Value : size[v] = Len(Written[v])
  OBVIOUS
<1>2. size = [v \in Value |-> SizeBy(v, size)]
  <2>1. \A v \in Value : size[v] = SizeBy(v, size)
    <3> HIDE DEF size
    <3> QED
      BY <1>1, SizeByExact
  <2>2. size = [v \in Value |-> size[v]]
    OBVIOUS
  <2> HIDE DEF size
  <2> QED
    BY <2>1, <2>2
<1> HIDE DEF size
<1>3. SizeOf = [v \in Value |-> SizeBy(v, SizeOf)]
  BY <1>2, Zenon DEF SizeOf, SizeBy
<1>4. \A v \in Value : SizeOf[v] = SizeBy(v, SizeOf)
  BY <1>3
<1> DEFINE T == {v \in Value : SizeOf[v] = Len(Written[v])}
<1>5. Value \subseteq T
  <2>1. ASSUME NEW v \in Value, \A w \in Value : Depth[w] < Depth[v] => w \in T
        PROVE  v \in T
    <3>1. \A w \in Value : Depth[w] < Depth[v] => SizeOf[w] = Len(Written[w])
      BY <2>1
    <3>2. SizeBy(v, SizeOf) = Len(Written[v])
      BY <3>1, SizeByExact
    <3> QED
      BY <1>4, <3>2
  <2> HIDE DEF T
  <2> QED
    BY <2>1, DepthLeast, RankInduction
<1> QED
  BY <1>5, WrittenEquation, BytesFacts

-----------------------------------------------------------------------------
(* Positions of a text. *)

LEMMA AtType ==
  ASSUME NEW t \in Bytes, NEW i \in Index
  PROVE  At(t, i) \in Byte /\ (i > Len(t) => At(t, i) = 0)
<1>1. Len(t) \in Nat /\ \A k \in 1 .. Len(t) : t[k] \in Byte
  BY DEF Bytes
<1>2. CASE i <= Len(t)
  BY <1>1, <1>2 DEF At, Index
<1>3. CASE ~(i <= Len(t))
  <2>1. At(t, i) = 0
    BY <1>3 DEF At
  <2> QED
    BY <1>1, <1>3, <2>1 DEF Byte, Index
<1> QED
  BY <1>2, <1>3

\* Beyond stops at the first byte that is not skipped, or at the end.
LEMMA BeyondFirst ==
  ASSUME NEW t \in Bytes, NEW i \in Index, NEW skipped, 0 \notin skipped
  PROVE  /\ Beyond(t, i, skipped) \in Index /\ Beyond(t, i, skipped) >= i
         /\ At(t, Beyond(t, i, skipped)) \notin skipped
         /\ \A k \in i .. Beyond(t, i, skipped) - 1 : At(t, k) \in skipped
<1>0. Len(t) \in Nat /\ i \in Nat /\ i >= 1
  BY BytesFacts DEF Index
<1> DEFINE C == {j \in i .. i + Len(t) : At(t, j) \notin skipped}
<1>1. C \in SUBSET Nat
  BY <1>0
<1>2. i + Len(t) \in C
  <2>1. i + Len(t) \in Index /\ i + Len(t) > Len(t) /\ i + Len(t) \in i .. i + Len(t)
    BY <1>0 DEF Index
  <2>2. At(t, i + Len(t)) = 0
    BY <2>1, AtType
  <2> QED
    BY <2>1, <2>2
<1>3. PICK j \in C : \A k \in C : j <= k
  <2> HIDE DEF C
  <2> QED
    BY <1>1, <1>2, LeastNatural
<1>4. j \in i .. i + Len(t) /\ At(t, j) \notin skipped
  OBVIOUS
<1>5. \A k \in i .. j - 1 : At(t, k) \in skipped
  <2> SUFFICES ASSUME NEW k \in i .. j - 1, At(t, k) \notin skipped PROVE FALSE
    OBVIOUS
  <2>1. k \in i .. i + Len(t) /\ ~(j <= k)
    BY <1>0, <1>4
  <2>2. k \in C
    BY <2>1
  <2> QED
    BY <1>3, <2>1, <2>2
<1> DEFINE b == Beyond(t, i, skipped)
<1>6. b \in i .. i + Len(t) /\ At(t, b) \notin skipped /\ \A k \in i .. b - 1 : At(t, k) \in skipped
  <2>1. \E m \in i .. i + Len(t) : At(t, m) \notin skipped /\ \A k \in i .. m - 1 : At(t, k) \in skipped
    BY <1>4, <1>5
  <2> QED
    BY <2>1, Zenon DEF Beyond
<1> HIDE DEF b
<1>7. b \in Index /\ b >= i
  BY <1>0, <1>6 DEF Index
<1> QED
  BY <1>6, <1>7 DEF b

LEMMA BlankFirst ==
  ASSUME NEW t \in Bytes, NEW i \in Index
  PROVE  /\ Blank(t, i) \in Index /\ Blank(t, i) >= i
         /\ At(t, Blank(t, i)) \notin White
         /\ \A k \in i .. Blank(t, i) - 1 : At(t, k) \in White
<1>1. 0 \notin White
  BY DEF White
<1> QED
  BY <1>1, BeyondFirst DEF Blank

LEMMA DigitsEndFirst ==
  ASSUME NEW t \in Bytes, NEW i \in Index
  PROVE  /\ DigitsEnd(t, i) \in Index /\ DigitsEnd(t, i) >= i
         /\ At(t, DigitsEnd(t, i)) \notin Digit
         /\ \A k \in i .. DigitsEnd(t, i) - 1 : At(t, k) \in Digit
<1>1. 0 \notin Digit
  BY DEF Digit
<1> QED
  BY <1>1, BeyondFirst DEF DigitsEnd

\* One turn of skip_quotes.
EndBy(t, j, end) ==
  CASE At(t, j) = 0 -> j
    [] At(t, j) = QUOTE -> j + 1
    [] At(t, j) = BACKSLASH -> IF At(t, j + 1) = 0 THEN j + 1 ELSE end[j + 2]
    [] OTHER -> end[j + 1]

LEMMA EndByCases ==
  ASSUME NEW t, NEW j, NEW end
  PROVE  /\ At(t, j) = 0 => EndBy(t, j, end) = j
         /\ At(t, j) = QUOTE => EndBy(t, j, end) = j + 1
         /\ At(t, j) = BACKSLASH /\ At(t, j + 1) = 0 => EndBy(t, j, end) = j + 1
         /\ At(t, j) = BACKSLASH /\ At(t, j + 1) # 0 => EndBy(t, j, end) = end[j + 2]
         /\ At(t, j) \notin {0, QUOTE, BACKSLASH} => EndBy(t, j, end) = end[j + 1]
BY DEF EndBy, QUOTE, BACKSLASH

LEMMA QuoteEndEquation ==
  ASSUME NEW t \in Bytes
  PROVE  \E end \in [Index -> Index] :
           \A j \in Index : /\ end[j] = EndBy(t, j, end) /\ end[j] >= j
                               /\ QuoteEnd(t, j) = end[j]
<1> DEFINE rank == [j \in Index |-> IF j <= Len(t) THEN Len(t) + 1 - j ELSE 0]
           step == [j \in Index |-> [g \in [Index -> Index] |-> EndBy(t, j, g)]]
<1>0. Len(t) \in Nat
  BY BytesFacts
<1>1. rank \in [Index -> Nat]
  BY <1>0 DEF Index
<1>2. ASSUME NEW j \in Index, At(t, j) # 0
      PROVE  \A k \in Index : k > j => rank[k] < rank[j]
  <2>1. j <= Len(t)
    BY <1>0, <1>2, AtType DEF Index
  <2> QED
    BY <1>0, <2>1 DEF Index
<1>3. \A j \in Index : j + 1 \in Index /\ j + 2 \in Index /\ j + 1 > j /\ j + 2 > j
  BY DEF Index
<1> HIDE DEF rank
<1>4. ASSUME NEW j \in Index, NEW g,
             \A k \in Index : rank[k] < rank[j] => g[k] \in Index /\ g[k] >= k
      PROVE  EndBy(t, j, g) \in Index /\ EndBy(t, j, g) >= j
  <2>1. CASE At(t, j) = 0
    BY <2>1, EndByCases DEF Index
  <2>2. CASE At(t, j) # 0
    <3>1. /\ g[j + 1] \in Index /\ g[j + 1] >= j + 1
          /\ g[j + 2] \in Index /\ g[j + 2] >= j + 2
      BY <1>2, <1>3, <1>4, <2>2
    <3>2. EndBy(t, j, g) \in {j + 1, g[j + 1], g[j + 2]}
      BY <2>2, EndByCases
    <3> QED
      BY <1>3, <3>1, <3>2 DEF Index
  <2> QED
    BY <2>1, <2>2
<1>5. ASSUME NEW j \in Index, NEW g, NEW h,
             \A k \in Index : rank[k] < rank[j] => g[k] = h[k]
      PROVE  EndBy(t, j, g) = EndBy(t, j, h)
  <2>1. CASE At(t, j) = 0
    BY <2>1, EndByCases
  <2>2. CASE At(t, j) # 0
    <3>1. g[j + 1] = h[j + 1] /\ g[j + 2] = h[j + 2]
      BY <1>2, <1>3, <1>5, <2>2
    <3> QED
      BY <3>1 DEF EndBy
  <2> QED
    BY <2>1, <2>2
<1>6. ASSUME NEW j \in Index, NEW g \in [Index -> Index]
      PROVE  EndBy(t, j, g) \in Index
  <2>1. g[j + 1] \in Index /\ g[j + 2] \in Index /\ j + 1 \in Index
    BY <1>3
  <2>2. EndBy(t, j, g) \in {j, j + 1, g[j + 1], g[j + 2]}
    BY EndByCases
  <2> QED
    BY <2>1, <2>2
<1>7. Descends(Index, Index, rank, step)
  <2>1. step \in [Index -> [[Index -> Index] -> Index]]
    BY <1>6
  <2>2. Local(Index, Index, rank, step)
    BY <1>5 DEF Local
  <2>3. 1 \in Index
    BY DEF Index
  <2> HIDE DEF step
  <2> QED
    BY <1>1, <2>1, <2>2, <2>3 DEF Descends
<1>8. PICK f \in [Index -> Index] : \A j \in Index : f[j] = step[j][f]
  <2> HIDE DEF step
  <2> QED
    BY <1>7, Recursion DEF Recursive
<1>9. f = [j \in Index |-> EndBy(t, j, f)]
  <2>1. \A j \in Index : f[j] = EndBy(t, j, f)
    BY <1>8
  <2>2. f = [j \in Index |-> f[j]]
    OBVIOUS
  <2> QED
    BY <2>1, <2>2
<1> DEFINE end[j \in Index] ==
             CASE At(t, j) = 0 -> j
               [] At(t, j) = QUOTE -> j + 1
               [] At(t, j) = BACKSLASH -> IF At(t, j + 1) = 0 THEN j + 1 ELSE end[j + 2]
               [] OTHER -> end[j + 1]
<1>10. end = [j \in Index |-> EndBy(t, j, end)]
  BY <1>9, Zenon DEF EndBy
<1>11. \A j \in Index : QuoteEnd(t, j) = end[j]
  BY Zenon DEF QuoteEnd
<1> HIDE DEF end, step
<1>12. \A j \in Index : end[j] = EndBy(t, j, end)
  BY <1>10
<1> DEFINE T == {j \in Index : end[j] \in Index /\ end[j] >= j}
<1>13. Index \subseteq T
  <2>1. ASSUME NEW j \in Index, \A k \in Index : rank[k] < rank[j] => k \in T
        PROVE  j \in T
    <3>1. \A k \in Index : rank[k] < rank[j] => end[k] \in Index /\ end[k] >= k
      BY <2>1
    <3> QED
      BY <1>4, <1>12, <3>1
  <2> HIDE DEF T
  <2> QED
    BY <1>1, <2>1, RankInduction
<1>14. end \in [Index -> Index]
  <2>1. end = [j \in Index |-> end[j]]
    BY <1>10
  <2> QED
    BY <1>13, <2>1
<1> QED
  BY <1>11, <1>12, <1>13, <1>14

-----------------------------------------------------------------------------
(* Strings. *)

LEMMA Indexed ==
  ASSUME NEW s \in Bytes
  PROVE  Len(s) \in Nat /\ \A i \in Nat : 1 <= i /\ i <= Len(s) => s[i] \in Byte
BY DEF Bytes

LEMMA NibbleType == \A b \in Byte : Nibble(b) \in 0 .. 16
<1> SUFFICES ASSUME NEW b \in Byte PROVE Nibble(b) \in 0 .. 16
  OBVIOUS
<1>1. CASE b \in 48 .. 57
  BY <1>1 DEF Nibble, Digit
<1>2. CASE b \in 97 .. 102
  <2>1. Nibble(b) = b - 87
    BY <1>2 DEF Nibble, Digit
  <2> QED
    BY <1>2, <2>1
<1>3. CASE b \in 65 .. 70
  <2>1. Nibble(b) = b - 55
    BY <1>3 DEF Nibble, Digit
  <2> QED
    BY <1>3, <2>1
<1>4. CASE b \notin 48 .. 57 /\ b \notin 97 .. 102 /\ b \notin 65 .. 70
  <2>1. Nibble(b) = 16
    BY <1>4 DEF Nibble, Digit
  <2> QED
    BY <2>1
<1> QED
  BY <1>1, <1>2, <1>3, <1>4

\* The numbers of four digits, and those of characters.
Unit == {c \in Nat : c \div 1024 < 64}
CodePoint == {c \in Nat : (c \div 64) \div 1024 <= 16}
Character == {c \in CodePoint : ~IsLead(c) /\ ~IsTrail(c)}

LEMMA Hex4Type ==
  ASSUME NEW s \in Bytes, NEW i \in Index, IsHex4(s, i)
  PROVE  Hex4(s, i) \in Unit /\ i + 3 <= Len(s)
<1>1. /\ i + 3 <= Len(s)
      /\ \A j \in i .. i + 3 : Nibble(s[j]) < 16
  BY Indexed DEF IsHex4, Index
<1>2. ASSUME NEW j \in i .. i + 3 PROVE Nibble(s[j]) \in 0 .. 15
  <2>1. j \in Nat /\ 1 <= j /\ j <= Len(s)
    BY <1>1, Indexed DEF Index
  <2>2. s[j] \in Byte
    BY <2>1, Indexed
  <2> QED
    BY <1>1, <2>2, NibbleType
<1>3. i \in i .. i + 3 /\ i + 1 \in i .. i + 3 /\ i + 2 \in i .. i + 3 /\ i + 3 \in i .. i + 3
  BY DEF Index
<1> DEFINE a == Nibble(s[i])
           b == Nibble(s[i + 1])
           c == Nibble(s[i + 2])
           d == Nibble(s[i + 3])
<1>4. a \in 0 .. 15 /\ b \in 0 .. 15 /\ c \in 0 .. 15 /\ d \in 0 .. 15
  BY <1>2, <1>3
<1>5. Hex4(s, i) = 16 * (16 * (16 * a + b) + c) + d
  BY DEF Hex4
<1> HIDE DEF a, b, c, d
<1>6. Hex4(s, i) \in Unit
  <2> DEFINE n == 16 * (16 * (16 * a + b) + c) + d
  <2>1. 16 * a + b \in 0 .. 255
    BY <1>4
  <2>2. 16 * (16 * a + b) + c \in 0 .. 16 * 256 - 1
    <3> DEFINE m == 16 * a + b
    <3> HIDE DEF m
    <3>1. 16 * m + c \in 0 .. 16 * 256 - 1
      <4>1. m \in 0 .. 255
        BY <2>1 DEF m
      <4> QED
        BY <1>4, <4>1
    <3> QED
      BY <3>1 DEF m
  <2>3. n \in Nat /\ n < 1024 * 64
    <3> DEFINE l == 16 * (16 * a + b) + c
    <3>1. l \in 0 .. 16 * 256 - 1
      BY <2>2
    <3>2. n = 16 * l + d
      OBVIOUS
    <3> HIDE DEF l, n
    <3> QED
      BY <1>4, <3>1, <3>2
  <2> HIDE DEF n
  <2>4. n \div 1024 < 64
    BY <2>3
  <2> QED
    BY <1>5, <2>3, <2>4 DEF Unit, n
<1> QED
  BY <1>1, <1>6

LEMMA BytesOf ==
  /\ \A a \in Byte : <<a>> \in Bytes
  /\ \A a, b \in Byte : <<a, b>> \in Bytes
  /\ \A a, b, c \in Byte : <<a, b, c>> \in Bytes
  /\ \A a, b, c, d \in Byte : <<a, b, c, d>> \in Bytes
BY DEF Bytes

LEMMA Utf8Type ==
  ASSUME NEW cp \in CodePoint
  PROVE  Utf8(cp) \in Bytes
<1> DEFINE over(n) == n \div 64
           tail(n) == 128 + (n % 64)
<1>0. cp \in Nat /\ over(cp) \div 1024 <= 16
  BY DEF CodePoint
<1>1. \A n \in Nat : over(n) \in Nat /\ tail(n) \in Byte
  BY DEF Byte
<1>2. CASE cp < 128
  <2>1. cp \in Byte /\ Utf8(cp) = <<cp>>
    BY <1>0, <1>2 DEF Byte, Utf8
  <2> QED
    BY <2>1, BytesOf
<1>3. CASE ~(cp < 128) /\ over(cp) < 32
  <2>1. 192 + over(cp) \in Byte
    BY <1>0, <1>1, <1>3 DEF Byte
  <2>2. Utf8(cp) = <<192 + over(cp), tail(cp)>>
    BY <1>3 DEF Utf8
  <2> HIDE DEF tail, over
  <2> QED
    BY <1>0, <1>1, <2>1, <2>2, BytesOf
<1>4. CASE ~(cp < 128) /\ ~(over(cp) < 32) /\ over(over(cp)) < 16
  <2>1. Utf8(cp) = <<224 + over(over(cp)), tail(over(cp)), tail(cp)>>
    BY <1>0, <1>4 DEF Utf8
  <2> HIDE DEF tail, over
  <2>2. over(over(cp)) \in Nat /\ over(cp) \in Nat
    BY <1>0, <1>1
  <2>3. 224 + over(over(cp)) \in Byte
    BY <1>4, <2>2 DEF Byte
  <2> QED
    BY <1>0, <1>1, <2>1, <2>2, <2>3, BytesOf
<1>5. CASE ~(cp < 128) /\ ~(over(cp) < 32) /\ ~(over(over(cp)) < 16)
  <2>1. Utf8(cp) =
          <<240 + over(over(over(cp))), tail(over(over(cp))), tail(over(cp)), tail(cp)>>
    BY <1>0, <1>5 DEF Utf8
  <2>2. over(cp) \in Nat /\ over(over(cp)) \in Nat /\ over(over(over(cp))) \in Nat
    <3> HIDE DEF over
    <3> QED
      BY <1>0, <1>1
  <2>3. over(over(over(cp))) <= 4
    <3> DEFINE n == over(cp)
    <3>1. n \in Nat /\ n \div 1024 <= 16
      BY <1>0, <2>2
    <3> HIDE DEF n
    <3>2. (n \div 64) \div 64 <= 4
      BY <3>1
    <3> QED
      BY <3>2 DEF n
  <2> HIDE DEF tail, over
  <2>4. 240 + over(over(over(cp))) \in Byte
    BY <2>2, <2>3 DEF Byte
  <2> QED
    BY <1>0, <1>1, <2>1, <2>2, <2>4, BytesOf
<1> QED
  <2> HIDE DEF over, tail
  <2> QED
    BY <1>0, <1>2, <1>3, <1>4, <1>5

LEMMA PairIsCharacter ==
  ASSUME NEW a \in Unit, NEW b \in Unit
  PROVE  1024 * (64 + (a % 1024)) + (b % 1024) \in Character
<1> DEFINE h == a % 1024
           l == b % 1024
           n == 1024 * (64 + h) + l
<1>1. h \in 0 .. 1023 /\ l \in 0 .. 1023
  BY DEF Unit
<1> HIDE DEF h, l
<1>2. n \in Nat /\ n \div 1024 = 64 + h
  BY <1>1
<1>3. n \div 64 = 16 * (64 + h) + (l \div 64) /\ (l \div 64) \in 0 .. 15
  BY <1>1
<1>4. (n \div 64) \div 1024 <= 16
  BY <1>1, <1>3
<1>5. n \in Character
  <2> HIDE DEF n
  <2> QED
    BY <1>1, <1>2, <1>4 DEF Character, CodePoint, IsLead, IsTrail
<1> USE DEF h, l
<1> QED
  BY ONLY <1>5

\* What a backslash and a u stand for: a character that is no surrogate.
LEMMA Utf16Reads ==
  ASSUME NEW s \in Bytes, NEW r \in Utf16(s)
  PROVE  \E cp \in Character : r.bytes = Utf8(cp) /\ r.takes \in 6 .. Len(s)
<1>0. 3 \in Index /\ 9 \in Index
  BY DEF Index
<1> DEFINE cp == Hex4(s, 3)
           paired == Len(s) >= 8 /\ s[7] = BACKSLASH /\ s[8] = LETTER_U /\ IsHex4(s, 9)
<1>1. IsHex4(s, 3)
  BY DEF Utf16
<1>2. cp \in Unit /\ 6 <= Len(s) /\ Len(s) \in Nat
  BY <1>0, <1>1, Hex4Type, Indexed
<1>3. CASE ~IsLead(cp) /\ ~IsTrail(cp)
  <2>1. r = Read(Utf8(cp), 6)
    BY <1>1, <1>3 DEF Utf16
  <2>2. r.bytes = Utf8(cp) /\ r.takes = 6
    BY <2>1 DEF Read
  <2>3. cp \in Character
    <3> HIDE DEF cp
    <3>1. cp \in CodePoint
      BY <1>2 DEF Unit, CodePoint
    <3> QED
      BY <1>3, <3>1 DEF Character
  <2> HIDE DEF cp
  <2> QED
    BY <1>2, <2>2, <2>3
<1>4. CASE IsLead(cp) /\ paired /\ IsTrail(Hex4(s, 9))
  <2> DEFINE c == 1024 * (64 + (cp % 1024)) + (Hex4(s, 9) % 1024)
  <2>1. r = Read(Utf8(c), 12)
    <3>1. ~(~IsLead(cp) /\ ~IsTrail(cp))
      BY <1>4
    <3> QED
      BY <1>1, <1>4, <3>1 DEF Utf16
  <2>2. r.bytes = Utf8(c) /\ r.takes = 12
    BY <2>1 DEF Read
  <2>3. Hex4(s, 9) \in Unit /\ 12 <= Len(s)
    BY <1>0, <1>4, Hex4Type, Indexed
  <2>4. c \in Character
    BY <1>2, <2>3, PairIsCharacter
  <2> HIDE DEF c
  <2> QED
    BY <1>2, <2>2, <2>3, <2>4
<1>5. CASE (IsLead(cp) \/ IsTrail(cp)) /\ ~(IsLead(cp) /\ paired /\ IsTrail(Hex4(s, 9)))
  <2>1. Utf16(s) = {}
    BY <1>1, <1>5, SMT DEF Utf16
  <2> QED
    BY <2>1
<1> QED
  BY <1>3, <1>4, <1>5

\* What one turn of process_string reads: an escape, or a byte as it is.
LEMMA ReadOneReads ==
  ASSUME NEW s \in Bytes, s # <<>>, NEW r \in ReadOne(s)
  PROVE  /\ r.takes \in 1 .. Len(s)
         /\ \/ r.bytes = <<s[1]>> /\ r.takes = 1 /\ s[1] \notin Control \cup {BACKSLASH}
            \/ /\ s[1] = BACKSLASH /\ r.takes = 2
               /\ \E b \in DOMAIN Letter \cup {SLASH} : r.bytes = <<b>>
            \/ /\ s[1] = BACKSLASH
               /\ \E cp \in Character : r.bytes = Utf8(cp)
<1>0. Len(s) \in Nat /\ Len(s) >= 1
  BY EmptySeq, BytesFacts DEF Bytes
<1>1. CASE s[1] # BACKSLASH
  <2>1. r = Read(<<s[1]>>, 1) /\ s[1] \notin Control
    BY <1>1 DEF ReadOne
  <2> QED
    BY <1>0, <1>1, <2>1 DEF Read
<1>2. CASE s[1] = BACKSLASH
  <2>1. r \in ReadEscape(s) /\ Len(s) # 1
    BY <1>2 DEF ReadOne, ReadEscape
  <2>2. CASE s[2] = LETTER_U
    <3>1. r \in Utf16(s)
      BY <2>1, <2>2 DEF ReadEscape
    <3> QED
      BY <1>0, <1>2, <3>1, Utf16Reads
  <2>3. CASE s[2] # LETTER_U
    <3>1. \E b \in DOMAIN Letter \cup {SLASH} : r = Read(<<b>>, 2)
      BY <2>1, <2>3 DEF ReadEscape
    <3>2. PICK b \in DOMAIN Letter \cup {SLASH} : r = Read(<<b>>, 2)
      BY <3>1
    <3>3. r.bytes = <<b>> /\ r.takes = 2
      BY <3>2 DEF Read
    <3>4. 2 \in 1 .. Len(s)
      <4> DEFINE m == Len(s)
      <4>1. m \in Nat /\ m >= 1 /\ m # 1
        BY <1>0, <2>1
      <4> HIDE DEF m
      <4>2. 2 \in 1 .. m
        BY <4>1
      <4> QED
        BY <4>2 DEF m
    <3> QED
      BY <1>2, <3>3, <3>4
  <2> QED
    BY <2>2, <2>3
<1> QED
  BY <1>1, <1>2

LEMMA ReadOneType ==
  ASSUME NEW s \in Bytes, s # <<>>, NEW r \in ReadOne(s)
  PROVE  r.takes \in 1 .. Len(s) /\ r.bytes \in Bytes
<1>1. s[1] \in Byte
  BY EmptySeq, Indexed DEF Bytes
<1>2. \A b \in DOMAIN Letter \cup {SLASH} : b \in Byte
  BY LetterType, Marks
<1>3. \A cp \in Character : Utf8(cp) \in Bytes
  BY Utf8Type DEF Character
<1> QED
  BY <1>1, <1>2, <1>3, ReadOneReads, BytesOf

LEMMA FromType ==
  ASSUME NEW S, NEW s \in Seq(S), NEW i \in 1 .. Len(s) + 1
  PROVE  /\ From(s, i) \in Seq(S) /\ Len(From(s, i)) = Len(s) + 1 - i
         /\ \A k \in 1 .. Len(s) + 1 - i : From(s, i)[k] = s[i + k - 1]
<1>1. Len(s) \in Int /\ i \in Int /\ \A k \in i .. Len(s) : s[k] \in S
  OBVIOUS
<1>2. /\ SubSeq(s, i, Len(s)) \in Seq(S)
      /\ Len(SubSeq(s, i, Len(s))) = IF i <= Len(s) THEN Len(s) - i + 1 ELSE 0
      /\ \A k \in 1 .. Len(s) - i + 1 : SubSeq(s, i, Len(s))[k] = s[i + k - 1]
  BY <1>1, SubSeqProperties
<1> QED
  BY <1>1, <1>2 DEF From

-----------------------------------------------------------------------------
(* process_string and the arrays of bytes. *)

ProcessedBy(s, g) ==
  IF s = <<>> THEN {<<>>}
  ELSE UNION {{r.bytes \o rest : rest \in g[From(s, r.takes + 1)]} : r \in ReadOne(s)}

\* What is left of a string after a turn is shorter.
LEMMA RestShorter ==
  ASSUME NEW s \in Bytes, s # <<>>, NEW r \in ReadOne(s)
  PROVE  /\ r.bytes \in Bytes
         /\ From(s, r.takes + 1) \in Bytes /\ Len(From(s, r.takes + 1)) < Len(s)
<1>1. r.takes \in 1 .. Len(s) /\ r.bytes \in Bytes
  BY ReadOneType
<1> DEFINE n == Len(s)
           i == r.takes + 1
<1>2. n \in Nat /\ i \in 1 .. n + 1 /\ n + 1 - i < n
  <2>1. n \in Nat
    BY BytesFacts
  <2> DEFINE k == r.takes
  <2>2. k \in 1 .. n
    BY <1>1
  <2> HIDE DEF k, n
  <2>3. k + 1 \in 1 .. n + 1 /\ n + 1 - (k + 1) < n
    BY <2>1, <2>2
  <2> QED
    BY <2>1, <2>3 DEF k
<1>3. From(s, i) \in Seq(Byte) /\ Len(From(s, i)) = n + 1 - i
  <2> HIDE DEF i
  <2> QED
    BY <1>2, FromType DEF Bytes
<1> QED
  BY <1>1, <1>2, <1>3 DEF Bytes

LEMMA ProcessedByType ==
  ASSUME NEW s \in Bytes, NEW g,
         \A u \in Bytes : Len(u) < Len(s) => g[u] \subseteq Bytes
  PROVE  ProcessedBy(s, g) \subseteq Bytes
<1>1. CASE s = <<>>
  <2>1. ProcessedBy(s, g) = {<<>>}
    BY <1>1 DEF ProcessedBy
  <2> QED
    BY <2>1 DEF Bytes
<1>2. CASE s # <<>>
  <2> SUFFICES ASSUME NEW x \in ProcessedBy(s, g) PROVE x \in Bytes
    OBVIOUS
  <2> DEFINE read(r) == {r.bytes \o rest : rest \in g[From(s, r.takes + 1)]}
  <2>1. PICK r \in ReadOne(s) : x \in read(r)
    BY <1>2, Zenon DEF ProcessedBy
  <2>2. PICK rest \in g[From(s, r.takes + 1)] : x = r.bytes \o rest
    BY <2>1
  <2>3. r.bytes \in Bytes /\ rest \in Bytes
    BY <1>2, <2>2, RestShorter
  <2> QED
    BY <2>2, <2>3 DEF Bytes
<1> QED
  BY <1>1, <1>2

LEMMA ProcessedByLocal ==
  ASSUME NEW s \in Bytes, NEW g, NEW h,
         \A u \in Bytes : Len(u) < Len(s) => g[u] = h[u]
  PROVE  ProcessedBy(s, g) = ProcessedBy(s, h)
<1>1. CASE s = <<>>
  BY <1>1 DEF ProcessedBy
<1>2. CASE s # <<>>
  <2> DEFINE read(r, f) == {r.bytes \o rest : rest \in f[From(s, r.takes + 1)]}
  <2>1. \A r \in ReadOne(s) : read(r, g) = read(r, h)
    BY <1>2, RestShorter
  <2>2. /\ ProcessedBy(s, g) = UNION {read(r, g) : r \in ReadOne(s)}
        /\ ProcessedBy(s, h) = UNION {read(r, h) : r \in ReadOne(s)}
    BY <1>2 DEF ProcessedBy
  <2> HIDE DEF read
  <2> QED
    BY <2>1, <2>2
<1> QED
  BY <1>1, <1>2

LEMMA ProcessedEquation ==
  /\ Processed \in [Bytes -> SUBSET Bytes]
  /\ \A s \in Bytes : Processed[s] = ProcessedBy(s, Processed)
<1> DEFINE D == SUBSET Bytes
           rank == [s \in Bytes |-> Len(s)]
           step == [s \in Bytes |-> [g \in [Bytes -> D] |-> ProcessedBy(s, g)]]
<1>1. rank \in [Bytes -> Nat] /\ \A s \in Bytes : rank[s] = Len(s)
  BY BytesFacts
<1>2. Descends(Bytes, D, rank, step)
  <2>1. step \in [Bytes -> [[Bytes -> D] -> D]]
    <3> SUFFICES ASSUME NEW s \in Bytes, NEW g \in [Bytes -> D]
                 PROVE  ProcessedBy(s, g) \in D
      OBVIOUS
    <3> QED
      BY ProcessedByType
  <2>2. Local(Bytes, D, rank, step)
    <3> SUFFICES ASSUME NEW s \in Bytes, NEW g \in [Bytes -> D], NEW h \in [Bytes -> D],
                        \A u \in Bytes : rank[u] < rank[s] => g[u] = h[u]
                 PROVE  step[s][g] = step[s][h]
      BY DEF Local
    <3>1. \A u \in Bytes : Len(u) < Len(s) => g[u] = h[u]
      BY <1>1
    <3>2. ProcessedBy(s, g) = ProcessedBy(s, h)
      BY <3>1, ProcessedByLocal
    <3>3. step[s][g] = ProcessedBy(s, g) /\ step[s][h] = ProcessedBy(s, h)
      OBVIOUS
    <3> QED
      BY <3>2, <3>3
  <2>3. D # {}
    OBVIOUS
  <2> HIDE DEF step, D, rank
  <2> QED
    BY <1>1, <2>1, <2>2, <2>3 DEF Descends
<1>3. PICK f \in [Bytes -> D] : \A s \in Bytes : f[s] = step[s][f]
  <2> HIDE DEF step, D, rank
  <2> QED
    BY <1>2, Recursion DEF Recursive
<1>4. f = [s \in Bytes |-> ProcessedBy(s, f)]
  <2>1. \A s \in Bytes : f[s] = ProcessedBy(s, f)
    BY <1>3
  <2>2. f = [s \in Bytes |-> f[s]]
    OBVIOUS
  <2> QED
    BY <2>1, <2>2
<1>5. Processed = [s \in Bytes |-> ProcessedBy(s, Processed)]
  BY <1>4, ZenonT(60) DEF Processed, ProcessedBy
<1>6. \A s \in Bytes : Processed[s] = ProcessedBy(s, Processed)
  BY <1>5
<1> HIDE DEF D, step
<1> DEFINE T == {s \in Bytes : Processed[s] \subseteq Bytes}
<1>7. Bytes \subseteq T
  <2>1. ASSUME NEW s \in Bytes, \A u \in Bytes : rank[u] < rank[s] => u \in T
        PROVE  s \in T
    <3>1. \A u \in Bytes : Len(u) < Len(s) => Processed[u] \subseteq Bytes
      BY <1>1, <2>1
    <3>2. ProcessedBy(s, Processed) \subseteq Bytes
      BY <3>1, ProcessedByType
    <3> QED
      BY <1>6, <3>2
  <2> HIDE DEF T, rank
  <2> QED
    BY <1>1, <2>1, RankInduction
<1>8. Processed \in [Bytes -> SUBSET Bytes]
  <2>1. Processed = [s \in Bytes |-> Processed[s]]
    BY <1>5
  <2> QED
    BY <1>7, <2>1
<1> QED
  BY <1>6, <1>8

\* What strlen sees is the beginning of the array, up to its first NUL.
LEMMA CStringShape ==
  ASSUME NEW s \in Bytes
  PROVE  \E n \in 0 .. Len(s) :
           /\ CString(s) = SubSeq(s, 1, n)
           /\ \A i \in 1 .. n : s[i] # 0
           /\ n < Len(s) => s[n + 1] = 0
<1>0. Len(s) \in Nat /\ DOMAIN s = 1 .. Len(s)
  BY BytesFacts DEF Bytes
<1> DEFINE nuls == {i \in DOMAIN s : s[i] = 0}
<1>1. CASE nuls = {}
  <2>1. CString(s) = s
    BY <1>1 DEF CString
  <2>2. s = SubSeq(s, 1, Len(s))
    BY <1>0, SubSeqFull DEF Bytes
  <2>3. \A i \in 1 .. Len(s) : s[i] # 0
    BY <1>0, <1>1
  <2>4. Len(s) \in 0 .. Len(s)
    BY <1>0
  <2> DEFINE n == Len(s)
  <2>5. ~(n < n)
    BY <1>0
  <2> HIDE DEF n
  <2> QED
    BY <2>1, <2>2, <2>3, <2>4, <2>5 DEF n
<1>2. CASE nuls # {}
  <2>1. nuls \in SUBSET Nat
    BY <1>0
  <2>2. \E m \in nuls : \A k \in nuls : m <= k
    <3> HIDE DEF nuls
    <3> QED
      BY <1>2, <2>1, LeastNatural
  <2> DEFINE m == CHOOSE i \in nuls : \A j \in nuls : i <= j
  <2>3. m \in nuls /\ \A k \in nuls : m <= k
    BY <2>2, Zenon
  <2>4. CString(s) = SubSeq(s, 1, m - 1)
    BY <1>2 DEF CString
  <2> HIDE DEF m
  <2>5. m \in 1 .. Len(s) /\ s[m] = 0
    BY <1>0, <2>3
  <2>6. ASSUME NEW i \in 1 .. m - 1, s[i] = 0 PROVE FALSE
    <3>1. i \in 1 .. Len(s) /\ ~(m <= i)
      BY <1>0, <2>5
    <3>2. i \in nuls
      BY <1>0, <2>6, <3>1
    <3> QED
      BY <2>3, <3>1, <3>2
  <2> DEFINE l == Len(s)
  <2>7. m - 1 \in 0 .. l /\ (m - 1) + 1 = m
    <3>1. l \in Nat /\ m \in 1 .. l
      BY <1>0, <2>5
    <3> HIDE DEF l
    <3> QED
      BY <3>1
  <2> QED
    BY <2>4, <2>5, <2>6, <2>7
<1> QED
  BY <1>1, <1>2

LEMMA CStringType ==
  ASSUME NEW s \in Bytes
  PROVE  CString(s) \in Bytes
<1>1. PICK n \in 0 .. Len(s) : CString(s) = SubSeq(s, 1, n)
  BY CStringShape
<1> QED
  BY <1>1, SubSeqProperties, BytesFacts DEF Bytes

\* A function on the natural numbers by its first value and the step to the next.
Repeats(D, first, next) == first \in D /\ next \in [D -> D]

Repeated(D, first, next) ==
  \E f \in [Nat -> D] : f = [k \in Nat |-> IF k = 0 THEN first ELSE next[f[k - 1]]]

LEMMA Repetition ==
  ASSUME NEW D, NEW first, NEW next, Repeats(D, first, next)
  PROVE  Repeated(D, first, next)
<1> SUFFICES ASSUME first \in D, next \in [D -> D] PROVE Repeated(D, first, next)
  BY DEF Repeats
<1> DEFINE rank == [k \in Nat |-> k]
           step == [k \in Nat |-> [g \in [Nat -> D] |-> IF k = 0 THEN first ELSE next[g[k - 1]]]]
<1>1. ASSUME NEW k \in Nat, k # 0 PROVE k - 1 \in Nat /\ rank[k - 1] < rank[k]
  BY <1>1
<1>2. step \in [Nat -> [[Nat -> D] -> D]]
  <2> SUFFICES ASSUME NEW k \in Nat, NEW g \in [Nat -> D], k # 0
               PROVE  next[g[k - 1]] \in D
    OBVIOUS
  <2>1. g[k - 1] \in D
    BY <1>1
  <2> QED
    BY <2>1
<1>3. Local(Nat, D, rank, step)
  <2> SUFFICES ASSUME NEW k \in Nat, NEW g \in [Nat -> D], NEW h \in [Nat -> D],
                      \A j \in Nat : rank[j] < rank[k] => g[j] = h[j], k # 0
               PROVE  g[k - 1] = h[k - 1]
    BY DEF Local
  <2> HIDE DEF rank
  <2> QED
    BY <1>1
<1>4. rank \in [Nat -> Nat] /\ D # {}
  OBVIOUS
<1> HIDE DEF rank
<1>5. PICK f \in [Nat -> D] : \A k \in Nat : f[k] = step[k][f]
  <2> HIDE DEF step
  <2>1. Descends(Nat, D, rank, step)
    BY <1>2, <1>3, <1>4 DEF Descends
  <2> QED
    BY <2>1, Recursion DEF Recursive
<1>6. \A k \in Nat : f[k] = (IF k = 0 THEN first ELSE next[f[k - 1]])
  BY <1>5
<1>7. f = [k \in Nat |-> f[k]]
  OBVIOUS
<1> HIDE DEF step
<1>8. f = [k \in Nat |-> IF k = 0 THEN first ELSE next[f[k - 1]]]
  BY <1>6, <1>7
<1> QED
  BY <1>8 DEF Repeated

-----------------------------------------------------------------------------
(* Numbers. *)

LEMMA NumeralSum ==
  ASSUME NEW digits \in Seq(Digit)
  PROVE  \E n \in [0 .. Len(digits) -> Nat] :
           /\ n[0] = 0
           /\ \A k \in 1 .. Len(digits) : n[k] = 10 * n[k - 1] + digits[k] - 48
           /\ Numeral(digits) = n[Len(digits)]
<1> DEFINE len == Len(digits)
           next == [k \in 1 .. len |-> [m \in Nat |-> 10 * m + digits[k] - 48]]
<1>0. len \in Nat /\ \A k \in 1 .. len : digits[k] \in Digit
  OBVIOUS
<1> HIDE DEF len
<1>1. next \in [1 .. len -> [Nat -> Nat]]
  <2> SUFFICES ASSUME NEW k \in 1 .. len, NEW m \in Nat PROVE 10 * m + digits[k] - 48 \in Nat
    OBVIOUS
  <2>1. digits[k] \in 48 .. 57
    BY <1>0 DEF Digit
  <2>2. \A d \in 48 .. 57 : 10 * m + d - 48 \in Nat
    OBVIOUS
  <2> QED
    BY <2>1, <2>2
<1>2. PICK f \in [0 .. len -> Nat] :
        f = [i \in 0 .. len |-> IF i = 0 THEN 0 ELSE next[i][f[i - 1]]]
  <2>1. Links(Nat, len, 0, next)
    BY <1>0, <1>1 DEF Links
  <2> HIDE DEF next
  <2>2. Chained(Nat, len, 0, next)
    BY <2>1, Chain
  <2> QED
    BY <2>2 DEF Chained
<1>3. ASSUME NEW i \in 0 .. len, i # 0
      PROVE  next[i][f[i - 1]] = 10 * f[i - 1] + digits[i] - 48
  <2>1. i \in 1 .. len /\ i - 1 \in 0 .. len
    BY <1>0, <1>3
  <2>2. f[i - 1] \in Nat
    BY <2>1
  <2> QED
    BY <2>1, <2>2
<1>4. f = [k \in 0 .. len |-> IF k = 0 THEN 0 ELSE 10 * f[k - 1] + digits[k] - 48]
  <2>1. \A i \in 0 .. len : (IF i = 0 THEN 0 ELSE next[i][f[i - 1]])
                              = (IF i = 0 THEN 0 ELSE 10 * f[i - 1] + digits[i] - 48)
    BY <1>3
  <2> HIDE DEF next
  <2> QED
    BY <1>2, <2>1
<1> HIDE DEF next
<1> DEFINE n[k \in 0 .. len] == IF k = 0 THEN 0 ELSE 10 * n[k - 1] + digits[k] - 48
           e(k) == IF k = 0 THEN 0 ELSE 10 * n[k - 1] + digits[k] - 48
<1>5. n = [k \in 0 .. len |-> e(k)]
  BY <1>4, Zenon DEF n
<1>6. Numeral(digits) = n[len]
  BY Zenon DEF Numeral, n, len
<1> HIDE DEF n, e
<1>7. \A k \in 0 .. len : n[k] = e(k)
  BY <1>5
<1>8. n[0] = 0 /\ \A k \in 1 .. len : n[k] = 10 * n[k - 1] + digits[k] - 48
  BY <1>0, <1>7 DEF e
<1> DEFINE T == {k \in 0 .. len : n[k] \in Nat}
<1>9. ASSUME NEW k \in 1 .. len, k - 1 \in T
      PROVE  k \in T
  <2>1. n[k - 1] \in Nat /\ digits[k] \in 48 .. 57 /\ k \in 0 .. len
    BY <1>0, <1>9 DEF Digit
  <2>2. n[k] = 10 * n[k - 1] + digits[k] - 48
    BY <1>8
  <2>3. \A m \in Nat : \A d \in 48 .. 57 : 10 * m + d - 48 \in Nat
    OBVIOUS
  <2>4. n[k] \in Nat
    BY <2>1, <2>2, <2>3
  <2> QED
    BY <2>1, <2>4
<1>10. 0 \in T
  BY <1>0, <1>8
<1> HIDE DEF T
<1>11. \A k \in 0 .. len : k \in T
  BY <1>0, <1>9, <1>10, InductionUpTo
<1>12. n \in [0 .. len -> Nat]
  <2>1. n = [k \in 0 .. len |-> n[k]]
    BY <1>5
  <2> QED
    BY <1>11, <2>1 DEF T
<1>13. \E s \in [0 .. len -> Nat] :
         /\ s[0] = 0
         /\ \A k \in 1 .. len : s[k] = 10 * s[k - 1] + digits[k] - 48
         /\ Numeral(digits) = s[len]
  BY <1>6, <1>8, <1>12
<1> QED
  BY <1>13 DEF len

LEMMA NumeralType ==
  ASSUME NEW digits \in Seq(Digit)
  PROVE  Numeral(digits) \in Nat
<1>1. Len(digits) \in 0 .. Len(digits)
  OBVIOUS
<1> QED
  BY <1>1, NumeralSum

-----------------------------------------------------------------------------
(* The parser's results. *)

Results(V) == [value : V, next : Index]
Rows(V) == [Index -> SUBSET Results(V)]

LEMMA ParsedType ==
  ASSUME NEW V, NEW v \in V, NEW next \in Index
  PROVE  Parsed(v, next) \in Results(V)
BY DEF Parsed, Results

LEMMA QuotedType ==
  ASSUME NEW t \in Bytes, NEW i \in Index, NEW q \in Quoted(t, i)
  PROVE  q.text \in Bytes /\ q.next \in Index
<1> DEFINE end == QuoteEnd(t, i + 1)
<1>0. i + 1 \in Index /\ Len(t) \in Nat
  BY BytesFacts DEF Index
<1>1. end \in Index /\ end >= i + 1
  BY <1>0, QuoteEndEquation
<1> HIDE DEF end
<1>2. /\ At(t, end) # 0
      /\ \E s \in Processed[SubSeq(t, i + 1, end - 2)] : q = [text |-> CString(s), next |-> end]
  BY DEF Quoted, end
<1>3. PICK s \in Processed[SubSeq(t, i + 1, end - 2)] : q = [text |-> CString(s), next |-> end]
  BY <1>2
<1>4. end <= Len(t)
  BY <1>0, <1>1, <1>2, AtType DEF Index
<1>5. SubSeq(t, i + 1, end - 2) \in Bytes
  <2>1. i + 1 \in Int /\ end - 2 \in Int
    BY <1>0, <1>1 DEF Index
  <2>2. \A k \in i + 1 .. end - 2 : k \in Nat /\ 1 <= k /\ k <= Len(t)
    BY <1>0, <1>1, <1>4 DEF Index
  <2>3. \A k \in i + 1 .. end - 2 : t[k] \in Byte
    BY <2>2, Indexed
  <2> QED
    BY <2>1, <2>3, SubSeqProperties DEF Bytes
<1>6. CString(s) \in Bytes
  BY <1>3, <1>5, ProcessedEquation, CStringType
<1> QED
  BY <1>1, <1>3, <1>6

LEMMA NumberAtType ==
  ASSUME NEW V, NEW t \in Bytes, NEW i \in Index
  PROVE  NumberAt(t, i) \subseteq Results(Over(V))
<1> DEFINE end == DigitsEnd(t, i)
           digits == SubSeq(t, i, end - 1)
<1>1. end \in Index /\ end >= i /\ \A k \in i .. end - 1 : At(t, k) \in Digit
  BY DigitsEndFirst
<1> HIDE DEF end
<1>2. ASSUME NEW k \in i .. end - 1 PROVE t[k] \in Digit
  <2>1. At(t, k) \in Digit
    BY <1>1
  <2>2. At(t, k) # 0
    BY <2>1 DEF Digit
  <2> QED
    BY <2>1, <2>2 DEF At
<1>3. digits \in Seq(Digit)
  <2>1. i \in Int /\ end - 1 \in Int
    BY <1>1 DEF Index
  <2> QED
    BY <1>2, <2>1, SubSeqProperties
<1> HIDE DEF digits
<1>4. Number(Numeral(digits)) \in Over(V)
  <2>1. Numeral(digits) \in Nat
    BY <1>3, NumeralType
  <2>2. Number(Numeral(digits)) \in [type : {"number"}, number : Nat]
    BY <2>1 DEF Number
  <2> QED
    BY <2>2 DEF Over
<1>5. NumberAt(t, i) \subseteq {Parsed(Number(Numeral(digits)), end)}
  BY Zenon DEF NumberAt, end, digits
<1> QED
  BY <1>1, <1>4, <1>5, ParsedType

LEMMA LiteralAtType ==
  ASSUME NEW V, NEW t \in Bytes, NEW i \in Index
  PROVE  LiteralAt(t, i) \subseteq Results(Over(V))
<1> SUFFICES ASSUME NEW l \in DOMAIN Literal
             PROVE  Parsed(Plain(l), i + Len(Literal[l])) \in Results(Over(V))
  BY DEF LiteralAt
<1>1. Len(Literal[l]) \in Nat
  BY LiteralType, BytesFacts
<1>2. i + Len(Literal[l]) \in Index
  <2> DEFINE n == Len(Literal[l])
  <2> HIDE DEF n
  <2>1. n \in Nat
    BY <1>1 DEF n
  <2>2. i + n \in Index
    BY <2>1 DEF Index
  <2> QED
    BY <2>2 DEF n
<1>3. Plain(l) \in Over(V)
  <2>1. Plain(l) \in [type : {"literal"}, literal : DOMAIN Literal]
    BY DEF Plain
  <2> QED
    BY <2>1 DEF Over
<1> QED
  BY <1>2, <1>3, ParsedType

-----------------------------------------------------------------------------
(* The loops over the parts of an array or an object. *)

Kinds == {"array", "object"}
PartsOf(kind, V) == IF kind = "array" THEN V ELSE [name : Bytes, value : V]
Loops(P) == [next : Index, parts : Seq(P), closed : BOOLEAN]

LEMMA LoopType ==
  ASSUME NEW P, NEW next \in Index, NEW parts \in Seq(P), NEW closed \in BOOLEAN
  PROVE  Loop(next, parts, closed) \in Loops(P)
BY DEF Loop, Loops

LEMMA MemberAtType ==
  ASSUME NEW V, NEW t \in Bytes, NEW i \in Index, NEW members, NEW inside \in Rows(V)
  PROVE  MemberAt(t, i, members, inside) \subseteq Results([name : Bytes, value : V])
<1> SUFFICES ASSUME NEW p \in MemberAt(t, i, members, inside)
             PROVE  p \in Results([name : Bytes, value : V])
  OBVIOUS
<1> DEFINE found(q) == {Parsed(Pair(q.text, v.value), v.next) : v \in inside[Blank(t, q.next) + 1]}
<1>1. PICK q \in Quoted(t, i) : p \in found(q)
  <2>1. \E q \in {q \in Quoted(t, i) : At(t, Blank(t, q.next)) = COLON /\ Addable(q, members)} :
          p \in found(q)
    BY Zenon DEF MemberAt
  <2> HIDE DEF found
  <2> QED
    BY <2>1
<1>2. q.text \in Bytes /\ q.next \in Index
  BY QuotedType
<1>3. Blank(t, q.next) + 1 \in Index
  <2>1. Blank(t, q.next) \in Index
    BY <1>2, BlankFirst
  <2> QED
    BY <2>1 DEF Index
<1>4. PICK v \in inside[Blank(t, q.next) + 1] : p = Parsed(Pair(q.text, v.value), v.next)
  BY <1>1
<1>5. v.value \in V /\ v.next \in Index
  BY <1>3, <1>4 DEF Rows, Results
<1>6. Pair(q.text, v.value) \in [name : Bytes, value : V]
  BY <1>2, <1>5 DEF Pair
<1> QED
  BY <1>4, <1>5, <1>6, ParsedType

LEMMA PartAtType ==
  ASSUME NEW V, NEW t \in Bytes, NEW i \in Index, NEW parts, NEW inside \in Rows(V),
         NEW kind \in Kinds
  PROVE  PartAt(t, i, parts, inside, kind) \subseteq Results(PartsOf(kind, V))
<1>1. inside[i] \subseteq Results(V)
  BY DEF Rows
<1> QED
  BY <1>1, MemberAtType DEF PartAt, PartsOf, Kinds

LEMMA TurnType ==
  ASSUME NEW V, NEW t \in Bytes, NEW inside \in Rows(V), NEW kind \in Kinds,
         NEW l \in Loops(PartsOf(kind, V))
  PROVE  Turn(t, l, inside, kind) \subseteq Loops(PartsOf(kind, V))
<1> DEFINE P == PartsOf(kind, V)
<1>0. l.next \in Index /\ l.parts \in Seq(P)
  BY DEF Loops
<1>1. CASE l.closed
  BY <1>1 DEF Turn
<1>2. CASE ~l.closed
  <2> SUFFICES ASSUME NEW m \in Turn(t, l, inside, kind) PROVE m \in Loops(P)
    OBVIOUS
  <2>1. PICK p \in PartAt(t, l.next, l.parts, inside, kind) :
          m \in AfterPart(t, Blank(t, p.next), Append(l.parts, p.value), kind)
    BY <1>2, Zenon DEF Turn
  <2>2. p.value \in P /\ p.next \in Index
    BY <1>0, PartAtType DEF Results
  <2> DEFINE i == Blank(t, p.next)
             parts == Append(l.parts, p.value)
  <2>3. i \in Index /\ i + 1 \in Index /\ Blank(t, i + 1) \in Index
    <3>1. i \in Index
      BY <2>2, BlankFirst
    <3>2. i + 1 \in Index
      BY <3>1 DEF Index
    <3> HIDE DEF i
    <3> QED
      BY <3>1, <3>2, BlankFirst
  <2>4. parts \in Seq(P)
    <3> HIDE DEF P
    <3> QED
      BY <1>0, <2>2, AppendProperties
  <2>5. m \in {Loop(Blank(t, i + 1), parts, FALSE), Loop(i + 1, parts, TRUE)}
    <3>1. m \in AfterPart(t, i, parts, kind)
      BY <2>1
    <3> HIDE DEF i, parts
    <3> QED
      BY <3>1 DEF AfterPart
  <2> HIDE DEF i, parts, P
  <2> QED
    BY <2>3, <2>4, <2>5, LoopType
<1> QED
  BY <1>1, <1>2

\* The turns of a loop: what they start with, and what each makes of the last.
TurnsFrom(t, start, inside, kind, turns) ==
  /\ turns[0] = {Loop(start, <<>>, FALSE)}
  /\ \A k \in Nat : turns[k + 1] = UNION {Turn(t, l, inside, kind) : l \in turns[k]}

LEMMA TurnsType ==
  ASSUME NEW V, NEW t \in Bytes, NEW start \in Index, NEW inside \in Rows(V),
         NEW kind \in Kinds
  PROVE  /\ Turns(t, start, inside, kind) \in [Nat -> SUBSET Loops(PartsOf(kind, V))]
         /\ TurnsFrom(t, start, inside, kind, Turns(t, start, inside, kind))
<1> DEFINE P == PartsOf(kind, V)
           D == SUBSET Loops(P)
           first == {Loop(start, <<>>, FALSE)}
           after(A) == UNION {Turn(t, l, inside, kind) : l \in A}
           next == [A \in D |-> after(A)]
<1>1. first \in D
  <2>1. <<>> \in Seq(P)
    OBVIOUS
  <2> HIDE DEF P
  <2> QED
    BY <2>1, LoopType
<1>2. \A A \in D : after(A) \in D
  <2> SUFFICES ASSUME NEW A \in D, NEW m \in after(A) PROVE m \in Loops(P)
    OBVIOUS
  <2>1. PICK l \in A : m \in Turn(t, l, inside, kind)
    OBVIOUS
  <2> QED
    BY <2>1, TurnType
<1> HIDE DEF first, after, D
<1>3. PICK f \in [Nat -> D] : f = [k \in Nat |-> IF k = 0 THEN first ELSE next[f[k - 1]]]
  <2>1. Repeats(D, first, next)
    BY <1>1, <1>2 DEF Repeats
  <2> HIDE DEF next
  <2> QED
    BY <2>1, Repetition DEF Repeated
<1>4. f = [k \in Nat |-> IF k = 0 THEN first ELSE after(f[k - 1])]
  <2>1. ASSUME NEW k \in Nat, k # 0 PROVE next[f[k - 1]] = after(f[k - 1])
    <3>1. f[k - 1] \in D
      <4>1. k - 1 \in Nat
        BY <2>1
      <4> QED
        BY <4>1
    <3> QED
      BY <3>1
  <2>2. \A k \in Nat : (IF k = 0 THEN first ELSE next[f[k - 1]])
                         = (IF k = 0 THEN first ELSE after(f[k - 1]))
    BY <2>1
  <2> HIDE DEF next
  <2> QED
    BY <1>3, <2>2
<1> DEFINE turns[k \in Nat] ==
             IF k = 0 THEN {Loop(start, <<>>, FALSE)}
             ELSE UNION {Turn(t, l, inside, kind) : l \in turns[k - 1]}
           e(k) == IF k = 0 THEN first ELSE after(turns[k - 1])
<1>5. turns = [k \in Nat |-> e(k)]
  BY <1>4, Zenon DEF turns, first, after
<1>6. Turns(t, start, inside, kind) = turns
  BY Zenon DEF Turns, turns
<1> HIDE DEF turns, e, next
<1>7. \A k \in Nat : turns[k] = e(k)
  BY <1>5
<1>8. turns[0] = first /\ \A k \in Nat : turns[k + 1] = after(turns[k])
  <2>1. turns[0] = first
    BY <1>7 DEF e
  <2>2. ASSUME NEW k \in Nat PROVE turns[k + 1] = after(turns[k])
    <3>1. k + 1 \in Nat /\ k + 1 # 0 /\ (k + 1) - 1 = k
      OBVIOUS
    <3> QED
      BY <1>7, <3>1 DEF e
  <2> QED
    BY <2>1, <2>2
<1> DEFINE T == {k \in Nat : turns[k] \in D}
<1>9. \A k \in Nat : k \in T
  <2>1. 0 \in T
    BY <1>1, <1>8
  <2>2. ASSUME NEW k \in Nat, k \in T PROVE k + 1 \in T
    BY <1>2, <1>8, <2>2
  <2> HIDE DEF T
  <2> QED
    BY <2>1, <2>2, Induction
<1>10. turns \in [Nat -> D]
  <2>1. turns = [k \in Nat |-> turns[k]]
    BY <1>5
  <2> QED
    BY <1>9, <2>1
<1>11. TurnsFrom(t, start, inside, kind, turns)
  BY <1>8 DEF TurnsFrom, first, after
<1> QED
  BY <1>6, <1>10, <1>11 DEF D

LEMMA ContainerType ==
  ASSUME NEW V, NEW kind \in Kinds, NEW parts \in Seq(PartsOf(kind, V))
  PROVE  Container(kind, parts) \in Over(V)
<1>1. CASE kind = "array"
  <2>1. Container(kind, parts) \in [type : {"array"}, items : Seq(V)]
    BY <1>1 DEF Container, Array, PartsOf
  <2> QED
    BY <2>1 DEF Over
<1>2. CASE kind = "object"
  <2> DEFINE P == [name : Bytes, value : V]
  <2>1. parts \in Seq(P)
    BY <1>2 DEF PartsOf
  <2>2. Container(kind, parts) = Object(parts)
    BY <1>2 DEF Container
  <2> HIDE DEF P
  <2>3. Container(kind, parts) \in [type : {"object"}, members : Seq(P)]
    BY <2>1, <2>2 DEF Object
  <2> QED
    BY <2>3, Zenon DEF Over, P
<1> QED
  BY <1>1, <1>2 DEF Kinds

LEMMA ContainerAtType ==
  ASSUME NEW V, NEW t \in Bytes, NEW i \in Index, NEW inside \in Rows(V), NEW kind \in Kinds
  PROVE  ContainerAt(t, i, inside, kind) \subseteq Results(Over(V))
<1> DEFINE start == Blank(t, i + 1)
           P == PartsOf(kind, V)
<1>1. start \in Index /\ start + 1 \in Index
  <2>1. i + 1 \in Index
    BY DEF Index
  <2>2. start \in Index
    BY <2>1, BlankFirst
  <2> HIDE DEF start
  <2> QED
    BY <2>2 DEF Index
<1> HIDE DEF start, P
<1> SUFFICES ASSUME NEW p \in ContainerAt(t, i, inside, kind) PROVE p \in Results(Over(V))
  OBVIOUS
<1>2. CASE At(t, start) = Closing[kind]
  <2>1. p = Parsed(Container(kind, <<>>), start + 1)
    BY <1>2, Zenon DEF ContainerAt, start
  <2>2. Container(kind, <<>>) \in Over(V)
    <3>1. <<>> \in Seq(PartsOf(kind, V))
      OBVIOUS
    <3> QED
      BY <3>1, ContainerType
  <2> QED
    BY <1>1, <2>1, <2>2, ParsedType
<1>3. CASE At(t, start) # Closing[kind]
  <2>1. PICK l \in Turns(t, start, inside, kind)[Len(t)] :
          p = Parsed(Container(kind, l.parts), l.next)
    <3>1. \E l \in {l \in Turns(t, start, inside, kind)[Len(t)] : l.closed} :
            p = Parsed(Container(kind, l.parts), l.next)
      BY <1>3, Zenon DEF ContainerAt, start
    <3> QED
      BY <3>1
  <2>2. l \in Loops(P)
    <3>1. Len(t) \in Nat
      BY BytesFacts
    <3> QED
      BY <1>1, <3>1, TurnsType DEF P
  <2>3. l.parts \in Seq(P) /\ l.next \in Index
    BY <2>2 DEF Loops
  <2>4. Container(kind, l.parts) \in Over(V)
    BY <2>3, ContainerType DEF P
  <2> QED
    BY <2>1, <2>3, <2>4, ParsedType
<1> QED
  BY <1>2, <1>3

LEMMA ValueAtType ==
  ASSUME NEW V, NEW t \in Bytes, NEW i \in Index, NEW inside \in Rows(V)
  PROVE  ValueAt(t, i, inside) \subseteq Results(Over(V))
<1>1. /\ ContainerAt(t, i, inside, "object") \subseteq Results(Over(V))
      /\ ContainerAt(t, i, inside, "array") \subseteq Results(Over(V))
  BY ContainerAtType DEF Kinds
<1>2. NumberAt(t, i) \subseteq Results(Over(V)) /\ LiteralAt(t, i) \subseteq Results(Over(V))
  BY NumberAtType, LiteralAtType
<1>3. {Parsed(String(q.text), q.next) : q \in Quoted(t, i)} \subseteq Results(Over(V))
  <2> SUFFICES ASSUME NEW q \in Quoted(t, i)
               PROVE  Parsed(String(q.text), q.next) \in Results(Over(V))
    OBVIOUS
  <2>1. q.text \in Bytes /\ q.next \in Index
    BY QuotedType
  <2>2. String(q.text) \in Over(V)
    <3>1. String(q.text) \in [type : {"string"}, text : Bytes]
      BY <2>1 DEF String
    <3> QED
      BY <3>1 DEF Over
  <2> QED
    BY <2>1, <2>2, ParsedType
<1>4. ValueAt(t, i, inside) \in
        {ContainerAt(t, i, inside, "object"), ContainerAt(t, i, inside, "array"),
         {Parsed(String(q.text), q.next) : q \in Quoted(t, i)}, NumberAt(t, i), LiteralAt(t, i)}
  BY DEF ValueAt
<1> QED
  BY <1>1, <1>2, <1>3, <1>4

-----------------------------------------------------------------------------
(* The parser, by levels. *)

\* The values a level of the parser may return.
Held(n) == IF n = 0 THEN {} ELSE Values[n - 1]

Level(t, inside) == [i \in Index |-> ValueAt(t, Blank(t, i), inside)]

LEMMA HeldNext == \A n \in Nat : Over(Held(n)) = Held(n + 1) /\ Held(n + 1) = Values[n]
<1> SUFFICES ASSUME NEW n \in Nat PROVE Over(Held(n)) = Values[n] /\ Held(n + 1) = Values[n]
  OBVIOUS
<1>1. Held(n + 1) = Values[n]
  <2>1. n + 1 # 0 /\ (n + 1) - 1 = n
    OBVIOUS
  <2> QED
    BY <2>1 DEF Held
<1>2. CASE n = 0
  <2>1. Held(n) = {}
    BY <1>2 DEF Held
  <2> QED
    BY <1>1, <1>2, <2>1, ValuesAt
<1>3. CASE n # 0
  <2>1. n - 1 \in Nat /\ (n - 1) + 1 = n /\ Held(n) = Values[n - 1]
    BY <1>3 DEF Held
  <2> QED
    BY <1>1, <2>1, ValuesAt
<1> QED
  BY <1>2, <1>3

LEMMA LevelType ==
  ASSUME NEW V, NEW t \in Bytes, NEW inside \in Rows(V)
  PROVE  Level(t, inside) \in Rows(Over(V))
<1>1. \A i \in Index : ValueAt(t, Blank(t, i), inside) \subseteq Results(Over(V))
  BY BlankFirst, ValueAtType
<1> QED
  BY <1>1 DEF Level, Rows

LEMMA ParserLevels ==
  ASSUME NEW t \in Bytes
  PROVE  /\ Parser(t)[0] = [i \in Index |-> {}]
         /\ \A n \in Nat : Parser(t)[n + 1] = Level(t, Parser(t)[n])
         /\ \A n \in Nat : Parser(t)[n] \in Rows(Held(n))
<1> DEFINE D == UNION {Rows(Held(n)) : n \in Nat}
           first == [i \in Index |-> {}]
           level(g) == Level(t, g)
           next == [g \in D |-> level(g)]
<1>1. first \in Rows(Held(0))
  BY DEF Rows
<1>2. ASSUME NEW n \in Nat, NEW g \in Rows(Held(n))
      PROVE  level(g) \in Rows(Held(n + 1))
  <2>1. Over(Held(n)) = Held(n + 1)
    BY HeldNext
  <2> QED
    BY <2>1, LevelType
<1> HIDE DEF first, level
<1>3. first \in D /\ \A g \in D : level(g) \in D
  <2>1. first \in D
    BY <1>1
  <2>2. ASSUME NEW g \in D PROVE level(g) \in D
    <3>1. PICK n \in Nat : g \in Rows(Held(n))
      OBVIOUS
    <3>2. level(g) \in Rows(Held(n + 1)) /\ n + 1 \in Nat
      BY <1>2, <3>1
    <3> QED
      BY <3>2
  <2> QED
    BY <2>1, <2>2
<1> HIDE DEF D
<1>4. PICK f \in [Nat -> D] : f = [k \in Nat |-> IF k = 0 THEN first ELSE next[f[k - 1]]]
  <2>1. Repeats(D, first, next)
    BY <1>3 DEF Repeats
  <2> HIDE DEF next
  <2>2. Repeated(D, first, next)
    BY <2>1, Repetition
  <2> QED
    BY <2>2 DEF Repeated
<1> DEFINE row(g, levels) ==
             [i \in Index |->
                IF levels = 0 THEN {} ELSE ValueAt(t, Blank(t, i), g[levels - 1])]
<1>5. ASSUME NEW g, NEW levels \in Nat
      PROVE  row(g, levels) = IF levels = 0 THEN first ELSE level(g[levels - 1])
  <2>1. CASE levels = 0
    BY <2>1 DEF first
  <2>2. CASE levels # 0
    <3>1. row(g, levels) = [i \in Index |-> ValueAt(t, Blank(t, i), g[levels - 1])]
      BY <2>2
    <3> QED
      BY <2>2, <3>1 DEF level, Level
  <2> QED
    BY <2>1, <2>2
<1>6. f = [levels \in Nat |-> row(f, levels)]
  <2>1. ASSUME NEW k \in Nat PROVE f[k] = row(f, k)
    <3>1. f[k] = IF k = 0 THEN first ELSE next[f[k - 1]]
      <4> DEFINE e(j) == IF j = 0 THEN first ELSE next[f[j - 1]]
      <4>1. f = [j \in Nat |-> e(j)]
        BY <1>4
      <4> HIDE DEF e, next
      <4>2. f[k] = e(k)
        BY <4>1
      <4> QED
        BY <4>2 DEF e
    <3>2. ASSUME k # 0 PROVE next[f[k - 1]] = level(f[k - 1])
      <4>1. k - 1 \in Nat
        BY <3>2
      <4>2. f[k - 1] \in D
        BY <4>1
      <4> QED
        BY <4>2
    <3> HIDE DEF next, row
    <3> QED
      BY <1>5, <3>1, <3>2
  <2>2. f = [k \in Nat |-> f[k]]
    OBVIOUS
  <2> HIDE DEF row
  <2> QED
    BY <2>1, <2>2
<1> DEFINE parse[levels \in Nat] ==
             [i \in Index |->
                IF levels = 0 THEN {} ELSE ValueAt(t, Blank(t, i), parse[levels - 1])]
<1>7. parse = [levels \in Nat |-> row(parse, levels)]
  <2> HIDE DEF next
  <2> QED
    BY <1>6, Zenon DEF parse
<1>8. Parser(t) = parse
  BY Zenon DEF Parser, parse
<1> HIDE DEF parse, next, row
<1>9. \A n \in Nat : parse[n] = row(parse, n)
  BY <1>7
<1>10. parse[0] = first
  BY <1>5, <1>9
<1>11. ASSUME NEW n \in Nat PROVE parse[n + 1] = level(parse[n])
  <2>1. n + 1 \in Nat /\ n + 1 # 0 /\ (n + 1) - 1 = n
    OBVIOUS
  <2>2. row(parse, n + 1) = level(parse[n])
    BY <1>5, <2>1
  <2> QED
    BY <1>9, <2>1, <2>2
<1> DEFINE T == {n \in Nat : parse[n] \in Rows(Held(n))}
<1>12. \A n \in Nat : n \in T
  <2>1. 0 \in T
    BY <1>1, <1>10
  <2>2. ASSUME NEW n \in Nat, n \in T PROVE n + 1 \in T
    BY <1>2, <1>11, <2>2
  <2> HIDE DEF T
  <2> QED
    BY <2>1, <2>2, Induction
<1> QED
  BY <1>8, <1>10, <1>11, <1>12 DEF first, level

LEMMA ParseStringType ==
  ASSUME NEW t \in Bytes
  PROVE  ParseString(t) \subseteq Values[MAX_NESTING] /\ ParseString(t) \subseteq Value
<1>1. ParseString(t) \subseteq Values[MAX_NESTING]
  <2> SUFFICES ASSUME NEW p \in Parser(t)[MAX_NESTING + 1][1]
               PROVE  p.value \in Values[MAX_NESTING]
    BY DEF ParseString
  <2>1. MAX_NESTING \in Nat /\ MAX_NESTING + 1 \in Nat
    BY NestingAssumption
  <2>2. Parser(t)[MAX_NESTING + 1] \in Rows(Held(MAX_NESTING + 1))
    BY <2>1, ParserLevels
  <2>3. 1 \in Index
    BY DEF Index
  <2>4. p \in Results(Values[MAX_NESTING])
    BY <2>1, <2>2, <2>3, HeldNext DEF Rows
  <2> QED
    BY <2>4 DEF Results
<1>2. Values[MAX_NESTING] \subseteq Value
  BY NestingAssumption, DepthAssumption, ValuesMonotone DEF Value
<1> QED
  BY <1>1, <1>2

\* Whatever text json_parse_string is given, it returns no value that is nested
\* deeper than MAX_NESTING: parse_value counts the levels down, by arrays and
\* objects alike.
THEOREM NestingIsLimited == \A t \in Bytes : ParseString(t) \subseteq Values[MAX_NESTING]
BY ParseStringType

-----------------------------------------------------------------------------
(* The caller. *)

LEMMA TextType ==
  ASSUME body \in Seq(Chunk)
  PROVE  Text \in Bytes
<1>1. body \in Seq(Seq(Byte))
  BY TextAssumption, SeqMonotonic DEF Bytes
<1> QED
  BY <1>1, FlattenType DEF Text, Bytes

LEMMA StringType == \A s \in Word : String(s) \in Value /\ String(s) \in Values[MaxDepth - 1]
<1> SUFFICES ASSUME NEW s \in Word
             PROVE  String(s) \in Value /\ String(s) \in Values[MaxDepth - 1]
  OBVIOUS
<1>1. String(s) \in [type : {"string"}, text : Bytes]
  BY TextAssumption DEF String
<1>2. \A inner : String(s) \in Over(inner)
  BY <1>1 DEF Over
<1>3. String(s) \in Values[0]
  BY <1>2, ValuesAt
<1>4. MaxDepth \in Nat /\ MaxDepth - 1 \in Nat /\ 0 <= MaxDepth - 1 /\ 0 <= MaxDepth
  BY DepthAssumption
<1> QED
  BY <1>3, <1>4, ValuesMonotone DEF Value

LEMMA ValueOver == Value = Over(Values[MaxDepth - 1])
<1>1. MaxDepth - 1 \in Nat /\ (MaxDepth - 1) + 1 = MaxDepth
  BY DepthAssumption
<1> QED
  BY <1>1, ValuesAt DEF Value

LEMMA TextTypeStep == TextTypeOK /\ [TextNext]_textvars => TextTypeOK'
<1> SUFFICES ASSUME TextTypeOK, [TextNext]_textvars
             PROVE  TextTypeOK'
  OBVIOUS
<1> DEFINE V == Values[MaxDepth - 1]
<1>0. body \in Seq(Chunk) /\ value \in Value \cup {NoValue}
  BY DEF TextTypeOK
<1>1. CASE Receive
  <2>1. PICK c \in Chunk : body' = Append(body, c)
    BY <1>1 DEF Receive
  <2>2. body' \in Seq(Chunk)
    BY <1>0, <2>1, AppendProperties
  <2> QED
    BY <1>0, <1>1, <2>2 DEF Receive, TextTypeOK
<1>2. CASE ParseBody
  <2>1. value' \in Value
    BY <1>0, <1>2, TextType, ParseStringType DEF ParseBody
  <2> QED
    BY <1>2, <2>1 DEF ParseBody, TextTypeOK
<1>3. CASE RefuseBody
  BY <1>0, <1>3 DEF RefuseBody, TextTypeOK
<1>4. CASE NewContainer
  <2>1. \A kind \in Kinds : <<>> \in Seq(PartsOf(kind, V))
    OBVIOUS
  <2>2. Object(<<>>) \in Over(V) /\ Array(<<>>) \in Over(V)
    <3>1. \A kind \in Kinds : Container(kind, <<>>) \in Over(V)
      BY <2>1, ContainerType
    <3> QED
      BY <3>1 DEF Kinds, Container
  <2> QED
    BY <1>0, <1>4, <2>2, ValueOver DEF NewContainer, TextTypeOK
<1>5. CASE SetString
  <2> DEFINE P == [name : Bytes, value : V]
             members == value.members
  <2>1. body' = body /\ value # NoValue /\ value.type = "object"
    BY <1>5 DEF SetString, Builds
  <2>2. members \in Seq(P)
    BY <1>0, <2>1, ValueOver, OverShape
  <2>3. PICK name \in Word, s \in Word :
          IF name \in Names(members)
          THEN value' = Object([i \in DOMAIN members |->
                                  IF members[i].name = name THEN Pair(name, String(s))
                                  ELSE members[i]])
          ELSE value' = Object(Append(members, Pair(name, String(s))))
    BY <1>5 DEF SetString
  <2>4. Pair(name, String(s)) \in P
    BY StringType, TextAssumption DEF Pair
  <2> HIDE DEF P, members
  <2>5. \E parts \in Seq(P) : value' = Object(parts)
    <3>1. CASE name \in Names(members)
      <4> DEFINE new == [i \in DOMAIN members |->
                           IF members[i].name = name THEN Pair(name, String(s)) ELSE members[i]]
      <4>1. new \in Seq(P)
        BY <2>2, <2>4
      <4>2. value' = Object(new)
        BY <2>3, <3>1
      <4> HIDE DEF new
      <4> QED
        BY <4>1, <4>2
    <3>2. CASE name \notin Names(members)
      <4>1. Append(members, Pair(name, String(s))) \in Seq(P)
        BY <2>2, <2>4, AppendProperties
      <4> QED
        BY <2>3, <3>2, <4>1
    <3> QED
      BY <3>1, <3>2
  <2>6. PICK parts \in Seq(P) : value' = Object(parts)
    BY <2>5
  <2>7. Container("object", parts) \in Over(V)
    BY <2>6, ContainerType DEF Kinds, PartsOf, P
  <2>8. value' \in Value
    BY <2>6, <2>7, ValueOver DEF Container
  <2> QED
    BY <1>0, <2>1, <2>8 DEF TextTypeOK
<1>6. CASE AppendString
  <2>1. body' = body /\ value # NoValue /\ value.type = "array"
    BY <1>6 DEF AppendString, Builds
  <2>2. value.items \in Seq(V)
    BY <1>0, <2>1, ValueOver, OverShape
  <2>3. PICK s \in Word : value' = Array(Append(value.items, String(s)))
    BY <1>6 DEF AppendString
  <2>4. Append(value.items, String(s)) \in Seq(V)
    BY <2>2, StringType, AppendProperties
  <2>5. Container("array", Append(value.items, String(s))) \in Over(V)
    BY <2>4, ContainerType DEF Kinds, PartsOf
  <2>6. value' \in Value
    BY <2>3, <2>5, ValueOver DEF Container
  <2> QED
    BY <1>0, <2>1, <2>6 DEF TextTypeOK
<1>7. CASE Wrap
  BY <1>0, <1>7 DEF Wrap, Builds, TextTypeOK
<1>8. CASE Done
  BY <1>0, <1>8 DEF Done, TextTypeOK
<1>9. CASE UNCHANGED textvars
  BY <1>0, <1>9 DEF textvars, TextTypeOK
<1> QED
  BY <1>1, <1>2, <1>3, <1>4, <1>5, <1>6, <1>7, <1>8, <1>9 DEF TextNext

\* What the parser makes of a body, and what json_object_set_string,
\* json_array_append_string and the like make of a caller's strings, is a value
\* of the library: its strings and names are bytes, its parts values again.
THEOREM TextTypeCorrect == TextSpec => []TextTypeOK
<1>1. TextInit => TextTypeOK
  BY DEF TextInit, TextTypeOK
<1> QED
  BY <1>1, TextTypeStep, PTL DEF TextSpec

\* json_serialization_size_r counts to the byte what json_serialize_to_buffer_r
\* writes, for every value: the buffer of json_serialize_to_string is filled to
\* its end and not beyond.
THEOREM SizesAreExact == TextSpec => []SizeExact
<1>1. TextTypeOK => SizeExact
  <2> SUFFICES ASSUME TextTypeOK, value # NoValue
               PROVE  Len(Written[value]) + 1 = SizeOf[value] + 1
    BY DEF SizeExact, SerializationSize
  <2>1. value \in Value
    BY DEF TextTypeOK
  <2>2. SizeOf[value] = Len(Written[value])
    BY <2>1, SizeOfExact
  <2> QED
    BY <2>2
<1> QED
  BY <1>1, TextTypeCorrect, PTL
=============================================================================
