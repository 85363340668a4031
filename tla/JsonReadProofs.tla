--------------------------- MODULE JsonReadProofs ----------------------------
(***************************************************************************)
(* Proofs that the parser of JsonText reads what its serialiser writes,    *)
(* and nothing of a text that breaks off.  A text agrees with what a value *)
(* is written as, as far as the text goes; what each function of the       *)
(* parser returns there is said once for both (ReadTo, PartTo, Spread) and *)
(* carried up the levels of nesting (ParserReads).                         *)
(***************************************************************************)
EXTENDS JsonParseProofs

-----------------------------------------------------------------------------
(* Texts within a text. *)

\* At i the text t has w, as far as t goes.
Agrees(t, i, w) == \A k \in 1 .. Len(w) : (i + k) - 1 <= Len(t) => t[(i + k) - 1] = w[k]

LEMMA AgreesAt ==
  ASSUME NEW t \in Bytes, NEW i \in Index, NEW w \in Bytes, Agrees(t, i, w), NEW k \in 1 .. Len(w)
  PROVE  /\ (i + k) - 1 \in Index
         /\ (i + k) - 1 <= Len(t) => At(t, (i + k) - 1) = w[k]
         /\ (i + k) - 1 > Len(t) => At(t, (i + k) - 1) = 0
<1>1. Len(w) \in Nat /\ Len(t) \in Nat /\ i \in Nat /\ i >= 1
  BY Indexed DEF Index
<1>2. (i + k) - 1 \in Index
  BY <1>1 DEF Index
<1> DEFINE j == (i + k) - 1
<1>3. j <= Len(t) => t[j] = w[k]
  BY DEF Agrees
<1>4. j \in Nat
  BY <1>2 DEF Index
<1> HIDE DEF j
<1>5. /\ j <= Len(t) => At(t, j) = w[k]
      /\ j > Len(t) => At(t, j) = 0
  BY <1>1, <1>3, <1>4 DEF At
<1> QED
  BY <1>2, <1>5 DEF j

LEMMA AgreesJoin ==
  ASSUME NEW t \in Bytes, NEW i \in Index, NEW a \in Bytes, NEW b \in Bytes,
         Agrees(t, i, a \o b)
  PROVE  Agrees(t, i, a) /\ Agrees(t, i + Len(a), b) /\ i + Len(a) \in Index
<1> DEFINE c == a \o b
           n == Len(a)
           m == Len(b)
<1>1. n \in Nat /\ m \in Nat /\ i \in Nat /\ i >= 1 /\ Len(c) = n + m
  BY Indexed, JoinedLength DEF Index
<1>2. /\ \A k \in 1 .. n : c[k] = a[k]
      /\ \A k \in 1 .. m : c[n + k] = b[k]
  BY ConcatProperties DEF Bytes
<1>3. \A k \in 1 .. Len(c) : (i + k) - 1 <= Len(t) => t[(i + k) - 1] = c[k]
  BY DEF Agrees
<1> HIDE DEF c, n, m
<1>4. ASSUME NEW k \in 1 .. n, (i + k) - 1 <= Len(t) PROVE t[(i + k) - 1] = a[k]
  <2>1. k \in 1 .. Len(c)
    BY <1>1
  <2> QED
    BY <1>2, <1>3, <1>4, <2>1
<1>5. ASSUME NEW k \in 1 .. m, ((i + n) + k) - 1 <= Len(t) PROVE t[((i + n) + k) - 1] = b[k]
  <2>1. n + k \in 1 .. Len(c) /\ (i + (n + k)) - 1 = ((i + n) + k) - 1
    BY <1>1
  <2>2. t[(i + (n + k)) - 1] = c[n + k]
    BY <1>3, <1>5, <2>1
  <2> QED
    BY <1>2, <2>1, <2>2
<1>6. i + n \in Index
  BY <1>1 DEF Index
<1> QED
  BY <1>4, <1>5, <1>6 DEF Agrees, n, m

\* Where the sequences begin that are flattened into one.
Lays(seqs, off) ==
  /\ off \in [0 .. Len(seqs) -> Nat] /\ off[0] = 0
  /\ \A k \in 1 .. Len(seqs) : off[k] = off[k - 1] + Len(seqs[k])
  /\ off[Len(seqs)] = Len(Seqs!FlattenSeq(seqs))
  /\ \A t \in Bytes, i \in Index :
       Agrees(t, i, Seqs!FlattenSeq(seqs)) =>
         \A k \in 1 .. Len(seqs) : Agrees(t, i + off[k - 1], seqs[k]) /\ i + off[k - 1] \in Index

LEMMA LaysExist ==
  ASSUME NEW seqs \in Seq(Bytes)
  PROVE  \E off : Lays(seqs, off)
<1> DEFINE n == Len(seqs)
<1>0. n \in Nat /\ seqs \in Seq(Seq(Byte)) /\ \A k \in 1 .. n : seqs[k] \in Bytes
  BY DEF Bytes
<1>1. PICK flat \in [0 .. n -> Seq(Byte)] :
        /\ flat[0] = <<>>
        /\ \A k \in 1 .. n : flat[k] = flat[k - 1] \o seqs[k]
        /\ Seqs!FlattenSeq(seqs) = flat[n]
  BY <1>0, Flattened
<1> HIDE DEF n
<1>2. \A k \in 0 .. n : flat[k] \in Bytes /\ Len(flat[k]) \in Nat
  BY <1>1, Indexed DEF Bytes
<1> DEFINE off == [k \in 0 .. n |-> Len(flat[k])]
<1>3. off \in [0 .. n -> Nat] /\ off[0] = 0 /\ off[n] = Len(Seqs!FlattenSeq(seqs))
  <2>1. 0 \in 0 .. n /\ n \in 0 .. n
    BY <1>0
  <2>2. Len(<<>>) = 0
    BY NoBytes
  <2> QED
    BY <1>1, <1>2, <2>1, <2>2
<1>4. ASSUME NEW k \in 1 .. n PROVE off[k] = off[k - 1] + Len(seqs[k])
  <2>1. k \in 0 .. n /\ k - 1 \in 0 .. n
    BY <1>0
  <2>2. Len(flat[k - 1] \o seqs[k]) = Len(flat[k - 1]) + Len(seqs[k])
    BY <1>0, <1>2, <2>1, JoinedLength
  <2>3. flat[k] = flat[k - 1] \o seqs[k]
    BY <1>1
  <2> QED
    BY <2>1, <2>2, <2>3
<1>5. ASSUME NEW t \in Bytes, NEW i \in Index, Agrees(t, i, Seqs!FlattenSeq(seqs)),
             NEW k \in 1 .. n
      PROVE  Agrees(t, i + off[k - 1], seqs[k]) /\ i + off[k - 1] \in Index
  <2> DEFINE S == {j \in 0 .. n : Agrees(t, i, flat[n - j])}
  <2>1. 0 \in S
    <3>1. n - 0 = n /\ 0 \in 0 .. n
      BY <1>0
    <3> QED
      BY <1>1, <1>5, <3>1
  <2>2. ASSUME NEW j \in 1 .. n, j - 1 \in S PROVE j \in S
    <3> DEFINE l == n - (j - 1)
    <3>1. l \in 1 .. n /\ l - 1 = n - j /\ l - 1 \in 0 .. n /\ j \in 0 .. n
      BY <1>0
    <3>2. Agrees(t, i, flat[l])
      BY <2>2
    <3> HIDE DEF l
    <3>3. Agrees(t, i, flat[l - 1] \o seqs[l])
      BY <1>1, <3>1, <3>2
    <3>4. Agrees(t, i, flat[l - 1])
      BY <1>0, <1>2, <3>1, <3>3, AgreesJoin
    <3> QED
      BY <3>1, <3>4
  <2> HIDE DEF S
  <2>3. \A j \in 0 .. n : j \in S
    BY <1>0, <2>1, <2>2, InductionUpTo
  <2>4. n - k \in 0 .. n /\ n - (n - k) = k /\ k - 1 \in 0 .. n
    BY <1>0
  <2>5. Agrees(t, i, flat[k])
    BY <2>3, <2>4 DEF S
  <2>6. Agrees(t, i, flat[k - 1] \o seqs[k])
    BY <1>1, <2>5
  <2>7. Agrees(t, i + Len(flat[k - 1]), seqs[k]) /\ i + Len(flat[k - 1]) \in Index
    BY <1>0, <1>2, <2>4, <2>6, AgreesJoin
  <2> QED
    BY <2>4, <2>7
<1> HIDE DEF off
<1>6. Lays(seqs, off)
  BY <1>3, <1>4, <1>5 DEF Lays, n
<1> QED
  BY <1>6

\* A text agrees with itself.
LEMMA AgreesSelf ==
  ASSUME NEW w \in Bytes
  PROVE  Agrees(w, 1, w)
<1>1. Len(w) \in Nat
  BY Indexed
<1>2. \A k \in 1 .. Len(w) : (1 + k) - 1 = k
  BY <1>1
<1> QED
  BY <1>2 DEF Agrees

-----------------------------------------------------------------------------
(* Numbers are read as they are written. *)

LEMMA DigitsAppend ==
  ASSUME NEW d \in Seq(Digit), NEW c \in Digit
  PROVE  /\ Append(d, c) \in Seq(Digit) /\ Len(Append(d, c)) = Len(d) + 1
         /\ Append(d, c)[Len(d) + 1] = c
         /\ \A k \in 1 .. Len(d) : Append(d, c)[k] = d[k]
         /\ Numeral(Append(d, c)) = 10 * Numeral(d) + c - 48
<1> DEFINE e == Append(d, c)
           n == Len(d)
<1>1. e \in Seq(Digit) /\ Len(e) = n + 1 /\ e[n + 1] = c /\ \A k \in 1 .. n : e[k] = d[k]
  BY AppendProperties
<1>2. n \in Nat
  OBVIOUS
<1> HIDE DEF e, n
<1>3. PICK f \in [0 .. n -> Nat] :
        /\ f[0] = 0 /\ \A k \in 1 .. n : f[k] = 10 * f[k - 1] + d[k] - 48
        /\ Numeral(d) = f[n]
  BY NumeralSum DEF n
<1>4. PICK g \in [0 .. Len(e) -> Nat] :
        /\ g[0] = 0 /\ \A k \in 1 .. Len(e) : g[k] = 10 * g[k - 1] + e[k] - 48
        /\ Numeral(e) = g[Len(e)]
  BY <1>1, NumeralSum
<1> DEFINE S == {k \in 0 .. n : g[k] = f[k]}
<1>5. 0 \in S
  BY <1>2, <1>3, <1>4
<1>6. ASSUME NEW k \in 1 .. n, k - 1 \in S PROVE k \in S
  <2>1. k \in 1 .. Len(e) /\ k \in 0 .. n
    BY <1>1, <1>2
  <2>2. g[k] = 10 * g[k - 1] + e[k] - 48
    BY <1>4, <2>1
  <2>3. f[k] = 10 * f[k - 1] + d[k] - 48
    BY <1>3
  <2>4. e[k] = d[k] /\ g[k - 1] = f[k - 1]
    BY <1>1, <1>6
  <2> QED
    BY <2>1, <2>2, <2>3, <2>4
<1> HIDE DEF S
<1>7. \A k \in 0 .. n : k \in S
  BY <1>2, <1>5, <1>6, InductionUpTo
<1>8. n \in 0 .. n /\ n + 1 \in 1 .. Len(e) /\ (n + 1) - 1 = n
  BY <1>1, <1>2
<1>9. g[n] = f[n]
  BY <1>7, <1>8 DEF S
<1>10. g[n + 1] = 10 * g[n] + e[n + 1] - 48
  BY <1>4, <1>8
<1>11. Numeral(e) = 10 * Numeral(d) + c - 48
  BY <1>1, <1>3, <1>4, <1>9, <1>10
<1> QED
  BY <1>1, <1>11 DEF e, n

LEMMA NoDigits == <<>> \in Seq(Digit) /\ Len(<<>>) = 0 /\ Numeral(<<>>) = 0
<1>1. <<>> \in Seq(Digit) /\ Len(<<>>) = 0
  OBVIOUS
<1>2. PICK f \in [0 .. 0 -> Nat] : f[0] = 0 /\ Numeral(<<>>) = f[Len(<<>>)]
  BY <1>1, NumeralSum
<1> QED
  BY <1>1, <1>2

\* The decimal numeral of n.
Writes(d, n) ==
  /\ d \in Seq(Digit) /\ Len(d) >= 1 /\ Numeral(d) = n
  /\ (Len(d) = 1 \/ d[1] # 48) /\ (n # 0 => d[1] # 48)

LEMMA DecimalWrites == \A n \in Nat : Writes(Decimal[n], n)
<1> DEFINE T == {n \in Nat : Writes(Decimal[n], n)}
           rank == [n \in Nat |-> n]
<1>1. rank \in [Nat -> Nat] /\ \A n \in Nat : rank[n] = n
  OBVIOUS
<1>2. ASSUME NEW n \in Nat, \A m \in Nat : rank[m] < rank[n] => m \in T
      PROVE  Writes(Decimal[n], n)
  <2>1. CASE n < 10
    <3> DEFINE c == 48 + n
    <3>1. c \in Digit /\ c - 48 = n /\ (n # 0 => c # 48)
      BY <2>1 DEF Digit
    <3>2. Decimal[n] = <<c>>
      BY <2>1, DecimalEquation
    <3> HIDE DEF c
    <3>3. <<c>> = Append(<<>>, c)
      OBVIOUS
    <3> DEFINE d == Append(<<>>, c)
    <3>4. /\ d \in Seq(Digit) /\ Len(d) = Len(<<>>) + 1 /\ d[Len(<<>>) + 1] = c
          /\ Numeral(d) = 10 * Numeral(<<>>) + c - 48
      BY <3>1, NoDigits, DigitsAppend
    <3> HIDE DEF d
    <3>5. d \in Seq(Digit) /\ Len(d) = 1 /\ d[1] = c
      <4>1. Len(<<>>) + 1 = 1
        BY NoDigits
      <4> QED
        BY <3>4, <4>1
    <3>6. Numeral(d) = n
      <4>1. c \in Nat
        BY <3>1 DEF Digit
      <4> QED
        BY <3>1, <3>4, <4>1, NoDigits
    <3>7. Writes(d, n)
      BY <3>1, <3>5, <3>6 DEF Writes
    <3> QED
      BY <3>2, <3>3, <3>7 DEF d
  <2>2. CASE ~(n < 10)
    <3> DEFINE m == n \div 10
               c == 48 + (n % 10)
               d == Decimal[m]
    <3>1. m \in Nat /\ m < n /\ m # 0 /\ 10 * m + (n % 10) = n /\ n % 10 \in 0 .. 9
      BY <2>2
    <3>2. c \in Digit /\ c - 48 = n % 10 /\ c \in Nat
      BY <3>1 DEF Digit
    <3>3. Decimal[n] = Append(d, c)
      BY <2>2, DecimalEquation
    <3>4. 10 * m + c - 48 = n
      BY <3>1, <3>2
    <3> HIDE DEF m, c, d
    <3>5. Writes(d, m)
      BY <1>1, <1>2, <3>1 DEF d
    <3>6. d \in Seq(Digit) /\ Len(d) >= 1 /\ Numeral(d) = m /\ d[1] # 48
      BY <3>1, <3>5 DEF Writes
    <3> DEFINE e == Append(d, c)
    <3>7. /\ e \in Seq(Digit) /\ Len(e) = Len(d) + 1 /\ \A k \in 1 .. Len(d) : e[k] = d[k]
          /\ Numeral(e) = 10 * Numeral(d) + c - 48
      BY <3>2, <3>6, DigitsAppend
    <3> HIDE DEF e
    <3>8. Len(d) \in Nat
      BY <3>6
    <3>9. 1 \in 1 .. Len(d) /\ Len(e) >= 1
      BY <3>6, <3>7, <3>8
    <3>10. e[1] # 48
      BY <3>6, <3>7, <3>9
    <3>11. Writes(e, n)
      BY <3>4, <3>6, <3>7, <3>9, <3>10 DEF Writes
    <3> QED
      BY <3>3, <3>11 DEF e
  <2> QED
    BY <2>1, <2>2
<1>3. Nat \subseteq T
  <2>1. \A n \in Nat : (\A m \in Nat : rank[m] < rank[n] => m \in T) => n \in T
    BY <1>2
  <2> HIDE DEF T, rank
  <2> QED
    BY <1>1, <2>1, RankInduction
<1> QED
  BY <1>3

\* A first position is the only one.
LEMMA FirstOnly ==
  ASSUME NEW t, NEW i \in Index, NEW j \in Index, NEW e \in Index, NEW skipped,
         j >= i, At(t, j) \notin skipped, \A k \in i .. j - 1 : At(t, k) \in skipped,
         e >= i, At(t, e) \notin skipped, \A k \in i .. e - 1 : At(t, k) \in skipped
  PROVE  j = e
<1>1. i \in Nat /\ j \in Nat /\ e \in Nat
  BY DEF Index
<1>2. ~(j < e)
  <2> SUFFICES ASSUME j < e PROVE FALSE
    OBVIOUS
  <2>1. j \in i .. e - 1
    BY <1>1
  <2> QED
    BY <2>1
<1>3. ~(e < j)
  <2> SUFFICES ASSUME e < j PROVE FALSE
    OBVIOUS
  <2>1. e \in i .. j - 1
    BY <1>1
  <2> QED
    BY <2>1
<1> QED
  BY <1>1, <1>2, <1>3

LEMMA BlankStays ==
  ASSUME NEW t \in Bytes, NEW i \in Index, At(t, i) \notin White
  PROVE  Blank(t, i) = i
<1>1. /\ Blank(t, i) \in Index /\ Blank(t, i) >= i /\ At(t, Blank(t, i)) \notin White
      /\ \A k \in i .. Blank(t, i) - 1 : At(t, k) \in White
  BY BlankFirst
<1>2. i >= i /\ \A k \in i .. i - 1 : At(t, k) \in White
  BY DEF Index
<1> DEFINE j == Blank(t, i)
<1> HIDE DEF j
<1>3. /\ j \in Index /\ j >= i /\ At(t, j) \notin White
      /\ \A k \in i .. j - 1 : At(t, k) \in White
  BY <1>1 DEF j
<1>4. j = i
  BY <1>2, <1>3, FirstOnly
<1> QED
  BY <1>4 DEF j

\* What may follow a value in a text.
Follow == {COMMA, Closing.array, Closing.object}

LEMMA FollowIs ==
  /\ Follow = {44, 93, 125}
  /\ \A b \in Follow : b # 0 /\ b \notin White /\ b \notin Digit
  /\ \A kind \in Kinds : Closing[kind] \in Follow /\ COMMA # Closing[kind]
<1>1. Follow = {44, 93, 125}
  BY DEF Follow, Closing, COMMA
<1>2. \A b \in {44, 93, 125} : b # 0 /\ b \notin White /\ b \notin Digit
  BY DEF White, Digit
<1>3. \A kind \in Kinds : Closing[kind] \in Follow /\ COMMA # Closing[kind]
  BY DEF Follow, Kinds, Closing, COMMA
<1> QED
  BY <1>1, <1>2, <1>3

LEMMA NumberReads ==
  ASSUME NEW t \in Bytes, NEW i \in Index, i <= Len(t), NEW n \in Nat, Agrees(t, i, Decimal[n]),
         NEW e, e = i + Len(Decimal[n])
  PROVE  /\ At(t, i) \in Digit
         /\ At(t, e) \in Follow => NumberAt(t, i) = {Parsed(Number(n), e)}
         /\ e > Len(t) => \A p \in NumberAt(t, i) : At(t, p.next) = 0
<1> DEFINE d == Decimal[n]
           m == Len(d)
           f == DigitsEnd(t, i)
<1>1. d \in Seq(Digit) /\ m >= 1 /\ Numeral(d) = n /\ (m = 1 \/ d[1] # 48) /\ d \in Bytes
  BY DecimalWrites, DecimalEquation DEF Writes
<1>2. m \in Nat /\ i \in Nat /\ i >= 1 /\ Len(t) \in Nat
  BY <1>1, Indexed DEF Index
<1>3. e = i + m /\ Agrees(t, i, d)
  OBVIOUS
<1>4. \A k \in 1 .. m : d[k] \in Digit
  BY <1>1
<1>5. /\ f \in Index /\ f >= i /\ At(t, f) \notin Digit
      /\ \A k \in i .. f - 1 : At(t, k) \in Digit
  BY DigitsEndFirst
<1>a. \A p \in NumberAt(t, i) : p.next = f
  BY DEF NumberAt, Parsed
<1>b. NumberAt(t, i) = {p \in {Parsed(Number(Numeral(SubSeq(t, i, f - 1))), f)} :
                          IsDecimal(SubSeq(t, i, f - 1))}
  BY DEF NumberAt
<1> HIDE DEF d, m, f
<1>6. ASSUME NEW j \in i .. e - 1, j <= Len(t) PROVE At(t, j) \in Digit
  <2> DEFINE k == (j - i) + 1
  <2>1. k \in 1 .. m /\ (i + k) - 1 = j
    BY <1>2, <1>3
  <2> HIDE DEF k
  <2>2. At(t, j) = d[k]
    BY <1>1, <1>3, <1>6, <2>1, AgreesAt DEF m
  <2> QED
    BY <1>4, <2>1, <2>2
<1>7. At(t, i) \in Digit
  <2>1. i \in i .. e - 1
    BY <1>1, <1>2, <1>3
  <2> QED
    BY <1>6, <2>1
<1>8. ASSUME At(t, e) \in Follow PROVE NumberAt(t, i) = {Parsed(Number(n), e)}
  <2>1. e \in Index /\ e >= i
    BY <1>2, <1>3 DEF Index
  <2>2. e \in 1 .. Len(t) /\ At(t, e) \notin Digit
    BY <1>8, <2>1, AtWithin, FollowIs
  <2>3. \A k \in i .. e - 1 : At(t, k) \in Digit
    BY <1>2, <1>3, <1>6, <2>2
  <2>4. f = e
    BY <1>5, <2>1, <2>2, <2>3, FirstOnly
  <2>5. SubSeq(t, i, f - 1) = d
    <3> DEFINE u == SubSeq(t, i, e - 1)
    <3>1. i \in 1 .. Len(t) + 1 /\ e - 1 \in (i - 1) .. Len(t)
      BY <1>1, <1>2, <1>3, <2>2
    <3>2. u \in Bytes /\ Len(u) = m /\ \A k \in 1 .. m : u[k] = t[(i + k) - 1]
      <4>1. u \in Seq(Byte) /\ Len(u) = (IF i <= e - 1 THEN (e - 1) - i + 1 ELSE 0)
            /\ \A k \in 1 .. (e - 1) - i + 1 : u[k] = t[i + k - 1]
        BY <1>2, <2>2, SubSeqProperties DEF Bytes
      <4> HIDE DEF u
      <4>2. i <= e - 1 /\ (e - 1) - i + 1 = m
        <5>1. m >= 1 /\ m \in Nat /\ i \in Nat
          BY <1>1, <1>2
        <5>2. e = i + m
          BY <1>3
        <5>3. i <= e - 1
          BY <5>1, <5>2
        <5>4. (e - 1) - i = m - 1
          <6>3. e \in Nat
            BY <5>1, <5>2
          <6>4. (i + m) - i = m
            BY <5>1
          <6>1. e \in Nat /\ e - i = m
            BY <5>2, <6>3, <6>4
          <6>2. (e - 1) - i = (e - i) - 1
            BY <5>1, <6>1
          <6> QED
            BY <6>1, <6>2
        <5> QED
          BY <5>1, <5>3, <5>4
      <4>3. \A k \in 1 .. m : i + k - 1 = (i + k) - 1
        BY <1>2
      <4> QED
        BY <4>1, <4>2, <4>3 DEF Bytes
    <3>3. \A k \in 1 .. m : t[(i + k) - 1] = d[k]
      <4>1. \A k \in 1 .. m : (i + k) - 1 <= Len(t)
        BY <1>2, <1>3, <2>2
      <4> QED
        BY <1>3, <4>1 DEF Agrees, m
    <3> HIDE DEF u
    <3>4. u \in Seq(Byte) /\ d \in Seq(Byte) /\ Len(u) = Len(d) /\ \A k \in 1 .. Len(u) : u[k] = d[k]
      BY <1>1, <3>2, <3>3 DEF Bytes, m
    <3>5. u = d
      BY <3>4, SeqEqual
    <3> QED
      BY <2>4, <3>5 DEF u
  <2>6. IsDecimal(d)
    BY <1>1 DEF IsDecimal, m
  <2>7. NumberAt(t, i) = {p \in {Parsed(Number(n), e)} : TRUE}
    BY <1>1, <1>b, <2>4, <2>5, <2>6
  <2> QED
    BY <2>7
<1>9. ASSUME e > Len(t), NEW p \in NumberAt(t, i) PROVE At(t, p.next) = 0
  <2>1. f > Len(t)
    <3> SUFFICES ASSUME f <= Len(t) PROVE FALSE
      BY <1>2, <1>5 DEF Index
    <3>1. f \in i .. e - 1
      BY <1>2, <1>3, <1>5, <1>9 DEF Index
    <3> QED
      BY <1>5, <1>6, <3>1
  <2> QED
    BY <1>5, <1>a, <2>1, AtType
<1> QED
  BY <1>7, <1>8, <1>9

LEMMA PrefixAt ==
  ASSUME NEW t \in Bytes, NEW i \in Index, NEW w \in Bytes, Len(w) >= 1
  PROVE  Seqs!IsPrefix(w, From(t, i)) <=>
           (i + Len(w)) - 1 <= Len(t) /\ \A k \in 1 .. Len(w) : t[(i + k) - 1] = w[k]
<1> DEFINE m == Len(w)
           s == From(t, i)
           n == Len(t)
<1>1. m \in Nat /\ m >= 1 /\ n \in Nat /\ i \in Nat /\ i >= 1
  BY Indexed DEF Index
<1>2. Seqs!IsPrefix(w, s) <=> m <= Len(s) /\ SubSeq(w, 1, m) = SubSeq(s, 1, m)
  BY DEF Seqs!IsPrefix
<1>3. CASE i > n
  <2>1. s = <<>>
    <3>1. s = SubSeq(t, i, n)
      BY DEF From
    <3>2. SubSeq(t, i, n) = <<>>
      BY <1>1, <1>3, SubSeqEmpty
    <3> QED
      BY <3>1, <3>2
  <2>2. Len(s) = 0
    BY <2>1, NoBytes
  <2> HIDE DEF s, m, n
  <2>3. ~(m <= Len(s)) /\ ~((i + m) - 1 <= n)
    BY <1>1, <1>3, <2>2
  <2> QED
    BY <1>2, <2>3 DEF s, m, n
<1>4. CASE i <= n
  <2>1. s \in Bytes /\ Len(s) = n + 1 - i /\ \A k \in 1 .. n + 1 - i : s[k] = t[i + k - 1]
    <3>1. i \in 1 .. n + 1
      <4> HIDE DEF n
      <4> QED
        BY <1>1, <1>4
    <3> QED
      BY <3>1, FromType DEF Bytes
  <2> HIDE DEF s
  <2>2. m <= Len(s) <=> (i + m) - 1 <= n
    <3> HIDE DEF m, n
    <3> QED
      BY <1>1, <2>1
  <2>3. ASSUME m <= Len(s)
        PROVE  SubSeq(w, 1, m) = SubSeq(s, 1, m) <=> \A k \in 1 .. m : t[(i + k) - 1] = w[k]
    <3>1. m \in 0 .. Len(w) /\ m \in 0 .. Len(s)
      <4>1. Len(s) \in Nat
        BY <2>1, Indexed
      <4>2. m = Len(w)
        OBVIOUS
      <4> HIDE DEF m
      <4> QED
        BY <1>1, <2>3, <4>1, <4>2
    <3> DEFINE a == SubSeq(w, 1, m)
               b == SubSeq(s, 1, m)
    <3> HIDE DEF m
    <3>2. /\ a \in Bytes /\ Len(a) = m /\ \A k \in 1 .. m : a[k] = w[k]
          /\ b \in Bytes /\ Len(b) = m /\ \A k \in 1 .. m : b[k] = s[k]
      BY <2>1, <3>1, Cut
    <3> HIDE DEF a, b
    <3>3. \A k \in 1 .. m : s[k] = t[(i + k) - 1]
      <4> SUFFICES ASSUME NEW k \in 1 .. m PROVE s[k] = t[(i + k) - 1]
        OBVIOUS
      <4>1. k \in 1 .. n + 1 - i /\ i + k - 1 = (i + k) - 1
        <5> HIDE DEF n
        <5> QED
          BY <1>1, <2>1, <2>3
      <4> QED
        BY <2>1, <4>1
    <3>4. a = b <=> \A k \in 1 .. m : a[k] = b[k]
      BY <3>2, SeqEqual DEF Bytes
    <3> QED
      BY <3>2, <3>3, <3>4 DEF a, b
  <2> DEFINE A == SubSeq(w, 1, m) = SubSeq(s, 1, m)
             C == \A k \in 1 .. m : t[(i + k) - 1] = w[k]
             D == m <= Len(s)
             E == (i + m) - 1 <= n
  <2>4. (Seqs!IsPrefix(w, s) <=> D /\ A) /\ (D <=> E) /\ (D => (A <=> C))
    BY <1>2, <2>2, <2>3
  <2> HIDE DEF A, C, D, E
  <2>5. Seqs!IsPrefix(w, s) <=> E /\ C
    BY <2>4
  <2> QED
    BY <2>5 DEF C, E, s
<1> QED
  BY <1>1, <1>3, <1>4

\* The first byte tells which literal it is.
LEMMA LiteralFirst ==
  /\ \A l \in DOMAIN Literal : Literal[l][1] \in {102, 110, 116}
  /\ \A l, k \in DOMAIN Literal : Literal[l][1] = Literal[k][1] => l = k
  /\ \A l \in DOMAIN Literal : Literal[l] \in Bytes /\ Len(Literal[l]) >= 1
<1>1. DOMAIN Literal = {"null", "true", "false"}
  BY LiteralType
<1>2. Literal["null"][1] = 110 /\ Literal["true"][1] = 116 /\ Literal["false"][1] = 102
  BY DEF Literal
<1>3. ASSUME NEW l \in DOMAIN Literal PROVE Literal[l] \in Bytes /\ Len(Literal[l]) >= 1
  <2> DEFINE m == Len(Literal[l])
  <2>1. Literal[l] \in Bytes /\ m = (IF l = "false" THEN 5 ELSE 4)
    BY LiteralType
  <2> HIDE DEF m
  <2>2. m >= 1
    BY <2>1
  <2> QED
    BY <2>1, <2>2 DEF m
<1> QED
  BY <1>1, <1>2, <1>3

LEMMA LiteralReads ==
  ASSUME NEW t \in Bytes, NEW i \in Index, NEW l \in DOMAIN Literal, Agrees(t, i, Literal[l]),
         NEW e, e = i + Len(Literal[l])
  PROVE  /\ e <= Len(t) + 1 => LiteralAt(t, i) = {Parsed(Plain(l), e)}
         /\ e > Len(t) + 1 => LiteralAt(t, i) = {}
<1> DEFINE w == Literal[l]
           m == Len(w)
           n == Len(t)
<1>1. w \in Bytes /\ m >= 1 /\ m \in Nat /\ n \in Nat /\ i \in Nat
  BY LiteralFirst, Indexed DEF Index
<1>2. \A k \in 1 .. m : (i + k) - 1 <= n => t[(i + k) - 1] = w[k]
  BY DEF Agrees
<1> HIDE DEF m, n
<1>3. Seqs!IsPrefix(w, From(t, i)) <=> e <= n + 1
  <2>1. Seqs!IsPrefix(w, From(t, i)) <=>
           (i + m) - 1 <= n /\ \A k \in 1 .. m : t[(i + k) - 1] = w[k]
    BY <1>1, PrefixAt DEF m, n
  <2>2. (i + m) - 1 <= n <=> e <= n + 1
    BY <1>1 DEF m, w
  <2>3. (i + m) - 1 <= n => \A k \in 1 .. m : (i + k) - 1 <= n
    BY <1>1
  <2> QED
    BY <1>2, <2>1, <2>2, <2>3
<1>4. ASSUME NEW k \in DOMAIN Literal, Seqs!IsPrefix(Literal[k], From(t, i)) PROVE k = l
  <2>0. Literal[k] \in Bytes /\ Len(Literal[k]) >= 1 /\ Len(Literal[k]) \in Nat
    BY LiteralFirst, Indexed
  <2>1. (i + Len(Literal[k])) - 1 <= n /\ \A j \in 1 .. Len(Literal[k]) : t[(i + j) - 1] = Literal[k][j]
    BY <1>4, <2>0, PrefixAt DEF n
  <2>2. (i + 1) - 1 <= n /\ 1 \in 1 .. m /\ 1 \in 1 .. Len(Literal[k])
    BY <1>1, <2>0, <2>1
  <2>3. Literal[k][1] = w[1]
    BY <1>2, <2>1, <2>2
  <2> QED
    BY <2>3, LiteralFirst
<1>5. LiteralAt(t, i) = {Parsed(Plain(k), i + Len(Literal[k])) :
                           k \in {k \in {l} : Seqs!IsPrefix(Literal[k], From(t, i))}}
  <2>1. {k \in DOMAIN Literal : Seqs!IsPrefix(Literal[k], From(t, i))}
          = {k \in {l} : Seqs!IsPrefix(Literal[k], From(t, i))}
    BY <1>4
  <2> QED
    BY <2>1 DEF LiteralAt
<1>6. ASSUME e <= n + 1 PROVE LiteralAt(t, i) = {Parsed(Plain(l), e)}
  <2>1. {k \in {l} : Seqs!IsPrefix(Literal[k], From(t, i))} = {l}
    BY <1>3, <1>6
  <2>2. LiteralAt(t, i) = {Parsed(Plain(k), i + Len(Literal[k])) : k \in {l}}
    BY <1>5, <2>1
  <2> QED
    BY <2>2
<1>7. ASSUME e > n + 1 PROVE LiteralAt(t, i) = {}
  <2>1. ~(e <= n + 1)
    BY <1>1, <1>7 DEF m, w
  <2>2. {k \in {l} : Seqs!IsPrefix(Literal[k], From(t, i))} = {}
    BY <1>3, <2>1
  <2>3. LiteralAt(t, i) = {Parsed(Plain(k), i + Len(Literal[k])) : k \in {}}
    BY <1>5, <2>2
  <2> QED
    BY <2>3
<1> QED
  BY <1>6, <1>7 DEF n

\* What is tried of a byte, by what it is.
LEMMA ValueAtByte ==
  ASSUME NEW t \in Bytes, NEW i \in Index, NEW inside
  PROVE  /\ \A kind \in Kinds :
              At(t, i) = Opening[kind] => ValueAt(t, i, inside) = ContainerAt(t, i, inside, kind)
         /\ At(t, i) = QUOTE =>
              ValueAt(t, i, inside) = {Parsed(String(q.text), q.next) : q \in Quoted(t, i)}
         /\ At(t, i) \in Digit => ValueAt(t, i, inside) = NumberAt(t, i)
         /\ At(t, i) \in {0, 102, 110, 116} => ValueAt(t, i, inside) = LiteralAt(t, i)
<1> DEFINE b == At(t, i)
           o == ContainerAt(t, i, inside, "object")
           a == ContainerAt(t, i, inside, "array")
           s == {Parsed(String(q.text), q.next) : q \in Quoted(t, i)}
           n == NumberAt(t, i)
           l == LiteralAt(t, i)
           e == CASE b = Opening.object -> o
                  [] b = Opening.array -> a
                  [] b = QUOTE -> s
                  [] b \in Digit -> n
                  [] OTHER -> l
<1>1. ValueAt(t, i, inside) = e
  BY DEF ValueAt
<1>2. \A kind \in Kinds : b = Opening[kind] =>
        \/ kind = "object" /\ b = Opening.object
        \/ kind = "array" /\ b = Opening.array
  BY DEF Kinds
<1> HIDE DEF b, o, a, s, n, l
<1>3. Opening.object = 123 /\ Opening.array = 91 /\ QUOTE = 34
  BY DEF Opening, QUOTE
<1>4. /\ b = Opening.object => e = o
      /\ b = Opening.array => e = a
      /\ b = QUOTE => e = s
      /\ b \in Digit => e = n
      /\ b \in {0, 102, 110, 116} => e = l
  BY <1>3 DEF Digit
<1> HIDE DEF e
<1>5. \A kind \in Kinds : b = Opening[kind] => ValueAt(t, i, inside) = ContainerAt(t, i, inside, kind)
  BY <1>1, <1>2, <1>4 DEF o, a
<1> QED
  BY <1>1, <1>4, <1>5 DEF b, s, n, l

-----------------------------------------------------------------------------
(* Strings are read as they are written, when they are printable. *)

\* The bytes that can be written so that they are read back.
Shown == {b \in Byte : b \in Control => b \in {8, 9, 10, 12, 13}}

Printable == {s \in Bytes : \A i \in DOMAIN s : s[i] \in Shown}

LEMMA LetterFacts ==
  /\ \A b \in DOMAIN Letter : b \in Shown /\ Letter[b] \notin {0, LETTER_U, SLASH}
  /\ \A b, c \in DOMAIN Letter : Letter[b] = Letter[c] => b = c
<1>1. DOMAIN Letter = {8, 9, 10, 12, 13, 34, 92}
  BY DEF Letter, QUOTE, BACKSLASH
<1>2. /\ Letter[8] = 98 /\ Letter[9] = 116 /\ Letter[10] = 110 /\ Letter[12] = 102
      /\ Letter[13] = 114 /\ Letter[34] = 34 /\ Letter[92] = 92
  BY DEF Letter, QUOTE, BACKSLASH
<1> QED
  BY <1>1, <1>2 DEF Shown, Byte, Control, LETTER_U, SLASH

LEMMA EscapedBytes ==
  ASSUME NEW b \in Byte
  PROVE  /\ Escaped(b) \in Bytes
         /\ b \in DOMAIN Letter =>
              Len(Escaped(b)) = 2 /\ Escaped(b)[1] = BACKSLASH /\ Escaped(b)[2] = Letter[b]
         /\ b \notin DOMAIN Letter =>
              Len(Escaped(b)) = 1 /\ Escaped(b)[1] = b /\ b # BACKSLASH /\ b # QUOTE
<1> DEFINE e == Escaped(b)
<1>1. DOMAIN Letter = {8, 9, 10, 12, 13, 34, 92}
  BY LetterType
<1>2. CASE b \in DOMAIN Letter
  <2>1. e = <<BACKSLASH, Letter[b]>>
    BY <1>2 DEF Escaped
  <2>2. e \in Bytes
    BY EscapedType
  <2> HIDE DEF e
  <2>3. Len(e) = 2 /\ e[1] = BACKSLASH /\ e[2] = Letter[b]
    BY <2>1
  <2> QED
    BY <1>2, <2>2, <2>3 DEF e
<1>3. CASE b \notin DOMAIN Letter
  <2>1. e = <<b>>
    BY <1>3 DEF Escaped
  <2>2. e \in Bytes
    BY EscapedType
  <2> HIDE DEF e
  <2>3. Len(e) = 1 /\ e[1] = b
    BY <2>1
  <2>4. b # BACKSLASH /\ b # QUOTE
    BY <1>1, <1>3 DEF BACKSLASH, QUOTE
  <2> QED
    BY <1>3, <2>2, <2>3, <2>4 DEF e
<1> QED
  BY <1>2, <1>3

\* The byte that is read of a text that begins with the form it is written in.
LEMMA ReadOneEscaped ==
  ASSUME NEW u \in Bytes, NEW b \in Byte, Len(Escaped(b)) <= Len(u),
         \A k \in 1 .. Len(Escaped(b)) : u[k] = Escaped(b)[k]
  PROVE  ReadOne(u) = IF b \in Shown THEN {Read(<<b>>, Len(Escaped(b)))} ELSE {}
<1> DEFINE e == Escaped(b)
           m == Len(e)
<1>1. Len(u) \in Nat /\ m <= Len(u) /\ \A k \in 1 .. m : u[k] = e[k]
  BY Indexed
<1>2. CASE b \in DOMAIN Letter
  <2>1. m = 2 /\ e[1] = BACKSLASH /\ e[2] = Letter[b]
    BY <1>2, EscapedBytes
  <2> HIDE DEF e, m
  <2>2. 1 \in 1 .. m /\ 2 \in 1 .. m /\ Len(u) # 1
    <3> DEFINE n == Len(u)
    <3>1. n \in Nat /\ m <= n
      BY <1>1
    <3> HIDE DEF n
    <3>2. n # 1
      BY <2>1, <3>1
    <3>3. 1 \in 1 .. m /\ 2 \in 1 .. m
      BY <2>1
    <3> QED
      BY <3>2, <3>3 DEF n
  <2>3. u[1] = BACKSLASH /\ u[2] = Letter[b]
    <3>1. u[1] = e[1] /\ u[2] = e[2]
      BY <1>1, <2>2
    <3> QED
      BY <2>1, <3>1
  <2>4. b \in Shown /\ u[2] # LETTER_U /\ u[2] # SLASH
    BY <1>2, <2>3, LetterFacts
  <2>5. ReadOne(u) = {Read(<<c>>, 2) : c \in {c \in DOMAIN Letter : Letter[c] = u[2]}}
                       \cup {r \in {Read(<<SLASH>>, 2)} : u[2] = SLASH}
    BY <2>2, <2>3, <2>4 DEF ReadOne, ReadEscape
  <2>6. {c \in DOMAIN Letter : Letter[c] = u[2]} = {b}
    BY <1>2, <2>3, LetterFacts
  <2>7. {r \in {Read(<<SLASH>>, 2)} : u[2] = SLASH} = {}
    BY <2>4
  <2>8. ReadOne(u) = {Read(<<c>>, 2) : c \in {b}}
    BY <2>5, <2>6, <2>7
  <2>9. ReadOne(u) = {Read(<<b>>, 2)}
    BY <2>8
  <2> QED
    BY <2>1, <2>4, <2>9 DEF e, m
<1>3. CASE b \notin DOMAIN Letter
  <2>1. m = 1 /\ e[1] = b /\ b # BACKSLASH
    BY <1>3, EscapedBytes
  <2> HIDE DEF e, m
  <2>2. u[1] = b /\ u[1] # BACKSLASH
    <3>1. 1 \in 1 .. m
      BY <2>1
    <3> QED
      BY <1>1, <2>1, <3>1
  <2>3. ReadOne(u) = {r \in {Read(<<b>>, 1)} : b \notin Control}
    BY <2>2 DEF ReadOne
  <2>4. b \notin Control <=> b \in Shown
    <3>1. b \notin {8, 9, 10, 12, 13}
      BY <1>3, LetterType
    <3> QED
      BY <3>1 DEF Shown
  <2>5. CASE b \in Shown
    <3>1. ReadOne(u) = {Read(<<b>>, 1)}
      BY <2>3, <2>4, <2>5
    <3> QED
      BY <2>1, <2>5, <3>1 DEF e, m
  <2>6. CASE b \notin Shown
    <3>1. ReadOne(u) = {}
      BY <2>3, <2>4, <2>6
    <3> QED
      BY <2>6, <3>1
  <2> QED
    BY <2>5, <2>6
<1> QED
  BY <1>2, <1>3

LEMMA FromFrom ==
  ASSUME NEW s \in Bytes, NEW i \in 1 .. Len(s) + 1, NEW j \in 1 .. Len(From(s, i)) + 1
  PROVE  (i + j) - 1 \in 1 .. Len(s) + 1 /\ From(From(s, i), j) = From(s, (i + j) - 1)
<1> DEFINE n == Len(s)
           u == From(s, i)
           h == (i + j) - 1
           a == From(u, j)
           b == From(s, h)
<1>1. n \in Nat /\ i \in 1 .. n + 1
  BY Indexed
<1>2. u \in Bytes /\ Len(u) = n + 1 - i /\ \A k \in 1 .. n + 1 - i : u[k] = s[i + k - 1]
  BY FromType DEF Bytes
<1>3. j \in 1 .. Len(u) + 1
  OBVIOUS
<1> HIDE DEF n, u
<1>4. h \in 1 .. n + 1
  BY <1>1, <1>2, <1>3
<1>5. a \in Bytes /\ Len(a) = Len(u) + 1 - j /\ \A k \in 1 .. Len(u) + 1 - j : a[k] = u[j + k - 1]
  <2>1. u \in Seq(Byte)
    BY <1>2 DEF Bytes
  <2>2. /\ From(u, j) \in Seq(Byte) /\ Len(From(u, j)) = Len(u) + 1 - j
        /\ \A k \in 1 .. Len(u) + 1 - j : From(u, j)[k] = u[j + k - 1]
    BY <1>3, <2>1, FromType
  <2> QED
    BY <2>2 DEF Bytes
<1>6. b \in Bytes /\ Len(b) = n + 1 - h /\ \A k \in 1 .. n + 1 - h : b[k] = s[h + k - 1]
  BY <1>4, FromType DEF Bytes, n
<1> HIDE DEF a, b
<1>7. Len(a) = Len(b)
  BY <1>1, <1>2, <1>3, <1>5, <1>6
<1>8. ASSUME NEW k \in 1 .. Len(a) PROVE a[k] = b[k]
  <2>1. k \in 1 .. Len(u) + 1 - j /\ k \in 1 .. n + 1 - h
    BY <1>5, <1>6, <1>7, <1>8
  <2>2. j + k - 1 \in 1 .. n + 1 - i /\ i + (j + k - 1) - 1 = h + k - 1
    BY <1>1, <1>2, <1>3, <2>1
  <2>3. a[k] = u[j + k - 1] /\ b[k] = s[h + k - 1]
    BY <1>5, <1>6, <2>1
  <2>4. u[j + k - 1] = s[i + (j + k - 1) - 1]
    BY <1>2, <2>2
  <2> QED
    BY <2>2, <2>3, <2>4
<1>9. a = b
  <2>1. a \in Seq(Byte) /\ b \in Seq(Byte)
    BY <1>5, <1>6 DEF Bytes
  <2> QED
    BY <1>7, <1>8, <2>1, SeqEqual
<1> QED
  BY <1>4, <1>9 DEF a, b, h, n, u

\* The forms of the bytes of a string.
Forms(s) == [i \in DOMAIN s |-> Escaped(s[i])]

LEMMA FormsType ==
  ASSUME NEW s \in Bytes
  PROVE  /\ Forms(s) \in Seq(Bytes) /\ Len(Forms(s)) = Len(s)
         /\ \A k \in 1 .. Len(s) : s[k] \in Byte /\ Forms(s)[k] = Escaped(s[k])
<1> DEFINE f == Forms(s)
           n == Len(s)
<1>1. n \in Nat /\ DOMAIN s = 1 .. n /\ \A k \in 1 .. n : s[k] \in Byte
  BY DEF Bytes
<1> HIDE DEF n
<1>2. f = [i \in 1 .. n |-> Escaped(s[i])]
  BY <1>1 DEF Forms
<1>3. f \in [1 .. n -> Bytes]
  BY <1>1, <1>2, EscapedBytes
<1>4. f \in Seq(Bytes) /\ Len(f) = n
  BY <1>1, <1>3, SeqDef, LenProperties
<1> QED
  BY <1>1, <1>2, <1>4 DEF n

LEMMA LaysWithin ==
  ASSUME NEW seqs \in Seq(Bytes), NEW off, Lays(seqs, off)
  PROVE  /\ \A k \in 0 .. Len(seqs) : off[k] \in Nat /\ off[k] <= Len(Seqs!FlattenSeq(seqs))
         /\ Seqs!FlattenSeq(seqs) \in Bytes /\ Len(seqs) \in Nat
         /\ \A k \in 1 .. Len(seqs) : seqs[k] \in Bytes /\ Len(seqs[k]) \in Nat
<1> DEFINE n == Len(seqs)
           flat == Seqs!FlattenSeq(seqs)
           l == Len(flat)
<1>1. n \in Nat /\ flat \in Bytes /\ \A k \in 1 .. n : seqs[k] \in Bytes
  BY FlattenType DEF Bytes
<1>2. l \in Nat /\ \A k \in 1 .. n : Len(seqs[k]) \in Nat
  BY <1>1, Indexed
<1>3. off \in [0 .. n -> Nat] /\ off[n] = l /\ \A k \in 1 .. n : off[k] = off[k - 1] + Len(seqs[k])
  BY DEF Lays
<1> HIDE DEF n, l, flat
<1> DEFINE S == {j \in 0 .. n : off[n - j] <= l}
<1>4. 0 \in S
  BY <1>1, <1>2, <1>3
<1>5. ASSUME NEW j \in 1 .. n, j - 1 \in S PROVE j \in S
  <2>1. n - (j - 1) \in 1 .. n /\ (n - (j - 1)) - 1 = n - j /\ n - j \in 0 .. n /\ j \in 0 .. n
    BY <1>1
  <2>2. off[n - (j - 1)] = off[n - j] + Len(seqs[n - (j - 1)])
    BY <1>3, <2>1
  <2>3. off[n - j] \in Nat /\ Len(seqs[n - (j - 1)]) \in Nat /\ off[n - (j - 1)] <= l
    BY <1>2, <1>3, <1>5, <2>1
  <2>4. off[n - j] <= l
    BY <1>2, <2>2, <2>3
  <2> QED
    BY <2>1, <2>4
<1> HIDE DEF S
<1>6. \A j \in 0 .. n : j \in S
  BY <1>1, <1>4, <1>5, InductionUpTo
<1>7. ASSUME NEW k \in 0 .. n PROVE off[k] \in Nat /\ off[k] <= l
  <2>1. n - k \in 0 .. n /\ n - (n - k) = k
    BY <1>1
  <2> QED
    BY <1>3, <1>6, <2>1 DEF S
<1> QED
  BY <1>1, <1>2, <1>7 DEF n, l, flat

\* What lies in a text that is flattened, from the k-th sequence on.
LEMMA LaysFrom ==
  ASSUME NEW seqs \in Seq(Bytes), NEW off, Lays(seqs, off), NEW k \in 1 .. Len(seqs),
         NEW u, u = From(Seqs!FlattenSeq(seqs), off[k - 1] + 1)
  PROVE  /\ u \in Bytes /\ Len(seqs[k]) <= Len(u)
         /\ \A j \in 1 .. Len(seqs[k]) : u[j] = seqs[k][j]
         /\ From(u, Len(seqs[k]) + 1) = From(Seqs!FlattenSeq(seqs), off[k] + 1)
<1> DEFINE n == Len(seqs)
           flat == Seqs!FlattenSeq(seqs)
           l == Len(flat)
           w == seqs[k]
           m == Len(w)
           p == off[k - 1]
           q == off[k]
<1>1. n \in Nat /\ flat \in Bytes /\ w \in Bytes /\ l \in Nat /\ m \in Nat
  BY LaysWithin, Indexed
<1>2. k \in 1 .. n
  OBVIOUS
<1>3. p \in Nat /\ q \in Nat /\ q <= l /\ q = p + m
  <2>1. k - 1 \in 0 .. n /\ k \in 0 .. n
    <3> HIDE DEF n
    <3> QED
      BY <1>1, <1>2
  <2>2. p \in Nat /\ q \in Nat /\ q <= l
    BY <2>1, LaysWithin
  <2>3. q = p + m
    BY DEF Lays
  <2> QED
    BY <2>2, <2>3
<1>4. Agrees(flat, 1 + p, w)
  <2>1. Agrees(flat, 1, flat) /\ 1 \in Index
    BY <1>1, AgreesSelf DEF Index
  <2> QED
    BY <1>1, <2>1 DEF Lays
<1>5. u = From(flat, p + 1)
  OBVIOUS
<1> HIDE DEF n, flat, l, w, m, p, q
<1>6. p + 1 \in 1 .. l + 1
  BY <1>1, <1>3
<1>7. u \in Bytes /\ Len(u) = l + 1 - (p + 1) /\ \A j \in 1 .. l + 1 - (p + 1) : u[j] = flat[(p + 1) + j - 1]
  <2>1. flat \in Seq(Byte)
    BY <1>1 DEF Bytes
  <2>2. /\ From(flat, p + 1) \in Seq(Byte) /\ Len(From(flat, p + 1)) = l + 1 - (p + 1)
        /\ \A j \in 1 .. l + 1 - (p + 1) : From(flat, p + 1)[j] = flat[(p + 1) + j - 1]
    BY <1>6, <2>1, FromType DEF l
  <2> QED
    BY <1>5, <2>2 DEF Bytes
<1>8. m <= Len(u) /\ Len(u) \in Nat
  BY <1>1, <1>3, <1>7
<1>9. ASSUME NEW j \in 1 .. m PROVE u[j] = w[j]
  <2>1. j \in 1 .. l + 1 - (p + 1) /\ (p + 1) + j - 1 = ((1 + p) + j) - 1 /\ ((1 + p) + j) - 1 <= l
    BY <1>1, <1>3
  <2>2. flat[((1 + p) + j) - 1] = w[j]
    BY <1>4, <2>1 DEF Agrees, l, m
  <2> QED
    BY <1>7, <2>1, <2>2
<1>10. From(u, m + 1) = From(flat, q + 1)
  <2>1. m + 1 \in 1 .. Len(u) + 1 /\ ((p + 1) + (m + 1)) - 1 = q + 1
    BY <1>1, <1>3, <1>8
  <2>2. From(From(flat, p + 1), m + 1) = From(flat, ((p + 1) + (m + 1)) - 1)
    BY <1>1, <1>5, <1>6, <2>1, FromFrom DEF l
  <2> QED
    BY <1>5, <2>1, <2>2
<1> QED
  BY <1>7, <1>8, <1>9, <1>10 DEF flat, w, m, q

LEMMA PrintableStep ==
  ASSUME NEW s \in Bytes, NEW k \in 1 .. Len(s)
  PROVE  From(s, k) \in Printable <=> s[k] \in Shown /\ From(s, k + 1) \in Printable
<1> DEFINE n == Len(s)
           a == From(s, k)
           b == From(s, k + 1)
<1>1. n \in Nat /\ k \in 1 .. n /\ k \in 1 .. n + 1 /\ k + 1 \in 1 .. n + 1
  <2>1. n \in Nat /\ k \in 1 .. n
    BY Indexed
  <2> HIDE DEF n
  <2> QED
    BY <2>1
<1>2. s \in Seq(Byte)
  BY DEF Bytes
<1>3. a \in Seq(Byte) /\ Len(a) = n + 1 - k /\ \A j \in 1 .. n + 1 - k : a[j] = s[k + j - 1]
  BY <1>1, <1>2, FromType
<1>4. b \in Seq(Byte) /\ Len(b) = n + 1 - (k + 1) /\ \A j \in 1 .. n + 1 - (k + 1) : b[j] = s[(k + 1) + j - 1]
  BY <1>1, <1>2, FromType
<1> HIDE DEF a, b, n
<1>5. a \in Printable <=> \A j \in k .. n : s[j] \in Shown
  <2>1. a \in Printable <=> \A j \in 1 .. n + 1 - k : a[j] \in Shown
    <3>1. a \in Bytes /\ DOMAIN a = 1 .. n + 1 - k
      BY <1>3 DEF Bytes
    <3> QED
      BY <3>1 DEF Printable
  <2>2. ASSUME \A j \in 1 .. n + 1 - k : a[j] \in Shown, NEW j \in k .. n PROVE s[j] \in Shown
    <3>1. (j + 1) - k \in 1 .. n + 1 - k /\ k + ((j + 1) - k) - 1 = j
      BY <1>1
    <3> QED
      BY <1>3, <2>2, <3>1
  <2>3. ASSUME \A j \in k .. n : s[j] \in Shown, NEW j \in 1 .. n + 1 - k PROVE a[j] \in Shown
    <3>1. k + j - 1 \in k .. n
      BY <1>1
    <3> QED
      BY <1>3, <2>3, <3>1
  <2> QED
    BY <2>1, <2>2, <2>3
<1>6. b \in Printable <=> \A j \in k + 1 .. n : s[j] \in Shown
  <2>1. b \in Printable <=> \A j \in 1 .. n + 1 - (k + 1) : b[j] \in Shown
    <3>1. b \in Bytes /\ DOMAIN b = 1 .. n + 1 - (k + 1)
      BY <1>4 DEF Bytes
    <3> QED
      BY <3>1 DEF Printable
  <2>2. ASSUME \A j \in 1 .. n + 1 - (k + 1) : b[j] \in Shown, NEW j \in k + 1 .. n PROVE s[j] \in Shown
    <3>1. j - k \in 1 .. n + 1 - (k + 1) /\ (k + 1) + (j - k) - 1 = j
      BY <1>1
    <3> QED
      BY <1>4, <2>2, <3>1
  <2>3. ASSUME \A j \in k + 1 .. n : s[j] \in Shown, NEW j \in 1 .. n + 1 - (k + 1) PROVE b[j] \in Shown
    <3>1. (k + 1) + j - 1 \in k + 1 .. n
      BY <1>1
    <3> QED
      BY <1>4, <2>3, <3>1
  <2> QED
    BY <2>1, <2>2, <2>3
<1>7. (\A j \in k .. n : s[j] \in Shown) <=> s[k] \in Shown /\ \A j \in k + 1 .. n : s[j] \in Shown
  <2>1. k \in k .. n /\ \A j \in k .. n : j = k \/ j \in k + 1 .. n
    BY <1>1
  <2>2. \A j \in k + 1 .. n : j \in k .. n
    BY <1>1
  <2> QED
    BY <2>1, <2>2
<1> QED
  BY <1>5, <1>6, <1>7 DEF a, b

LEMMA FromEnds ==
  ASSUME NEW s \in Bytes
  PROVE  From(s, 1) = s /\ From(s, Len(s) + 1) = <<>>
<1> DEFINE n == Len(s)
           a == From(s, 1)
           b == From(s, n + 1)
<1>1. n \in Nat /\ s \in Seq(Byte)
  BY Indexed DEF Bytes
<1>2. 1 \in 1 .. n + 1 /\ n + 1 \in 1 .. n + 1
  <2> HIDE DEF n
  <2> QED
    BY <1>1
<1>3. a \in Seq(Byte) /\ Len(a) = n + 1 - 1 /\ \A k \in 1 .. n + 1 - 1 : a[k] = s[1 + k - 1]
  BY <1>1, <1>2, FromType
<1>4. b \in Seq(Byte) /\ Len(b) = n + 1 - (n + 1)
  BY <1>1, <1>2, FromType
<1> HIDE DEF a, b
<1>5. Len(a) = Len(s) /\ \A k \in 1 .. Len(a) : a[k] = s[k]
  <2>1. n + 1 - 1 = n /\ \A k \in 1 .. n : 1 + k - 1 = k
    <3> HIDE DEF n
    <3> QED
      BY <1>1
  <2> QED
    BY <1>3, <2>1
<1>6. a = s
  BY <1>1, <1>3, <1>5, SeqEqual
<1>7. b = <<>>
  <2>1. Len(b) = 0
    <3> HIDE DEF n
    <3> QED
      BY <1>1, <1>4
  <2> QED
    BY <1>4, <2>1, EmptySeq
<1> QED
  BY <1>6, <1>7 DEF a, b

LEMMA NoneIsPrintable == <<>> \in Printable
BY NoBytes DEF Printable

\* process_string makes of the forms of a string that string, unless it has a
\* byte that is not to be shown.
LEMMA ProcessedForms ==
  ASSUME NEW s \in Bytes
  PROVE  Processed[Seqs!FlattenSeq(Forms(s))] = IF s \in Printable THEN {s} ELSE {}
<1> DEFINE f == Forms(s)
           flat == Seqs!FlattenSeq(f)
           n == Len(s)
           Left(k) == IF From(s, k) \in Printable THEN {From(s, k)} ELSE {}
<1>1. /\ f \in Seq(Bytes) /\ Len(f) = n /\ n \in Nat
      /\ \A k \in 1 .. n : s[k] \in Byte /\ f[k] = Escaped(s[k])
  BY FormsType, Indexed
<1>2. PICK off : Lays(f, off)
  BY <1>1, LaysExist
<1>3. flat \in Bytes /\ off[0] = 0 /\ off[n] = Len(flat)
  BY <1>1, <1>2, LaysWithin DEF Lays
<1>4. From(flat, 0 + 1) = flat /\ From(flat, Len(flat) + 1) = <<>>
      /\ From(s, 1) = s /\ From(s, n + 1) = <<>>
  <2>1. 0 + 1 = 1
    OBVIOUS
  <2> QED
    BY <1>3, <2>1, FromEnds
<1> DEFINE S == {j \in 0 .. n : Processed[From(flat, off[n - j] + 1)] = Left((n - j) + 1)}
<1> HIDE DEF f, flat, n
<1>5. 0 \in S
  <2>1. n - 0 = n /\ 0 \in 0 .. n
    BY <1>1
  <2>2. Processed[<<>>] = {<<>>}
    BY NoBytes, ProcessedEquation DEF ProcessedBy
  <2>3. Left(n + 1) = {<<>>}
    BY <1>4, NoneIsPrintable
  <2> QED
    BY <1>3, <1>4, <2>1, <2>2, <2>3
<1>6. ASSUME NEW j \in 1 .. n, j - 1 \in S PROVE j \in S
  <2> DEFINE k == n - (j - 1)
             u == From(flat, off[k - 1] + 1)
             b == s[k]
             w == Escaped(b)
             m == Len(w)
             rest == From(s, k + 1)
  <2>1. k \in 1 .. n /\ k - 1 = n - j /\ j \in 0 .. n /\ (k - 1) + 1 = k
    BY <1>1
  <2>2. Processed[From(flat, off[k] + 1)] = Left(k + 1)
    BY <1>6
  <2> HIDE DEF k
  <2>3. b \in Byte /\ f[k] = w
    BY <1>1, <2>1
  <2>4. /\ u \in Bytes /\ m <= Len(u) /\ \A i \in 1 .. m : u[i] = w[i]
        /\ From(u, m + 1) = From(flat, off[k] + 1)
    BY <1>1, <1>2, <2>1, <2>3, LaysFrom DEF flat
  <2>5. From(s, k) = <<b>> \o rest /\ (From(s, k) \in Printable <=> b \in Shown /\ rest \in Printable)
    BY <2>1, FromStep, PrintableStep DEF n
  <2> HIDE DEF u, b, w, rest, m
  <2>6. ReadOne(u) = IF b \in Shown THEN {Read(<<b>>, m)} ELSE {}
    BY <2>3, <2>4, ReadOneEscaped DEF w, m
  <2>7. u # <<>>
    <3>1. m >= 1
      <4>1. m = 1 \/ m = 2
        BY <2>3, EscapedBytes DEF w, m
      <4> QED
        BY <4>1
    <3>2. Len(u) # 0
      <4>1. Len(u) \in Nat /\ m \in Nat
        BY <2>3, <2>4, EscapedBytes, Indexed DEF w, m
      <4> QED
        BY <2>4, <3>1, <4>1
    <3> QED
      BY <3>2, NoBytes
  <2>8. Processed[u] = UNION {{r.bytes \o x : x \in Processed[From(u, r.takes + 1)]} : r \in ReadOne(u)}
    BY <2>4, <2>7, ProcessedEquation DEF ProcessedBy
  <2>9. CASE b \in Shown
    <3>1. ReadOne(u) = {Read(<<b>>, m)} /\ Read(<<b>>, m).bytes = <<b>> /\ Read(<<b>>, m).takes = m
      BY <2>6, <2>9 DEF Read
    <3>2. Processed[u] = {<<b>> \o x : x \in Processed[From(u, m + 1)]}
      <4> DEFINE R == Read(<<b>>, m)
                 G(r) == {r.bytes \o x : x \in Processed[From(u, r.takes + 1)]}
      <4>1. Processed[u] = UNION {G(r) : r \in {R}}
        BY <2>8, <3>1
      <4>2. G(R) = {<<b>> \o x : x \in Processed[From(u, m + 1)]}
        BY <3>1
      <4> HIDE DEF R, G
      <4>3. Processed[u] = G(R)
        BY <4>1
      <4> QED
        BY <4>2, <4>3
    <3>3. Processed[u] = {<<b>> \o x : x \in Left(k + 1)}
      BY <2>2, <2>4, <3>2
    <3>4. CASE rest \in Printable
      <4>1. Left(k + 1) = {rest} /\ Left(k) = {<<b>> \o rest}
        BY <2>5, <2>9, <3>4 DEF rest
      <4>2. Processed[u] = {<<b>> \o x : x \in {rest}}
        BY <3>3, <4>1
      <4> QED
        BY <2>1, <4>1, <4>2 DEF u
    <3>5. CASE rest \notin Printable
      <4>1. Left(k + 1) = {} /\ Left(k) = {}
        BY <2>5, <3>5 DEF rest
      <4>2. Processed[u] = {<<b>> \o x : x \in {}}
        BY <3>3, <4>1
      <4> QED
        BY <2>1, <4>1, <4>2 DEF u
    <3> QED
      BY <3>4, <3>5
  <2>10. CASE b \notin Shown
    <3>1. ReadOne(u) = {} /\ Left(k) = {}
      BY <2>5, <2>6, <2>10
    <3>2. Processed[u] = {}
      BY <2>8, <3>1
    <3> QED
      BY <2>1, <3>1, <3>2 DEF u
  <2> QED
    BY <2>9, <2>10
<1> HIDE DEF S
<1>7. \A j \in 0 .. n : j \in S
  BY <1>1, <1>5, <1>6, InductionUpTo
<1>8. Processed[From(flat, off[n - n] + 1)] = Left((n - n) + 1)
  <2>1. n \in 0 .. n
    BY <1>1
  <2> QED
    BY <1>7, <2>1 DEF S
<1>9. n - n = 0 /\ 0 + 1 = 1
  BY <1>1
<1>10. Processed[flat] = Left(1)
  BY <1>3, <1>4, <1>8, <1>9
<1> QED
  BY <1>4, <1>10 DEF flat, f

\* Where the text has the whole of w, w can be taken from it.
LEMMA AgreesSub ==
  ASSUME NEW t \in Bytes, NEW i \in Index, NEW w \in Bytes, Agrees(t, i, w),
         NEW j, j = (i + Len(w)) - 1, j <= Len(t)
  PROVE  SubSeq(t, i, j) = w
<1> DEFINE m == Len(w)
           n == Len(t)
           u == SubSeq(t, i, j)
<1>1. m \in Nat /\ n \in Nat /\ i \in Nat /\ i >= 1 /\ j = (i + m) - 1 /\ j <= n
  BY Indexed DEF Index
<1>2. \A k \in 1 .. m : (i + k) - 1 <= n => t[(i + k) - 1] = w[k]
  BY DEF Agrees
<1>3. t \in Seq(Byte) /\ w \in Seq(Byte)
  BY DEF Bytes
<1>4. \A k \in i .. j : t[k] \in Byte
  <2>1. \A k \in i .. j : k \in Nat /\ 1 <= k /\ k <= n
    <3> HIDE DEF n, m
    <3> QED
      BY <1>1
  <2> QED
    BY <2>1, Indexed
<1>5. j \in Int
  <2> HIDE DEF n, m
  <2> QED
    BY <1>1
<1>6. u \in Seq(Byte) /\ Len(u) = (IF i <= j THEN j - i + 1 ELSE 0)
      /\ \A k \in 1 .. j - i + 1 : u[k] = t[i + k - 1]
  BY <1>1, <1>3, <1>4, <1>5, SubSeqProperties
<1> HIDE DEF m, n, u
<1>7. j - i + 1 = m
  <2>1. (i + m) - i = m
    BY <1>1
  <2>2. j - i + 1 = (j + 1) - i /\ j + 1 = i + m
    BY <1>1
  <2> QED
    BY <2>1, <2>2
<1>8. Len(u) = m
  BY <1>1, <1>6, <1>7
<1>9. ASSUME NEW k \in 1 .. m PROVE u[k] = w[k]
  <2>1. i + k - 1 = (i + k) - 1 /\ (i + k) - 1 <= n
    BY <1>1
  <2> QED
    BY <1>2, <1>6, <1>7, <2>1
<1>10. u = w
  BY <1>3, <1>6, <1>8, <1>9, SeqEqual DEF m
<1> QED
  BY <1>10 DEF u

\* A text between two bytes.
Encloses(w, a, x, b) == a \in Byte /\ b \in Byte /\ x \in Bytes /\ w = <<a>> \o x \o <<b>>

LEMMA Enclosed ==
  ASSUME NEW t \in Bytes, NEW i \in Index, NEW a, NEW x, NEW b, NEW w, Encloses(w, a, x, b),
         Agrees(t, i, w), NEW q, q = (i + 1) + Len(x)
  PROVE  /\ w \in Bytes /\ Len(w) = Len(x) + 2 /\ w[1] = a
         /\ Agrees(t, i + 1, x) /\ i + 1 \in Index /\ q \in Index /\ i + Len(w) = q + 1
         /\ q <= Len(t) => At(t, q) = b
<1> DEFINE h == <<a>>
           g == <<b>>
           l == Len(x)
           c == h \o x
<1>1. w = c \o g /\ a \in Byte /\ b \in Byte /\ x \in Bytes
  BY DEF Encloses
<1>2. h \in Bytes /\ Len(h) = 1 /\ h[1] = a /\ g \in Bytes /\ Len(g) = 1 /\ g[1] = b
  BY <1>1, BytesOf
<1> HIDE DEF h, g
<1>3. c \in Bytes /\ Len(c) = 1 + l /\ l \in Nat
  BY <1>1, <1>2, Joined, JoinedLength, Indexed
<1>4. \A k \in 1 .. Len(h) : c[k] = h[k]
  BY <1>1, <1>2, ConcatProperties DEF Bytes
<1>5. w \in Bytes /\ Len(w) = Len(c) + Len(g)
  BY <1>1, <1>2, <1>3, Joined, JoinedLength
<1>6. \A k \in 1 .. Len(c) : w[k] = c[k]
  BY <1>1, <1>2, <1>3, ConcatProperties DEF Bytes
<1>7. w[1] = a
  <2>1. 1 \in 1 .. Len(h) /\ 1 \in 1 .. Len(c)
    <3> HIDE DEF c, l
    <3> QED
      BY <1>2, <1>3
  <2> HIDE DEF c
  <2> QED
    BY <1>2, <1>4, <1>6, <2>1
<1>8. Agrees(t, i, c) /\ Agrees(t, i + Len(c), g) /\ i + Len(c) \in Index
  <2>1. Agrees(t, i, c \o g)
    BY <1>1
  <2> HIDE DEF c
  <2> QED
    BY <1>2, <1>3, <2>1, AgreesJoin
<1>9. Agrees(t, i + 1, x) /\ i + 1 \in Index
  <2>1. Agrees(t, i + Len(h), x) /\ i + Len(h) \in Index
    BY <1>1, <1>2, <1>8, AgreesJoin
  <2> QED
    BY <1>2, <2>1
<1> HIDE DEF c, l
<1>10. i + Len(c) = q /\ Len(w) = l + 2 /\ i + Len(w) = q + 1
  <2>1. i \in Nat /\ q = (i + 1) + l
    BY DEF Index, l
  <2> QED
    BY <1>2, <1>3, <1>5, <2>1
<1>11. ASSUME q <= Len(t) PROVE At(t, q) = b
  <2>1. 1 \in 1 .. Len(g) /\ (q + 1) - 1 = q /\ q \in Index /\ Agrees(t, q, g)
    BY <1>2, <1>8, <1>10 DEF Index
  <2>2. (q + 1) - 1 <= Len(t) => At(t, (q + 1) - 1) = g[1]
    BY <1>2, <2>1, AgreesAt
  <2> QED
    BY <1>2, <1>11, <2>1, <2>2
<1> QED
  BY <1>5, <1>7, <1>8, <1>9, <1>10, <1>11 DEF l

\* A written string: a quote, the forms of its bytes, and a quote.
LEMMA StringLies ==
  ASSUME NEW t \in Bytes, NEW i \in Index, NEW s \in Bytes, Agrees(t, i, WrittenString(s)),
         NEW flat, flat = Seqs!FlattenSeq(Forms(s)), NEW q, q = (i + 1) + Len(flat)
  PROVE  /\ flat \in Bytes /\ Agrees(t, i + 1, flat) /\ i + 1 \in Index /\ q \in Index
         /\ i + Len(WrittenString(s)) = q + 1 /\ Len(WrittenString(s)) = Len(flat) + 2
         /\ WrittenString(s)[1] = QUOTE
         /\ q <= Len(t) => At(t, q) = QUOTE
<1>1. flat \in Bytes
  <2>1. Forms(s) \in Seq(Seq(Byte))
    BY FormsType DEF Bytes
  <2> QED
    BY <2>1, FlattenType DEF Bytes
<1>2. WrittenString(s) = <<QUOTE>> \o flat \o <<QUOTE>>
  BY DEF WrittenString, Forms
<1>3. QUOTE \in Byte
  BY Marks
<1> DEFINE w == WrittenString(s)
           b == QUOTE
<1>4. Encloses(w, b, flat, b) /\ Agrees(t, i, w)
  BY <1>1, <1>2, <1>3 DEF Encloses
<1> HIDE DEF w, b
<1>5. /\ w \in Bytes /\ Len(w) = Len(flat) + 2 /\ w[1] = b
      /\ Agrees(t, i + 1, flat) /\ i + 1 \in Index /\ q \in Index /\ i + Len(w) = q + 1
      /\ q <= Len(t) => At(t, q) = b
  BY <1>4, Enclosed
<1> QED
  BY <1>1, <1>5 DEF w, b

\* skip_quotes finds the quote that ends a written string, or the end of the text.
LEMMA QuoteEndForms ==
  ASSUME NEW t \in Bytes, NEW i \in Index, NEW s \in Bytes, NEW flat,
         flat = Seqs!FlattenSeq(Forms(s)), Agrees(t, i, flat),
         NEW q, q = i + Len(flat), q <= Len(t) => At(t, q) = QUOTE
  PROVE  /\ At(t, QuoteEnd(t, i)) = 0 \/ QuoteEnd(t, i) = q + 1
         /\ At(t, q + 1) # 0 /\ (\A k \in 1 .. Len(s) : s[k] # 0) => QuoteEnd(t, i) = q + 1
<1> DEFINE f == Forms(s)
           n == Len(s)
           l == Len(flat)
           z == Len(t)
           Whole == At(t, q + 1) # 0 /\ \A k \in 1 .. n : s[k] # 0
<1>1. /\ f \in Seq(Bytes) /\ Len(f) = n /\ n \in Nat
      /\ \A k \in 1 .. n : s[k] \in Byte /\ f[k] = Escaped(s[k])
  BY FormsType, Indexed
<1>2. PICK off : Lays(f, off)
  BY <1>1, LaysExist
<1>3. /\ flat \in Bytes /\ off[0] = 0 /\ off[n] = l /\ l \in Nat /\ z \in Nat
      /\ \A k \in 0 .. n : off[k] \in Nat /\ off[k] <= l
  BY <1>1, <1>2, LaysWithin, Indexed DEF Lays
<1>4. ASSUME NEW k \in 1 .. n
      PROVE  /\ Agrees(t, i + off[k - 1], f[k]) /\ i + off[k - 1] \in Index
             /\ off[k] = off[k - 1] + Len(f[k])
  BY <1>1, <1>2 DEF Lays
<1>5. PICK end \in [Index -> Index] :
        \A j \in Index : end[j] = EndBy(t, j, end) /\ end[j] >= j /\ QuoteEnd(t, j) = end[j]
  BY QuoteEndEquation
<1>6. i \in Nat /\ i >= 1 /\ q = i + l
  BY DEF Index
<1>7. /\ At(t, q + 1) # 0 => q + 1 <= z
      /\ q <= z => At(t, q) = QUOTE
      /\ \A j \in Index : j > z => At(t, j) = 0
  <2>1. q + 1 \in Index
    BY <1>3, <1>6 DEF Index
  <2>2. ASSUME At(t, q + 1) # 0 PROVE q + 1 <= z
    <3>1. q + 1 \in 1 .. z
      BY <2>1, <2>2, AtWithin
    <3> HIDE DEF z, l
    <3> QED
      BY <1>3, <3>1
  <2> QED
    BY <2>2, AtType
<1> DEFINE P(k) == /\ At(t, end[i + off[k]]) = 0 \/ end[i + off[k]] = q + 1
                   /\ Whole => end[i + off[k]] = q + 1
           S == {j \in 0 .. n : P(n - j)}
<1>8. Whole => q + 1 <= z /\ \A k \in 1 .. n : s[k] # 0
  BY <1>7
<1> HIDE DEF f, n, l, z, Whole
<1>9. 0 \in S
  <2>1. n - 0 = n /\ 0 \in 0 .. n /\ i + off[n] = q /\ q \in Index
    <3>1. q \in Nat /\ q >= 1
      BY <1>3, <1>6
    <3>2. n - 0 = n /\ 0 \in 0 .. n
      BY <1>1
    <3>3. i + off[n] = q
      BY <1>3, <1>6
    <3>4. q \in Index
      BY <3>1 DEF Index
    <3> QED
      BY <3>2, <3>3, <3>4
  <2>2. CASE q <= z
    <3>1. end[q] = q + 1
      BY <1>5, <1>7, <2>1, <2>2, EndByCases
    <3> QED
      BY <2>1, <3>1
  <2>3. CASE q > z
    <3>1. At(t, q) = 0 /\ end[q] = q
      BY <1>5, <1>7, <2>1, <2>3, EndByCases
    <3>2. ~Whole
      BY <1>3, <1>6, <1>8, <2>3
    <3> QED
      BY <2>1, <3>1, <3>2
  <2> QED
    BY <1>3, <1>6, <2>2, <2>3
<1>10. ASSUME NEW j \in 1 .. n, j - 1 \in S PROVE j \in S
  <2> DEFINE k == n - (j - 1)
             x == i + off[k - 1]
             y == i + off[k]
             b == s[k]
             w == f[k]
             m == Len(w)
  <2>1. k \in 1 .. n /\ k - 1 = n - j /\ j \in 0 .. n /\ k \in 0 .. n /\ k - 1 \in 0 .. n
    BY <1>1
  <2>2. P(k)
    BY <1>10
  <2> HIDE DEF k
  <2>3. b \in Byte /\ w = Escaped(b) /\ w \in Bytes
    BY <1>1, <2>1, EscapedBytes
  <2>4. Agrees(t, x, w) /\ x \in Index /\ off[k] = off[k - 1] + m
    BY <1>4, <2>1
  <2>5. off[k - 1] \in Nat /\ off[k] \in Nat /\ off[k] <= l /\ m \in Nat
    BY <1>3, <2>1, <2>3, Indexed
  <2>6. y = x + m /\ y <= q /\ x \in Nat
    <3>1. i \in Nat
      BY DEF Index
    <3> DEFINE c == off[k]
               d == off[k - 1]
    <3>2. c = d + m /\ d \in Nat /\ c \in Nat /\ m \in Nat /\ c <= l
      BY <2>4, <2>5
    <3>3. x = i + d /\ y = i + c
      OBVIOUS
    <3> HIDE DEF m, c, d, x, y
    <3>4. q = i + l /\ l \in Nat
      BY <1>3, <1>6
    <3> QED
      BY <3>1, <3>2, <3>3, <3>4
  <2>7. P(k - 1) <=> (At(t, end[x]) = 0 \/ end[x] = q + 1) /\ (Whole => end[x] = q + 1)
    OBVIOUS
  <2>8. (At(t, end[y]) = 0 \/ end[y] = q + 1) /\ (Whole => end[y] = q + 1)
    BY <2>2
  <2>0. P(k - 1) => j \in S
    BY <2>1
  <2> HIDE DEF x, y, b, w, m, P, S
  <2> SUFFICES P(k - 1)
    BY <2>0
  <2>9. end[x] = EndBy(t, x, end)
    BY <1>5, <2>4
  <2>10. CASE x > z
    <3>1. At(t, x) = 0 /\ end[x] = x
      BY <1>7, <2>4, <2>9, <2>10, EndByCases
    <3>2. ~Whole
      BY <1>3, <1>6, <1>8, <2>5, <2>6, <2>10
    <3> QED
      BY <2>7, <3>1, <3>2
  <2>11. CASE x <= z /\ b \in DOMAIN Letter
    <3>1. m = 2 /\ w[1] = BACKSLASH /\ w[2] = Letter[b] /\ Letter[b] # 0
      BY <2>3, <2>11, EscapedBytes, LetterFacts DEF m
    <3>2. 1 \in 1 .. Len(w) /\ 2 \in 1 .. Len(w) /\ (x + 1) - 1 = x /\ (x + 2) - 1 = x + 1
      BY <2>6, <3>1 DEF m
    <3>3. At(t, x) = BACKSLASH
      BY <2>3, <2>4, <2>11, <3>1, <3>2, AgreesAt DEF z
    <3>4. x + 1 \in Index
      BY <2>6 DEF Index
    <3>5. CASE x + 1 > z
      <4>1. At(t, x + 1) = 0 /\ end[x] = x + 1
        BY <1>7, <2>9, <3>3, <3>4, <3>5, EndByCases
      <4>2. ~Whole
        BY <1>3, <1>6, <1>8, <2>6, <3>1, <3>5
      <4> QED
        BY <2>7, <4>1, <4>2
    <3>6. CASE x + 1 <= z
      <4>1. At(t, x + 1) = w[2]
        BY <2>3, <2>4, <3>2, <3>6, AgreesAt DEF z
      <4>2. end[x] = end[x + 2]
        BY <2>9, <3>1, <3>3, <4>1, EndByCases
      <4>3. end[x] = end[y]
        BY <2>6, <3>1, <4>2
      <4> QED
        BY <2>7, <2>8, <4>3
    <3> QED
      BY <1>3, <2>6, <3>5, <3>6
  <2>12. CASE x <= z /\ b \notin DOMAIN Letter
    <3>1. m = 1 /\ w[1] = b /\ b # BACKSLASH /\ b # QUOTE
      BY <2>3, <2>12, EscapedBytes DEF m
    <3>2. 1 \in 1 .. Len(w) /\ (x + 1) - 1 = x
      BY <2>6, <3>1 DEF m
    <3>3. At(t, x) = b
      BY <2>3, <2>4, <2>12, <3>1, <3>2, AgreesAt DEF z
    <3>4. CASE b = 0
      <4>1. end[x] = x /\ At(t, x) = 0
        BY <2>9, <3>3, <3>4, EndByCases
      <4>2. ~Whole
        BY <1>8, <2>1, <3>4 DEF b
      <4> QED
        BY <2>7, <4>1, <4>2
    <3>5. CASE b # 0
      <4>1. end[x] = end[x + 1]
        BY <2>9, <3>1, <3>3, <3>5, EndByCases
      <4>2. end[x] = end[y]
        BY <2>6, <3>1, <4>1
      <4> QED
        BY <2>7, <2>8, <4>2
    <3> QED
      BY <3>4, <3>5
  <2> QED
    BY <1>3, <2>6, <2>10, <2>11, <2>12
<1> HIDE DEF S
<1>11. \A j \in 0 .. n : j \in S
  BY <1>1, <1>9, <1>10, InductionUpTo
<1>12. P(n - n)
  <2>1. n \in 0 .. n
    BY <1>1
  <2> QED
    BY <1>11, <2>1 DEF S
<1>13. i + off[n - n] = i
  BY <1>1, <1>3, <1>6
<1>14. QuoteEnd(t, i) = end[i]
  BY <1>5
<1> QED
  BY <1>12, <1>13, <1>14 DEF Whole, n

LEMMA PrintableShows ==
  ASSUME NEW s \in Printable
  PROVE  s \in Bytes /\ (\A k \in 1 .. Len(s) : s[k] # 0) /\ CString(s) = s
<1>1. s \in Bytes /\ \A k \in 1 .. Len(s) : s[k] \in Shown
  BY DEF Printable, Bytes
<1>2. 0 \notin Shown
  BY DEF Shown, Control
<1>3. \A k \in 1 .. Len(s) : s[k] # 0
  BY <1>1, <1>2
<1>4. {i \in DOMAIN s : s[i] = 0} = {}
  BY <1>1, <1>3 DEF Bytes
<1>5. CString(s) = s
  BY <1>4 DEF CString
<1> QED
  BY <1>1, <1>3, <1>5

\* get_quoted_string of a written string.
LEMMA QuotedReads ==
  ASSUME NEW t \in Bytes, NEW i \in Index, NEW s \in Bytes, Agrees(t, i, WrittenString(s)),
         NEW e, e = i + Len(WrittenString(s))
  PROVE  /\ At(t, e) # 0 =>
              Quoted(t, i) = IF s \in Printable THEN {[text |-> s, next |-> e]} ELSE {}
         /\ At(t, e) = 0 => Quoted(t, i) = {}
<1> DEFINE flat == Seqs!FlattenSeq(Forms(s))
           q == (i + 1) + Len(flat)
           end == QuoteEnd(t, i + 1)
           z == Len(t)
<1>1. /\ flat \in Bytes /\ Agrees(t, i + 1, flat) /\ i + 1 \in Index /\ q \in Index
      /\ i + Len(WrittenString(s)) = q + 1
      /\ q <= z => At(t, q) = QUOTE
  BY StringLies
<1>2. e = q + 1 /\ e \in Index /\ q = (i + 1) + Len(flat) /\ q \in Nat
  <2>1. e = q + 1
    BY <1>1
  <2> HIDE DEF q
  <2>2. e \in Index /\ q \in Nat
    BY <1>1, <2>1 DEF Index
  <2> QED
    BY <2>1, <2>2 DEF q
<1>3. Processed[flat] = IF s \in Printable THEN {s} ELSE {}
  BY ProcessedForms
<1>4. /\ At(t, end) = 0 \/ end = q + 1
      /\ At(t, q + 1) # 0 /\ (\A k \in 1 .. Len(s) : s[k] # 0) => end = q + 1
  <2> DEFINE a == i + 1
  <2>1. a \in Index /\ Agrees(t, a, flat) /\ q = a + Len(flat) /\ (q <= z => At(t, q) = QUOTE)
    BY <1>1
  <2>2. flat = Seqs!FlattenSeq(Forms(s))
    OBVIOUS
  <2> HIDE DEF a, q, flat, z
  <2>3. /\ At(t, QuoteEnd(t, a)) = 0 \/ QuoteEnd(t, a) = q + 1
        /\ At(t, q + 1) # 0 /\ (\A k \in 1 .. Len(s) : s[k] # 0) => QuoteEnd(t, a) = q + 1
    BY <2>1, <2>2, QuoteEndForms DEF z
  <2> QED
    BY <2>3 DEF a
<1>5. /\ At(t, end) = 0 => Quoted(t, i) = {}
      /\ At(t, end) # 0 =>
           Quoted(t, i) = {[text |-> CString(x), next |-> end] : x \in Processed[SubSeq(t, i + 1, end - 2)]}
  BY DEF Quoted
<1>6. ASSUME end = e, At(t, e) # 0 PROVE SubSeq(t, i + 1, end - 2) = flat
  <2>1. e \in 1 .. z
    BY <1>2, <1>6, AtWithin
  <2>2. end - 2 = q - 1 /\ q - 1 <= z /\ z \in Nat
    <3>1. z \in Nat
      BY Indexed
    <3> HIDE DEF z, q, end
    <3> QED
      BY <1>2, <1>6, <2>1, <3>1
  <2>3. q - 1 = ((i + 1) + Len(flat)) - 1
    OBVIOUS
  <2> HIDE DEF q, flat, end
  <2>4. SubSeq(t, i + 1, q - 1) = flat
    BY <1>1, <2>2, <2>3, AgreesSub
  <2> QED
    BY <2>2, <2>4
<1> HIDE DEF flat, q, end
<1>7. ASSUME At(t, e) # 0, s \in Printable PROVE Quoted(t, i) = {[text |-> s, next |-> e]}
  <2>1. end = e
    BY <1>2, <1>4, <1>7, PrintableShows
  <2>2. Quoted(t, i) = {[text |-> CString(x), next |-> e] : x \in {s}}
    BY <1>3, <1>5, <1>6, <1>7, <2>1
  <2> QED
    BY <1>7, <2>2, PrintableShows
<1>8. ASSUME At(t, e) # 0, s \notin Printable PROVE Quoted(t, i) = {}
  <2>1. CASE At(t, end) = 0
    BY <1>5, <2>1
  <2>2. CASE At(t, end) # 0
    <3>1. end = e
      BY <1>2, <1>4, <2>2
    <3>2. Quoted(t, i) = {[text |-> CString(x), next |-> e] : x \in {}}
      BY <1>3, <1>5, <1>6, <1>8, <3>1
    <3> QED
      BY <3>2
  <2> QED
    BY <2>1, <2>2
<1>9. ASSUME At(t, e) = 0 PROVE Quoted(t, i) = {}
  BY <1>2, <1>4, <1>5, <1>9
<1> QED
  BY <1>7, <1>8, <1>9

LEMMA LiteralNone ==
  ASSUME NEW t \in Bytes, NEW i \in Index, i > Len(t)
  PROVE  LiteralAt(t, i) = {}
<1> DEFINE l == "null"
           w == Literal[l]
           e == i + Len(w)
<1>1. l \in DOMAIN Literal
  BY LiteralType
<1> HIDE DEF l
<1>2. i \in Nat /\ Len(t) \in Nat /\ Len(w) \in Nat /\ Len(w) >= 1
  BY <1>1, LiteralFirst, Indexed DEF Index
<1>3. Agrees(t, i, w)
  <2> SUFFICES ASSUME NEW k \in 1 .. Len(w) PROVE (i + k) - 1 > Len(t)
    BY <1>2 DEF Agrees
  <2> HIDE DEF w
  <2> QED
    BY <1>2
<1>4. e > Len(t) + 1
  <2> HIDE DEF w
  <2> QED
    BY <1>2
<1> QED
  BY <1>1, <1>3, <1>4, LiteralReads

\* What a value is written as begins with a byte that is no white space and
\* closes nothing.
Begins(v, b) ==
  /\ v.type = "string" => b = QUOTE
  /\ v.type = "number" => b \in Digit
  /\ v.type = "literal" => b \in {102, 110, 116}
  /\ v.type \in Kinds => b = Opening[v.type]

LEMMA WrittenCases ==
  ASSUME NEW v \in Value
  PROVE  /\ v.type = "string" => Written[v] = WrittenString(v.text)
         /\ v.type = "number" => Written[v] = Decimal[v.number]
         /\ v.type = "literal" => Written[v] = Literal[v.literal]
         /\ v.type = "array" =>
              Written[v] = <<Opening.array>> \o Listed([i \in DOMAIN v.items |-> Written[v.items[i]]])
                             \o <<Closing.array>>
         /\ v.type = "object" =>
              Written[v] = <<Opening.object>>
                             \o Listed([i \in DOMAIN v.members |->
                                          WrittenString(v.members[i].name) \o <<COLON>>
                                            \o Written[Under(v.members, v.members[i].name)]])
                             \o <<Closing.object>>
<1>1. Written[v] = WrittenBy(v, Written)
  BY WrittenEquation
<1> QED
  BY <1>1 DEF WrittenBy

\* Where the texts of a list begin in the text that lists them, and where what
\* follows the last of them does.
PartsLie(t, i, texts, pos) ==
  /\ pos \in [1 .. Len(texts) + 1 -> Index] /\ pos[1] = i
  /\ \A k \in 1 .. Len(texts) : /\ Agrees(t, pos[k], texts[k])
                                /\ pos[k + 1] = (pos[k] + Len(texts[k])) + 1
  /\ \A k \in 1 .. Len(texts) - 1 : pos[k + 1] - 1 <= Len(t) => At(t, pos[k + 1] - 1) = COMMA
  /\ Len(texts) >= 1 => pos[Len(texts) + 1] = (i + Len(Listed(texts))) + 1

LEMMA ListedLies ==
  ASSUME NEW t \in Bytes, NEW i \in Index, NEW texts \in Seq(Bytes), Agrees(t, i, Listed(texts))
  PROVE  \E pos : PartsLie(t, i, texts, pos)
<1> DEFINE m == Len(texts)
           h == <<COMMA>>
           seqs == [k \in DOMAIN texts |-> IF k = 1 THEN texts[k] ELSE h \o texts[k]]
           flat == Listed(texts)
           l == Len(flat)
<1>0. i \in Nat /\ i >= 1
  BY DEF Index
<1>1. m \in Nat /\ DOMAIN texts = 1 .. m /\ \A k \in 1 .. m : texts[k] \in Bytes
  OBVIOUS
<1>2. h \in Bytes /\ Len(h) = 1 /\ h[1] = COMMA
  BY BytesOf, Marks
<1>3. flat = Seqs!FlattenSeq(seqs)
  BY DEF Listed
<1> HIDE DEF h, m
<1>4. /\ seqs \in Seq(Bytes) /\ Len(seqs) = m
      /\ \A k \in 1 .. m : seqs[k] = IF k = 1 THEN texts[k] ELSE h \o texts[k]
  <2>1. \A k \in 1 .. m : h \o texts[k] \in Bytes
    BY <1>1, <1>2, Joined
  <2>2. seqs = [k \in 1 .. m |-> IF k = 1 THEN texts[k] ELSE h \o texts[k]]
    BY <1>1
  <2>3. seqs \in [1 .. m -> Bytes]
    BY <1>1, <2>1, <2>2
  <2> QED
    BY <1>1, <2>2, <2>3, SeqDef, LenProperties
<1> HIDE DEF seqs, flat, l
<1>5. PICK off : Lays(seqs, off)
  BY <1>4, LaysExist
<1>6. /\ off \in [0 .. m -> Nat] /\ off[0] = 0 /\ off[m] = l
      /\ \A k \in 1 .. m : off[k] = off[k - 1] + Len(seqs[k])
      /\ \A k \in 1 .. m : Agrees(t, i + off[k - 1], seqs[k]) /\ i + off[k - 1] \in Index
  BY <1>3, <1>4, <1>5 DEF Lays, flat, l
<1> DEFINE pos == [k \in 1 .. m + 1 |-> IF k = 1 THEN i ELSE (i + off[k - 1]) + 1]
<1>7. /\ pos \in [1 .. m + 1 -> Index] /\ pos[1] = i
      /\ \A k \in 1 .. m : pos[k + 1] = (i + off[k]) + 1 /\ pos[k] = IF k = 1 THEN i ELSE (i + off[k - 1]) + 1
  <2>1. 1 \in 1 .. m + 1 /\ \A k \in 1 .. m : k \in 1 .. m + 1 /\ k + 1 \in 1 .. m + 1 /\ k + 1 # 1 /\ (k + 1) - 1 = k
    BY <1>1
  <2>2. \A k \in 1 .. m + 1 : k # 1 => (i + off[k - 1]) + 1 \in Index
    <3> SUFFICES ASSUME NEW k \in 1 .. m + 1, k # 1 PROVE (i + off[k - 1]) + 1 \in Index
      OBVIOUS
    <3>1. k - 1 \in 0 .. m
      BY <1>1
    <3>2. off[k - 1] \in Nat
      BY <1>6, <3>1
    <3> QED
      BY <1>0, <3>2 DEF Index
  <2> QED
    BY <2>1, <2>2
<1> HIDE DEF pos
<1>8. ASSUME NEW k \in 1 .. m
      PROVE  /\ Agrees(t, pos[k], texts[k])
             /\ pos[k + 1] = (pos[k] + Len(texts[k])) + 1
             /\ k # 1 /\ pos[k] - 1 <= Len(t) => At(t, pos[k] - 1) = COMMA
  <2> DEFINE x == i + off[k - 1]
             w == texts[k]
             n == Len(w)
  <2>1. Agrees(t, x, seqs[k]) /\ x \in Index /\ w \in Bytes /\ n \in Nat
    BY <1>1, <1>6, Indexed
  <2>2. off[k] = off[k - 1] + Len(seqs[k]) /\ off[k - 1] \in Nat /\ pos[k + 1] = (i + off[k]) + 1
    <3>1. k - 1 \in 0 .. m
      BY <1>1
    <3> QED
      BY <1>6, <1>7, <3>1
  <2>3. CASE k = 1
    <3>1. seqs[k] = w /\ k - 1 = 0
      BY <1>4, <2>3
    <3>2. pos[k] = i /\ off[k - 1] = 0
      BY <1>6, <1>7, <2>3, <3>1
    <3>3. x = i /\ off[k] = n
      <4> HIDE DEF w
      <4> QED
        BY <1>0, <2>1, <2>2, <3>1, <3>2
    <3> HIDE DEF x, w
    <3>4. pos[k + 1] = (pos[k] + n) + 1
      BY <1>0, <2>2, <3>2, <3>3
    <3> QED
      BY <2>1, <2>3, <3>1, <3>2, <3>3, <3>4 DEF w
  <2>4. CASE k # 1
    <3>1. seqs[k] = h \o w
      BY <1>4, <2>4
    <3>2. pos[k] = x + 1
      BY <1>7, <2>4
    <3> HIDE DEF x, w
    <3>3. Agrees(t, x, h) /\ Agrees(t, x + Len(h), w) /\ Len(h \o w) = Len(h) + Len(w)
      <4>1. Agrees(t, x, h \o w) /\ w \in Bytes /\ h \in Bytes
        BY <1>2, <2>1, <3>1 DEF w
      <4>2. Len(h \o w) = Len(h) + Len(w)
        BY <4>1, JoinedLength
      <4> QED
        BY <2>1, <4>1, <4>2, AgreesJoin
    <3>4. pos[k + 1] = (pos[k] + n) + 1
      <4> DEFINE a == off[k - 1]
                 b == off[k]
      <4>1. b = a + (1 + n)
        BY <1>2, <2>2, <3>1, <3>3
      <4>2. x = i + a /\ i \in Nat /\ a \in Nat /\ n \in Nat /\ pos[k + 1] = (i + b) + 1
        BY <1>0, <2>1, <2>2 DEF x
      <4> HIDE DEF a, b, n
      <4>3. (i + b) + 1 = ((x + 1) + n) + 1
        BY <4>1, <4>2
      <4> QED
        BY <3>2, <4>2, <4>3
    <3>5. pos[k] - 1 = x
      BY <2>1, <3>2 DEF Index
    <3>6. x <= Len(t) => At(t, x) = COMMA
      <4>1. 1 \in 1 .. Len(h) /\ (x + 1) - 1 = x
        BY <1>2, <2>1 DEF Index
      <4>2. (x + 1) - 1 <= Len(t) => At(t, (x + 1) - 1) = h[1]
        BY <1>2, <2>1, <3>3, <4>1, AgreesAt
      <4> QED
        BY <1>2, <4>1, <4>2
    <3>7. Agrees(t, pos[k], w)
      BY <1>2, <3>2, <3>3
    <3> QED
      BY <3>4, <3>5, <3>6, <3>7 DEF w
  <2> QED
    BY <2>3, <2>4
<1>9. ASSUME NEW k \in 1 .. m - 1, pos[k + 1] - 1 <= Len(t) PROVE At(t, pos[k + 1] - 1) = COMMA
  <2>1. k + 1 \in 1 .. m /\ k + 1 # 1
    BY <1>1
  <2> QED
    BY <1>8, <1>9, <2>1
<1>10. ASSUME m >= 1 PROVE pos[m + 1] = (i + l) + 1
  <2>1. m \in 1 .. m
    BY <1>1, <1>10
  <2> QED
    BY <1>6, <1>7, <2>1
<1>11. PartsLie(t, i, texts, pos)
  BY <1>7, <1>8, <1>9, <1>10 DEF PartsLie, m, flat, l
<1> QED
  BY <1>11

LEMMA ListedNone ==
  ASSUME NEW texts, texts = <<>>
  PROVE  Listed(texts) = <<>>
<1> DEFINE seqs == [k \in DOMAIN texts |-> IF k = 1 THEN texts[k] ELSE <<COMMA>> \o texts[k]]
<1>1. DOMAIN texts = {} /\ texts = <<>>
  OBVIOUS
<1>2. seqs = <<>>
  BY <1>1
<1>3. seqs \in Seq(Seq(Byte)) /\ Len(seqs) = 0
  BY <1>2
<1> HIDE DEF seqs
<1>4. PICK flat \in [0 .. Len(seqs) -> Seq(Byte)] :
        /\ flat[0] = <<>>
        /\ \A i \in 1 .. Len(seqs) : flat[i] = flat[i - 1] \o seqs[i]
        /\ Seqs!FlattenSeq(seqs) = flat[Len(seqs)]
  BY <1>3, Flattened
<1> QED
  BY <1>3, <1>4 DEF Listed, seqs

\* The parts of an array or an object, and what is written of each.
PartsIn(v) == IF v.type = "array" THEN v.items ELSE v.members

TextsIn(v) ==
  IF v.type = "array" THEN [i \in DOMAIN v.items |-> Written[v.items[i]]]
  ELSE [i \in DOMAIN v.members |->
          WrittenString(v.members[i].name) \o <<COLON>>
            \o Written[Under(v.members, v.members[i].name)]]

LEMMA MemberText ==
  ASSUME NEW s \in Bytes, NEW w \in Bytes
  PROVE  WrittenString(s) \o <<COLON>> \o w \in Bytes
<1> DEFINE a == WrittenString(s)
           b == <<COLON>>
<1>1. a \in Bytes /\ b \in Bytes
  BY WrittenStringType, BytesOf, Marks
<1> HIDE DEF a, b
<1>2. a \o b \in Bytes
  BY <1>1, Joined
<1> DEFINE c == a \o b
<1> HIDE DEF c
<1>3. c \o w \in Bytes
  BY <1>2, Joined DEF c
<1> QED
  BY <1>3 DEF a, b, c

LEMMA ContainerWritten ==
  ASSUME NEW v \in Value, v.type \in Kinds
  PROVE  /\ TextsIn(v) \in Seq(Bytes) /\ Len(TextsIn(v)) = Len(PartsIn(v))
         /\ Encloses(Written[v], Opening[v.type], Listed(TextsIn(v)), Closing[v.type])
         /\ v = Container(v.type, PartsIn(v))
<1>1. Written \in [Value -> Bytes]
  BY WrittenEquation
<1>2. PICK inner : v \in Over(inner)
  BY ValueOver
<1>3. \A texts \in Seq(Bytes) : Listed(texts) \in Bytes
  <2> SUFFICES ASSUME NEW texts \in Seq(Bytes) PROVE Listed(texts) \in Bytes
    OBVIOUS
  <2> DEFINE sizes == [i \in 1 .. Len(texts) |-> Len(texts[i])]
  <2>1. \A i \in 1 .. Len(texts) : Len(texts[i]) \in Nat
    <3>1. \A i \in 1 .. Len(texts) : texts[i] \in Bytes
      OBVIOUS
    <3> QED
      BY <3>1, Indexed
  <2>2. sizes \in Seq(Nat) /\ Len(sizes) = Len(texts)
    BY <2>1, SeqDef, LenProperties
  <2> QED
    BY <2>2, ListedType
<1>4. CASE v.type = "array"
  <2> DEFINE parts == v.items
             texts == [i \in DOMAIN parts |-> Written[parts[i]]]
  <2>1. parts \in Seq(Value) /\ v = Array(parts)
    BY <1>2, <1>4, Parts, OverShape
  <2>2. TextsIn(v) = texts /\ PartsIn(v) = parts
    BY <1>4 DEF TextsIn, PartsIn
  <2>3. Written[v] = <<Opening.array>> \o Listed(texts) \o <<Closing.array>>
    BY <1>4, WrittenCases
  <2> HIDE DEF parts
  <2>4. texts \in Seq(Bytes) /\ Len(texts) = Len(parts)
    <3> DEFINE n == Len(parts)
    <3>1. n \in Nat /\ DOMAIN parts = 1 .. n /\ \A i \in 1 .. n : parts[i] \in Value
      BY <2>1
    <3> HIDE DEF n
    <3>2. texts = [i \in 1 .. n |-> Written[parts[i]]] /\ texts \in [1 .. n -> Bytes]
      BY <1>1, <3>1
    <3> QED
      BY <3>1, <3>2, SeqDef, LenProperties DEF n
  <2> HIDE DEF texts
  <2>5. Encloses(Written[v], Opening.array, Listed(texts), Closing.array)
    BY <1>3, <2>3, <2>4, Marks DEF Encloses
  <2> QED
    BY <1>4, <2>1, <2>2, <2>4, <2>5 DEF Container
<1>5. CASE v.type = "object"
  <2> DEFINE parts == v.members
             texts == [i \in DOMAIN parts |->
                         WrittenString(parts[i].name) \o <<COLON>>
                           \o Written[Under(parts, parts[i].name)]]
  <2>1. parts \in Seq([name : Bytes, value : Value]) /\ v = Object(parts)
    BY <1>2, <1>5, Parts, OverShape
  <2>2. TextsIn(v) = texts /\ PartsIn(v) = parts
    BY <1>5 DEF TextsIn, PartsIn
  <2>3. Written[v] = <<Opening.object>> \o Listed(texts) \o <<Closing.object>>
    BY <1>5, WrittenCases
  <2>4. \A i \in DOMAIN parts : parts[i].name \in Bytes /\ Under(parts, parts[i].name) \in Value
    BY <1>5, PartsBelow
  <2> HIDE DEF parts
  <2>5. texts \in Seq(Bytes) /\ Len(texts) = Len(parts)
    <3> DEFINE n == Len(parts)
               T(i) == WrittenString(parts[i].name) \o <<COLON>>
                         \o Written[Under(parts, parts[i].name)]
    <3>1. n \in Nat /\ DOMAIN parts = 1 .. n
      BY <2>1
    <3>2. \A i \in 1 .. n : T(i) \in Bytes
      BY <1>1, <2>4, <3>1, MemberText
    <3>3. texts = [i \in 1 .. n |-> T(i)]
      BY <3>1
    <3> HIDE DEF n, T
    <3>4. texts \in [1 .. n -> Bytes]
      BY <3>2, <3>3
    <3> HIDE DEF texts
    <3> QED
      BY <3>1, <3>4, SeqDef, LenProperties DEF n
  <2> HIDE DEF texts
  <2>6. Encloses(Written[v], Opening.object, Listed(texts), Closing.object)
    BY <1>3, <2>3, <2>5, Marks DEF Encloses
  <2>7. v.type # "array"
    BY <1>5
  <2> QED
    BY <1>5, <2>1, <2>2, <2>5, <2>6, <2>7 DEF Container
<1> QED
  BY <1>4, <1>5 DEF Kinds

LEMMA WrittenBegins ==
  ASSUME NEW v \in Value
  PROVE  Written[v] \in Bytes /\ Len(Written[v]) >= 1 /\ Begins(v, Written[v][1])
<1> DEFINE w == Written[v]
<1>1. w \in Bytes /\ 1 \in Index
  BY WrittenEquation DEF Index
<1>2. Agrees(w, 1, w) /\ Len(w) \in Nat
  BY <1>1, AgreesSelf, Indexed
<1>3. CASE v.type = "string"
  <2> DEFINE flat == Seqs!FlattenSeq(Forms(v.text))
             q == (1 + 1) + Len(flat)
  <2>1. v.text \in Bytes /\ w = WrittenString(v.text)
    BY <1>3, Parts, WrittenCases
  <2> HIDE DEF w
  <2>2. flat \in Bytes /\ Len(WrittenString(v.text)) = Len(flat) + 2 /\ WrittenString(v.text)[1] = QUOTE
    <3> DEFINE s == v.text
               i == 1
    <3>1. s \in Bytes /\ i \in Index /\ Agrees(w, i, WrittenString(s))
      BY <1>1, <1>2, <2>1
    <3>2. flat = Seqs!FlattenSeq(Forms(s)) /\ q = (i + 1) + Len(flat)
      OBVIOUS
    <3> HIDE DEF s, i, flat, q
    <3>3. flat \in Bytes /\ Len(WrittenString(s)) = Len(flat) + 2 /\ WrittenString(s)[1] = QUOTE
      BY <1>1, <3>1, <3>2, StringLies
    <3> QED
      BY <3>3 DEF s
  <2> HIDE DEF flat
  <2>3. Len(flat) \in Nat
    BY <2>2, Indexed
  <2>4. Len(w) >= 1 /\ w[1] = QUOTE
    BY <2>1, <2>2, <2>3
  <2> QED
    BY <1>1, <1>3, <2>4 DEF Begins, Kinds, w
<1>4. CASE v.type = "number"
  <2>1. v.number \in Nat /\ w = Decimal[v.number]
    BY <1>4, Parts, WrittenCases
  <2> HIDE DEF w
  <2>2. w \in Seq(Digit) /\ Len(w) >= 1
    BY <2>1, DecimalWrites DEF Writes
  <2>3. w[1] \in Digit
    BY <2>2
  <2> QED
    BY <1>1, <1>4, <2>2, <2>3 DEF Begins, Kinds, w
<1>5. CASE v.type = "literal"
  <2>1. v.literal \in DOMAIN Literal /\ w = Literal[v.literal]
    BY <1>5, Parts, WrittenCases
  <2> HIDE DEF w
  <2>2. Len(w) >= 1 /\ w[1] \in {102, 110, 116}
    BY <2>1, LiteralFirst
  <2> QED
    BY <1>1, <1>5, <2>2 DEF Begins, Kinds, w
<1>6. CASE v.type \in Kinds
  <2> DEFINE x == Listed(TextsIn(v))
             q == (1 + 1) + Len(x)
             a == Opening[v.type]
             b == Closing[v.type]
  <2>1. Encloses(w, a, x, b)
    BY <1>6, ContainerWritten
  <2>2. x \in Bytes
    BY <2>1 DEF Encloses
  <2>3. Len(x) \in Nat
    BY <2>2, Indexed
  <2> HIDE DEF x, a, b, w
  <2>4. Len(w) = Len(x) + 2 /\ w[1] = a
    <3> DEFINE i == 1
    <3>1. i \in Index /\ Agrees(w, i, w) /\ q = (i + 1) + Len(x) /\ w \in Bytes
      BY <1>1, <1>2
    <3> HIDE DEF i, q
    <3>2. Len(w) = Len(x) + 2
      BY <2>1, <3>1, Enclosed
    <3>3. w[1] = a
      BY <2>1, <3>1, Enclosed
    <3> QED
      BY <3>2, <3>3
  <2>5. Len(w) >= 1 /\ w[1] = a
    BY <2>3, <2>4
  <2>6. v.type \notin {"string", "number", "literal"}
    BY <1>6 DEF Kinds
  <2> QED
    BY <1>1, <2>5, <2>6 DEF Begins, w, a
<1> QED
  BY <1>3, <1>4, <1>5, <1>6, Parts DEF Kinds

\* Where a value is written, as far as the text goes, nothing is skipped.
LEMMA ValueStarts ==
  ASSUME NEW t \in Bytes, NEW i \in Index, NEW v \in Value, Agrees(t, i, Written[v])
  PROVE  /\ Blank(t, i) = i /\ At(t, i) \notin White \cup {COMMA} \cup {Closing[k] : k \in Kinds}
         /\ i <= Len(t) => Begins(v, At(t, i)) /\ At(t, i) # 0
         /\ i > Len(t) => At(t, i) = 0
<1> DEFINE w == Written[v]
           m == Len(w)
           n == Len(t)
<1>1. w \in Bytes /\ m >= 1 /\ Begins(v, w[1]) /\ m \in Nat /\ n \in Nat /\ i \in Nat /\ Agrees(t, i, w)
  BY WrittenBegins, Indexed DEF Index
<1> HIDE DEF w
<1>2. (i <= n => At(t, i) = w[1]) /\ (i > n => At(t, i) = 0)
  <2>1. 1 \in 1 .. m /\ (i + 1) - 1 = i
    <3> HIDE DEF m
    <3> QED
      BY <1>1
  <2>2. (i + 1) - 1 <= Len(t) => At(t, (i + 1) - 1) = w[1]
    <3> HIDE DEF n
    <3> QED
      BY <1>1, <2>1, AgreesAt
  <2>3. i > Len(t) => At(t, i) = 0
    BY AtType
  <2> QED
    BY <2>1, <2>2, <2>3
<1> HIDE DEF m, n
<1>3. \A b : Begins(v, b) => b \in {34, 102, 110, 116, 91, 123} \cup Digit
  <2>1. \A k \in Kinds : Opening[k] \in {91, 123}
    BY DEF Kinds, Opening
  <2>2. v.type \in {"string", "number", "literal"} \cup Kinds
    BY Parts DEF Kinds
  <2> QED
    BY <2>1, <2>2 DEF Begins, QUOTE
<1>4. {34, 102, 110, 116, 91, 123, 0} \cap (White \cup {44, 93, 125}) = {} /\ Digit \cap (White \cup {0, 44, 93, 125}) = {}
  BY DEF White, Digit
<1>5. {Closing[k] : k \in Kinds} \subseteq {93, 125} /\ COMMA = 44
  BY DEF Kinds, Closing, COMMA
<1>6. At(t, i) \in {0, 34, 102, 110, 116, 91, 123} \cup Digit /\ (i <= n => At(t, i) # 0)
  <2>1. 0 \notin {34, 102, 110, 116, 91, 123} \cup Digit
    BY DEF Digit
  <2>2. CASE i <= n
    BY <1>1, <1>2, <1>3, <2>1, <2>2
  <2>3. CASE i > n
    BY <1>1, <1>2, <2>3
  <2> QED
    BY <1>1, <2>2, <2>3
<1>7. At(t, i) \notin White \cup {COMMA} \cup {Closing[k] : k \in Kinds}
  BY <1>4, <1>5, <1>6
<1>8. Blank(t, i) = i
  BY <1>7, BlankStays
<1> QED
  BY <1>1, <1>2, <1>6, <1>7, <1>8 DEF n

-----------------------------------------------------------------------------
(* The values that levels of the parser read back. *)

\* Nested no deeper than n levels go, of printable strings.
Kept(n) == {v \in Held(n) : v \in Saying(Printable)}

KeptParts(kind, n) == IF kind = "array" THEN Kept(n) ELSE [name : Printable, value : Kept(n)]

LEMMA NoneKept == Kept(0) = {}
BY DEF Kept, Held

LEMMA AtomKept ==
  ASSUME NEW v \in Value, v.type \notin Kinds, NEW n \in Nat
  PROVE  v \in Kept(n + 1) <=> (v.type = "string" => v.text \in Printable)
<1>0. /\ v.type \in {"string", "number", "literal"}
      /\ v.type = "string" => v.text \in Bytes /\ v = String(v.text)
      /\ v.type = "number" => v.number \in Nat /\ v = Number(v.number)
      /\ v.type = "literal" => v.literal \in DOMAIN Literal /\ v = Plain(v.literal)
  <2>1. PICK inner : v \in Over(inner)
    BY ValueOver
  <2> QED
    BY <2>1, OverShape DEF Kinds
<1>1. v \in Held(n + 1)
  <2>1. v \in Over(Held(n))
    <3>1. CASE v.type = "string"
      <4>1. v \in [type : {"string"}, text : Bytes]
        BY <1>0, <3>1 DEF String
      <4> QED
        BY <4>1 DEF Over
    <3>2. CASE v.type = "number"
      <4>1. v \in [type : {"number"}, number : Nat]
        BY <1>0, <3>2 DEF Number
      <4> QED
        BY <4>1 DEF Over
    <3>3. CASE v.type = "literal"
      <4>1. v \in [type : {"literal"}, literal : DOMAIN Literal]
        BY <1>0, <3>3 DEF Plain
      <4> QED
        BY <4>1 DEF Over
    <3> QED
      BY <1>0, <3>1, <3>2, <3>3
  <2> QED
    BY <2>1, HeldNext
<1>2. v \in Saying(Printable) <=> (v.type = "string" => v.text \in Printable)
  <2>1. Strings[v] = StringsBy(v, Strings)
    BY StringsEquation
  <2>2. v.type = "string" => Strings[v] = {v.text}
    BY <2>1, StringsByCases
  <2>3. v.type # "string" => Strings[v] = {}
    BY <1>0, <2>1, StringsByCases
  <2> QED
    BY <2>2, <2>3 DEF Saying
<1> QED
  BY <1>1, <1>2 DEF Kept

LEMMA ContainerKept ==
  ASSUME NEW v \in Value, v.type \in Kinds, NEW n \in Nat
  PROVE  v \in Kept(n + 1) <=>
           \A k \in 1 .. Len(PartsIn(v)) : PartsIn(v)[k] \in KeptParts(v.type, n)
<1> DEFINE V == Held(n)
           P == Printable
<1>0. P \in SUBSET Bytes /\ Over(V) = Held(n + 1)
  BY HeldNext DEF Printable
<1> HIDE DEF V, P
<1>1. CASE v.type = "array"
  <2> DEFINE items == v.items
  <2>1. PartsIn(v) = items /\ v = Container("array", items) /\ items \in Seq(Value)
    BY <1>1, ContainerWritten, Parts DEF PartsIn
  <2>2. \A p \in Value : p \in KeptParts("array", n) <=> p \in V /\ p \in Saying(P)
    BY DEF KeptParts, Kept, V, P
  <2>3. ASSUME v \in Over(V), v \in Saying(P), NEW k \in 1 .. Len(items)
        PROVE  items[k] \in V /\ items[k] \in Saying(P) /\ items[k] \in Value
    <3>1. items \in Seq(V)
      BY <1>1, <2>3, OverShape
    <3>2. items \in Seq(Saying(P))
      <4>1. items \in Seq(PartsSaying("array", P))
        BY <1>0, <1>1, <2>3, PartsSay
      <4> QED
        BY <4>1 DEF PartsSaying
    <3> HIDE DEF items
    <3> QED
      BY <2>1, <3>1, <3>2
  <2> HIDE DEF items
  <2>4. ASSUME \A k \in 1 .. Len(items) : items[k] \in V /\ items[k] \in Saying(P)
        PROVE  v \in Over(V) /\ v \in Saying(P)
    <3>1. items \in Seq(V) /\ items \in Seq(Saying(P))
      BY <2>1, <2>4
    <3>2. items \in Seq(PartsOf("array", V)) /\ items \in Seq(PartsSaying("array", P))
      BY <3>1 DEF PartsOf, PartsSaying
    <3>3. "array" \in Kinds /\ Container("array", items) \in Value
      BY <2>1 DEF Kinds
    <3>4. Container("array", items) \in Over(V)
      BY <3>2, <3>3, ContainerType
    <3>5. Container("array", items) \in Saying(P)
      BY <3>2, <3>3, ContainerSays
    <3> QED
      BY <2>1, <3>4, <3>5
  <2>5. v \in Kept(n + 1) <=> v \in Over(V) /\ v \in Saying(P)
    BY <1>0 DEF Kept, P
  <2>6. \A k \in 1 .. Len(items) : items[k] \in Value
    BY <2>1
  <2> QED
    BY <1>1, <2>1, <2>2, <2>3, <2>4, <2>5, <2>6
<1>2. CASE v.type = "object"
  <2> DEFINE members == v.members
             Q == [name : Bytes, value : Value]
             Q1 == [name : Bytes, value : V]
             Q2 == PartsSaying("object", P)
  <2>1. PartsIn(v) = members /\ v = Container("object", members) /\ members \in Seq(Q)
    <3>1. v.type # "array"
      BY <1>2
    <3> QED
      BY <1>2, <3>1, ContainerWritten, Parts DEF PartsIn
  <2>2. \A p \in Q : p \in KeptParts("object", n) <=> p \in Q1 /\ p \in Q2
    <3>1. \A p \in Q : p \in KeptParts("object", n) <=> p.name \in P /\ p.value \in V /\ p.value \in Saying(P)
      BY DEF KeptParts, Kept, V, P
    <3>2. \A p \in Q : p \in Q1 <=> p.value \in V
      OBVIOUS
    <3>3. \A p \in Q : p \in Q2 <=> p.name \in P /\ p.value \in Saying(P)
      BY DEF PartsSaying
    <3> HIDE DEF Q, Q1, Q2
    <3> QED
      BY <3>1, <3>2, <3>3
  <2>7. PartsOf("object", V) = Q1
    BY DEF PartsOf
  <2>8. v \in Over(V) => members \in Seq(Q1)
    BY <1>2, OverShape
  <2> HIDE DEF Q, Q1
  <2>3. ASSUME v \in Over(V), v \in Saying(P), NEW k \in 1 .. Len(members)
        PROVE  members[k] \in Q1 /\ members[k] \in Q2
    <3>2. members \in Seq(Q2)
      BY <1>0, <1>2, <2>3, PartsSay
    <3> HIDE DEF members, Q2
    <3> QED
      BY <2>3, <2>8, <3>2
  <2> HIDE DEF members
  <2>4. ASSUME \A k \in 1 .. Len(members) : members[k] \in Q1 /\ members[k] \in Q2
        PROVE  v \in Over(V) /\ v \in Saying(P)
    <3>1. members \in Seq(Q1) /\ members \in Seq(Q2)
      <4> HIDE DEF Q2
      <4> QED
        BY <2>1, <2>4
    <3>2. members \in Seq(PartsOf("object", V)) /\ members \in Seq(PartsSaying("object", P))
      BY <2>7, <3>1
    <3>3. "object" \in Kinds /\ Container("object", members) \in Value
      BY <2>1 DEF Kinds
    <3>4. Container("object", members) \in Over(V)
      BY <3>2, <3>3, ContainerType
    <3>5. Container("object", members) \in Saying(P)
      BY <3>2, <3>3, ContainerSays
    <3> QED
      BY <2>1, <3>4, <3>5
  <2>5. v \in Kept(n + 1) <=> v \in Over(V) /\ v \in Saying(P)
    BY <1>0 DEF Kept, P
  <2>6. \A k \in 1 .. Len(members) : members[k] \in Q
    BY <2>1
  <2> HIDE DEF Q2
  <2> QED
    BY <1>2, <2>1, <2>2, <2>3, <2>4, <2>5, <2>6
<1> QED
  BY <1>1, <1>2 DEF Kinds

\* The results of parsing a value that is written up to e: what it reads back
\* when the text goes on; when it breaks off, nothing but the end of the text.
ReadTo(t, results, V, v, e) ==
  /\ At(t, e) \in Follow \/ (v.type \in Kinds /\ e <= Len(t) + 1) =>
       results = IF v \in V THEN {Parsed(v, e)} ELSE {}
  /\ e > Len(t) => \A p \in results : At(t, p.next) = 0
  /\ v.type \in Kinds /\ e > Len(t) + 1 => results = {}

LEMMA AtomReads ==
  ASSUME NEW t \in Bytes, NEW i \in Index, NEW v \in Value, v.type \notin Kinds, NEW n \in Nat,
         NEW inside, Agrees(t, i, Written[v]), NEW e, e = i + Len(Written[v])
  PROVE  ReadTo(t, ValueAt(t, i, inside), Kept(n + 1), v, e)
<1> DEFINE V == Kept(n + 1)
           results == ValueAt(t, i, inside)
           m == Len(Written[v])
           z == Len(t)
<1>1. v \in V <=> (v.type = "string" => v.text \in Printable)
  BY AtomKept
<1>2. /\ v.type \in {"string", "number", "literal"}
      /\ v.type = "string" => v.text \in Bytes /\ v = String(v.text)
      /\ v.type = "number" => v.number \in Nat /\ v = Number(v.number)
      /\ v.type = "literal" => v.literal \in DOMAIN Literal /\ v = Plain(v.literal)
  <2>1. PICK inner : v \in Over(inner)
    BY ValueOver
  <2> QED
    BY <2>1, OverShape DEF Kinds
<1>3. /\ i <= z => Begins(v, At(t, i))
      /\ i > z => At(t, i) = 0
  BY ValueStarts
<1>4. m \in Nat /\ m >= 1 /\ z \in Nat /\ i \in Nat /\ i >= 1 /\ e = i + m
  BY WrittenBegins, Indexed DEF Index
<1>5. e \in Index /\ (e <= z => i <= z) /\ (At(t, e) \in Follow => e <= z /\ At(t, e) # 0)
      /\ (e > z => At(t, e) = 0)
  <2>1. e \in Nat /\ e >= 1
    <3> HIDE DEF m, z
    <3> QED
      BY <1>4
  <2>2. e \in Index
    BY <2>1 DEF Index
  <2>3. ASSUME At(t, e) \in Follow PROVE e <= z /\ At(t, e) # 0
    <3>1. At(t, e) # 0
      BY <2>3, FollowIs
    <3>2. e \in 1 .. z
      BY <2>2, <3>1, AtWithin
    <3> HIDE DEF z
    <3> QED
      BY <1>4, <3>1, <3>2
  <2>4. e <= z => i <= z
    <3> HIDE DEF m, z
    <3> QED
      BY <1>4
  <2>5. e > z => At(t, e) = 0
    BY <2>2, AtType
  <2> QED
    BY <2>2, <2>3, <2>4, <2>5
<1>6. ASSUME i > z PROVE results = {}
  <2>1. At(t, i) = 0 /\ LiteralAt(t, i) = {}
    BY <1>3, <1>6, LiteralNone
  <2> QED
    BY <2>1, ValueAtByte
<1> SUFFICES /\ At(t, e) \in Follow => results = IF v \in V THEN {Parsed(v, e)} ELSE {}
             /\ e > z => \A p \in results : At(t, p.next) = 0
  BY DEF ReadTo
<1> HIDE DEF V, results, m, z
<1>7. CASE i > z
  BY <1>4, <1>5, <1>6, <1>7
<1>8. CASE i <= z /\ v.type = "string"
  <2> DEFINE s == v.text
             quoted == Quoted(t, i)
  <2>1. s \in Bytes /\ v = String(s) /\ Agrees(t, i, WrittenString(s)) /\ e = i + Len(WrittenString(s))
    BY <1>2, <1>8, WrittenCases
  <2>2. At(t, i) = QUOTE
    BY <1>3, <1>8 DEF Begins
  <2>3. results = {Parsed(String(q.text), q.next) : q \in quoted}
    BY <2>2, ValueAtByte DEF results
  <2> HIDE DEF s
  <2>4. /\ At(t, e) # 0 => quoted = IF s \in Printable THEN {[text |-> s, next |-> e]} ELSE {}
        /\ At(t, e) = 0 => quoted = {}
    BY <2>1, QuotedReads
  <2> HIDE DEF quoted
  <2>5. At(t, e) = 0 => results = {}
    BY <2>3, <2>4
  <2>6. ASSUME At(t, e) # 0, s \in Printable PROVE results = {Parsed(v, e)}
    <3>1. quoted = {[text |-> s, next |-> e]}
      BY <2>4, <2>6
    <3>2. results = {Parsed(String([text |-> s, next |-> e].text), [text |-> s, next |-> e].next)}
      BY <2>3, <3>1
    <3> QED
      BY <2>1, <3>2
  <2>7. ASSUME At(t, e) # 0, s \notin Printable PROVE results = {}
    BY <2>3, <2>4, <2>7
  <2> QED
    BY <1>1, <1>5, <1>8, <2>5, <2>6, <2>7 DEF s
<1>9. CASE i <= z /\ v.type = "number"
  <2> DEFINE k == v.number
  <2>1. k \in Nat /\ v = Number(k) /\ Agrees(t, i, Decimal[k]) /\ e = i + Len(Decimal[k])
    BY <1>2, <1>9, WrittenCases
  <2> HIDE DEF k
  <2>2. /\ At(t, i) \in Digit
        /\ At(t, e) \in Follow => NumberAt(t, i) = {Parsed(Number(k), e)}
        /\ e > Len(t) => \A p \in NumberAt(t, i) : At(t, p.next) = 0
    BY <1>9, <2>1, NumberReads DEF z
  <2>3. results = NumberAt(t, i)
    BY <2>2, ValueAtByte DEF results
  <2> QED
    BY <1>1, <1>9, <2>1, <2>2, <2>3 DEF z
<1>10. CASE i <= z /\ v.type = "literal"
  <2> DEFINE l == v.literal
  <2>1. l \in DOMAIN Literal /\ v = Plain(l) /\ Agrees(t, i, Literal[l]) /\ e = i + Len(Literal[l])
    BY <1>2, <1>10, WrittenCases
  <2> HIDE DEF l
  <2>2. /\ e <= z + 1 => LiteralAt(t, i) = {Parsed(Plain(l), e)}
        /\ e > z + 1 => LiteralAt(t, i) = {}
    BY <2>1, LiteralReads DEF z
  <2>3. results = LiteralAt(t, i)
    <3>1. At(t, i) \in {102, 110, 116}
      BY <1>3, <1>10 DEF Begins
    <3> QED
      BY <3>1, ValueAtByte DEF results
  <2>4. ASSUME At(t, e) \in Follow PROVE results = {Parsed(v, e)}
    <3>1. e <= z + 1
      BY <1>4, <1>5, <2>4
    <3> QED
      BY <2>1, <2>2, <2>3, <3>1
  <2>5. ASSUME e > z, NEW p \in results PROVE At(t, p.next) = 0
    <3>1. CASE e <= z + 1
      <4>1. p = Parsed(v, e)
        BY <2>1, <2>2, <2>3, <2>5, <3>1
      <4> QED
        BY <1>5, <2>5, <4>1 DEF Parsed
    <3>2. CASE e > z + 1
      BY <2>2, <2>3, <2>5, <3>2
    <3> QED
      BY <1>4, <3>1, <3>2
  <2> QED
    BY <1>1, <1>10, <2>4, <2>5
<1> QED
  BY <1>2, <1>4, <1>7, <1>8, <1>9, <1>10

-----------------------------------------------------------------------------
(* Values as the library keeps them: the names of an object differ, and are *)
(* no more than it has room for.                                            *)

DistinctNames(members) ==
  /\ \A i, j \in DOMAIN members : members[i].name = members[j].name => i = j
  /\ Len(members) <= OBJECT_MAX_CAPACITY

IsTidy(v, T) ==
  /\ v.type = "array" => \A i \in DOMAIN v.items : v.items[i] \in T
  /\ v.type = "object" => /\ \A i \in DOMAIN v.members : v.members[i].value \in T
                          /\ DistinctNames(v.members)

Tidy == UNION {T \in SUBSET Value : \A v \in T : IsTidy(v, T)}

LEMMA TidyIs ==
  /\ Tidy \subseteq Value
  /\ \A v \in Tidy : IsTidy(v, Tidy)
  /\ \A v \in Value : IsTidy(v, Tidy) => v \in Tidy
<1>1. Tidy \subseteq Value
  BY DEF Tidy
<1>2. \A v : \A S, T : S \subseteq T /\ IsTidy(v, S) => IsTidy(v, T)
  BY DEF IsTidy
<1>3. ASSUME NEW v \in Tidy PROVE IsTidy(v, Tidy)
  <2>1. PICK T \in SUBSET Value : (\A w \in T : IsTidy(w, T)) /\ v \in T
    BY DEF Tidy
  <2>2. T \subseteq Tidy
    BY <2>1 DEF Tidy
  <2> QED
    BY <1>2, <2>1, <2>2
<1>4. ASSUME NEW v \in Value, IsTidy(v, Tidy) PROVE v \in Tidy
  <2> DEFINE T == Tidy \cup {v}
  <2>1. T \in SUBSET Value /\ Tidy \subseteq T /\ v \in T
    BY <1>1
  <2>2. \A w \in T : IsTidy(w, Tidy)
    BY <1>3, <1>4
  <2> HIDE DEF T
  <2>3. \A w \in T : IsTidy(w, T)
    BY <1>2, <2>1, <2>2
  <2> QED
    BY <2>1, <2>3 DEF Tidy
<1> QED
  BY <1>1, <1>3, <1>4

\* A member is found under its name.
LEMMA UnderIs ==
  ASSUME NEW members \in Seq([name : Bytes, value : Value]), DistinctNames(members),
         NEW k \in DOMAIN members
  PROVE  Under(members, members[k].name) = members[k].value
<1>1. PICK j \in DOMAIN members : /\ Under(members, members[k].name) = members[j].value
                                  /\ members[j].name = members[k].name
  BY UnderMember
<1>2. j = k
  BY <1>1 DEF DistinctNames
<1> QED
  BY <1>1, <1>2

\* The text of a member: its name, a colon and its value.
IsMemberText(text, s, w) ==
  s \in Bytes /\ w \in Bytes /\ text = WrittenString(s) \o <<COLON>> \o w

LEMMA MemberLies ==
  ASSUME NEW t \in Bytes, NEW x \in Index, NEW s, NEW w, NEW text, IsMemberText(text, s, w),
         Agrees(t, x, text), NEW c, c = x + Len(WrittenString(s))
  PROVE  /\ Agrees(t, x, WrittenString(s)) /\ Agrees(t, c + 1, w)
         /\ c \in Index /\ c + 1 \in Index /\ x + Len(text) = (c + 1) + Len(w)
         /\ c <= Len(t) => At(t, c) = COLON
         /\ c > Len(t) => At(t, c) = 0
<1> DEFINE a == WrittenString(s)
           h == <<COLON>>
           ab == a \o h
<1>1. /\ a \in Bytes /\ h \in Bytes /\ Len(h) = 1 /\ h[1] = COLON /\ c = x + Len(a)
      /\ text = ab \o w /\ w \in Bytes
  BY WrittenStringType, BytesOf, Marks DEF IsMemberText
<1> HIDE DEF a, h
<1>2. ab \in Bytes /\ Len(ab) = Len(a) + 1
  <2>1. ab \in Bytes
    BY <1>1, Joined
  <2>2. Len(ab) = Len(a) + Len(h)
    BY <1>1, JoinedLength
  <2> QED
    BY <1>1, <2>1, <2>2
<1>3. Len(text) = Len(ab) + Len(w)
  <2> HIDE DEF ab
  <2>1. Len(ab \o w) = Len(ab) + Len(w)
    BY <1>1, <1>2, JoinedLength
  <2> QED
    BY <1>1, <2>1
<1>4. Agrees(t, x, ab) /\ Agrees(t, x + Len(ab), w) /\ x + Len(ab) \in Index
  <2>1. Agrees(t, x, ab \o w)
    BY <1>1
  <2> HIDE DEF ab
  <2> QED
    BY <1>1, <1>2, <2>1, AgreesJoin
<1>5. Agrees(t, x, a) /\ Agrees(t, c, h) /\ c \in Index
  BY <1>1, <1>4, AgreesJoin
<1> HIDE DEF ab
<1>6. x + Len(ab) = c + 1 /\ x + Len(text) = (c + 1) + Len(w)
  <2>1. Len(a) \in Nat /\ Len(w) \in Nat /\ x \in Nat
    BY <1>1, Indexed DEF Index
  <2> DEFINE n == Len(a)
             m == Len(w)
  <2>2. n \in Nat /\ m \in Nat /\ x \in Nat /\ c = x + n /\ Len(ab) = n + 1 /\ Len(text) = (n + 1) + m
    BY <1>1, <1>2, <1>3, <2>1
  <2> HIDE DEF n, m
  <2>3. x + (n + 1) = c + 1 /\ x + ((n + 1) + m) = (c + 1) + m
    BY <2>2
  <2> QED
    BY <2>2, <2>3 DEF m
<1>7. (c <= Len(t) => At(t, c) = COLON) /\ (c > Len(t) => At(t, c) = 0)
  <2>1. 1 \in 1 .. Len(h) /\ (c + 1) - 1 = c
    BY <1>1, <1>5 DEF Index
  <2>2. /\ (c + 1) - 1 <= Len(t) => At(t, (c + 1) - 1) = h[1]
        /\ (c + 1) - 1 > Len(t) => At(t, (c + 1) - 1) = 0
    <3>1. (c + 1) - 1 <= Len(t) => At(t, (c + 1) - 1) = h[1]
      BY <1>1, <1>5, <2>1, AgreesAt
    <3>2. (c + 1) - 1 > Len(t) => At(t, (c + 1) - 1) = 0
      BY <1>1, <1>5, <2>1, AtType
    <3> QED
      BY <3>1, <3>2
  <2> QED
    BY <1>1, <2>1, <2>2
<1> QED
  BY <1>4, <1>5, <1>6, <1>7 DEF a

LEMMA MemberReads ==
  ASSUME NEW t \in Bytes, NEW x \in Index, NEW s \in Bytes, Agrees(t, x, WrittenString(s)),
         NEW c, c = x + Len(WrittenString(s)), c \in Index, At(t, c) \in {0, COLON},
         NEW members, NEW inside
  PROVE  /\ At(t, c) = 0 => MemberAt(t, x, members, inside) = {}
         /\ \A p \in MemberAt(t, x, members, inside) : \E r \in inside[c + 1] : p.next = r.next
         /\ At(t, c) = COLON /\ s \notin Names(members) /\ Len(members) < OBJECT_MAX_CAPACITY =>
              MemberAt(t, x, members, inside) =
                IF s \in Printable THEN {Parsed(Pair(s, r.value), r.next) : r \in inside[c + 1]}
                ELSE {}
<1> DEFINE Of(q) == {Parsed(Pair(q.text, r.value), r.next) : r \in inside[Blank(t, q.next) + 1]}
           Fits(q) == At(t, Blank(t, q.next)) = COLON /\ Addable(q, members)
           quoted == Quoted(t, x)
           one == [text |-> s, next |-> c]
           M == MemberAt(t, x, members, inside)
<1>1. M = UNION {Of(q) : q \in {q \in quoted : Fits(q)}}
  BY DEF MemberAt
<1>2. /\ At(t, c) # 0 => quoted = IF s \in Printable THEN {one} ELSE {}
      /\ At(t, c) = 0 => quoted = {}
  BY QuotedReads
<1>3. At(t, c) # 0 => Blank(t, c) = c /\ At(t, c) = COLON
  <2>1. COLON \notin White /\ COLON # 0
    BY DEF COLON, White
  <2> QED
    BY <2>1, BlankStays
<1>4. At(t, c) # 0 => Of(one) = {Parsed(Pair(s, r.value), r.next) : r \in inside[c + 1]}
  BY <1>3
<1>5. At(t, c) # 0 => (Fits(one) <=> s \notin Names(members) /\ Len(members) < OBJECT_MAX_CAPACITY)
  BY <1>3 DEF Addable
<1> HIDE DEF Of, Fits, one, quoted, M
<1>6. At(t, c) = 0 => M = {}
  BY <1>1, <1>2
<1>7. ASSUME At(t, c) # 0, s \notin Printable PROVE M = {}
  BY <1>1, <1>2, <1>7
<1>8. ASSUME At(t, c) # 0, s \in Printable, Fits(one) PROVE M = Of(one)
  <2>1. quoted = {one}
    BY <1>2, <1>8
  <2>2. {q \in quoted : Fits(q)} = {one}
    BY <1>8, <2>1
  <2> QED
    BY <1>1, <2>2
<1>9. ASSUME At(t, c) # 0, s \in Printable, ~Fits(one) PROVE M = {}
  <2>1. quoted = {one}
    BY <1>2, <1>9
  <2>2. {q \in quoted : Fits(q)} = {}
    BY <1>9, <2>1
  <2> QED
    BY <1>1, <2>2
<1>10. ASSUME NEW p \in M PROVE \E r \in inside[c + 1] : p.next = r.next
  <2>1. p \in Of(one) /\ At(t, c) # 0
    BY <1>6, <1>7, <1>8, <1>9, <1>10
  <2>2. PICK r \in inside[c + 1] : p = Parsed(Pair(s, r.value), r.next)
    BY <1>4, <2>1
  <2> QED
    BY <2>2 DEF Parsed
<1>11. At(t, c) = COLON => At(t, c) # 0
  BY DEF COLON
<1> QED
  BY <1>4, <1>5, <1>6, <1>7, <1>8, <1>10, <1>11 DEF M

\* What parsing reads, at each position, of the values that are written there.
Reads(t, row, V) ==
  \A v \in Tidy, i \in Index :
    Agrees(t, i, Written[v]) => ReadTo(t, row[i], V, v, i + Len(Written[v]))

\* The part that is written from x up to y, in a loop that has `before`.
PartTo(t, x, y, inside, kind, before, part, W) ==
  /\ At(t, y) \in Follow =>
       PartAt(t, x, before, inside, kind) = IF part \in W THEN {Parsed(part, y)} ELSE {}
  /\ At(t, y) \in Follow => \A parts : \A p \in PartAt(t, x, parts, inside, kind) : p.next = y
  /\ y > Len(t) => \A parts : \A p \in PartAt(t, x, parts, inside, kind) : At(t, p.next) = 0
  /\ At(t, x) \notin White \cup {COMMA} \cup {Closing[j] : j \in Kinds}
  /\ y \in Index /\ y > x

LEMMA FollowWithin ==
  ASSUME NEW t \in Bytes, NEW y \in Index
  PROVE  /\ At(t, y) \in Follow => y <= Len(t)
         /\ y > Len(t) => At(t, y) = 0
<1>1. ASSUME At(t, y) \in Follow PROVE y <= Len(t)
  <2>1. At(t, y) # 0
    BY <1>1, FollowIs
  <2>2. y \in 1 .. Len(t) /\ Len(t) \in Nat
    BY <2>1, AtWithin, Indexed
  <2> QED
    BY <2>2
<1> QED
  BY <1>1, AtType

LEMMA ItemReads ==
  ASSUME NEW t \in Bytes, NEW inside, NEW n \in Nat, Reads(t, inside, Kept(n)),
         NEW item \in Tidy, NEW x \in Index, Agrees(t, x, Written[item]),
         NEW y, y = x + Len(Written[item]), NEW before
  PROVE  PartTo(t, x, y, inside, "array", before, item, KeptParts("array", n))
<1> DEFINE m == Len(Written[item])
           z == Len(t)
           results == inside[x]
           V == Kept(n)
<1>1. item \in Value /\ m \in Nat /\ m >= 1 /\ z \in Nat /\ x \in Nat /\ x >= 1 /\ y = x + m
  BY TidyIs, WrittenBegins, Indexed DEF Index
<1>2. ReadTo(t, results, V, item, y)
  BY DEF Reads
<1>3. /\ At(t, x) \notin White \cup {COMMA} \cup {Closing[k] : k \in Kinds}
      /\ x <= z => At(t, x) # 0
  BY <1>1, ValueStarts
<1> HIDE DEF m, z, V
<1>4. y \in Index /\ y > x /\ (y <= z => x <= z)
  <2>1. y \in Nat /\ y >= 1 /\ y > x /\ (y <= z => x <= z)
    BY <1>1
  <2> QED
    BY <2>1 DEF Index
<1>5. (At(t, y) \in Follow => y <= z) /\ (y > z => At(t, y) = 0)
  BY <1>4, FollowWithin DEF z
<1>6. \A parts : PartAt(t, x, parts, inside, "array") = IF At(t, x) = 0 THEN {} ELSE results
  BY DEF PartAt
<1> HIDE DEF results
<1>7. /\ At(t, y) \in Follow => results = IF item \in V THEN {Parsed(item, y)} ELSE {}
      /\ y > z => \A p \in results : At(t, p.next) = 0
  BY <1>2 DEF ReadTo, z
<1>8. KeptParts("array", n) = V
  BY DEF KeptParts, V
<1>9. ASSUME At(t, y) \in Follow
      PROVE  \A parts : PartAt(t, x, parts, inside, "array") = IF item \in V THEN {Parsed(item, y)} ELSE {}
  <2>1. At(t, x) # 0
    BY <1>3, <1>4, <1>5, <1>9
  <2> QED
    BY <1>6, <1>7, <1>9, <2>1
<1>10. ASSUME At(t, y) \in Follow, NEW parts, NEW p \in PartAt(t, x, parts, inside, "array")
       PROVE  p.next = y
  <2>1. p = Parsed(item, y)
    BY <1>9, <1>10
  <2> QED
    BY <2>1 DEF Parsed
<1>11. ASSUME y > z, NEW parts, NEW p \in PartAt(t, x, parts, inside, "array")
       PROVE  At(t, p.next) = 0
  <2>1. p \in results
    BY <1>6, <1>11
  <2> QED
    BY <1>7, <1>11, <2>1
<1> QED
  BY <1>3, <1>4, <1>8, <1>9, <1>10, <1>11 DEF PartTo, z

LEMMA StringIsValue ==
  ASSUME NEW s \in Bytes
  PROVE  String(s) \in Value /\ Written[String(s)] = WrittenString(s)
<1>1. String(s) \in [type : {"string"}, text : Bytes]
  BY DEF String
<1>2. String(s) \in Value
  BY <1>1, ValueOver DEF Over
<1>3. String(s).type = "string" /\ String(s).text = s
  BY DEF String
<1> QED
  BY <1>2, <1>3, WrittenCases

LEMMA MemberPartReads ==
  ASSUME NEW t \in Bytes, NEW inside, NEW n \in Nat, Reads(t, inside, Kept(n)),
         NEW part \in [name : Bytes, value : Tidy], NEW x \in Index,
         NEW text, IsMemberText(text, part.name, Written[part.value]),
         Agrees(t, x, text), NEW y, y = x + Len(text),
         NEW before, part.name \notin Names(before), Len(before) < OBJECT_MAX_CAPACITY
  PROVE  PartTo(t, x, y, inside, "object", before, part, KeptParts("object", n))
<1> DEFINE s == part.name
           u == part.value
           c == x + Len(WrittenString(s))
           w == Written[u]
           m == Len(w)
           z == Len(t)
           d == c + 1
           results == inside[d]
           V == Kept(n)
           W == KeptParts("object", n)
<1>0. s \in Bytes /\ u \in Tidy /\ u \in Value /\ part = Pair(s, u)
  <2>1. s \in Bytes /\ u \in Tidy
    OBVIOUS
  <2> QED
    BY <2>1, TidyIs DEF Pair
<1>1. part \in W <=> s \in Printable /\ u \in V
  BY DEF KeptParts
<1>2. w \in Bytes /\ m \in Nat /\ m >= 1 /\ z \in Nat /\ x \in Nat /\ x >= 1
  BY <1>0, WrittenBegins, Indexed DEF Index
<1> HIDE DEF s, u, w, V, W
<1>3. IsMemberText(text, s, w)
  BY DEF s, u, w
<1> HIDE DEF m
<1>4. /\ Agrees(t, x, WrittenString(s)) /\ Agrees(t, d, w)
      /\ c \in Index /\ d \in Index /\ y = d + m
      /\ c <= z => At(t, c) = COLON
      /\ c > z => At(t, c) = 0
  <2> DEFINE a == Len(WrittenString(s))
  <2>1. c = x + a
    OBVIOUS
  <2> HIDE DEF c, a
  <2>2. /\ Agrees(t, x, WrittenString(s)) /\ Agrees(t, c + 1, w)
        /\ c \in Index /\ c + 1 \in Index /\ x + Len(text) = (c + 1) + Len(w)
    BY <1>0, <1>2, <1>3, <2>1, MemberLies DEF a
  <2>3. c <= z => At(t, c) = COLON
    BY <1>0, <1>2, <1>3, <2>1, MemberLies DEF a
  <2>4. c > z => At(t, c) = 0
    BY <2>2, AtType
  <2> QED
    BY <2>2, <2>3, <2>4 DEF m
<1>5. Blank(t, x) = x /\ At(t, x) \notin White \cup {COMMA} \cup {Closing[k] : k \in Kinds}
      /\ (x <= z => At(t, x) # 0) /\ Len(WrittenString(s)) >= 1 /\ Len(WrittenString(s)) \in Nat
  <2> DEFINE v == String(s)
  <2>1. v \in Value /\ Written[v] = WrittenString(s) /\ Agrees(t, x, Written[v])
    BY <1>0, <1>4, StringIsValue
  <2> HIDE DEF v
  <2> QED
    BY <2>1, ValueStarts, WrittenBegins, Indexed
<1>6. /\ c \in Nat /\ d \in Nat /\ d = c + 1 /\ c > x /\ y \in Index /\ y > x
      /\ (y <= z => c <= z /\ x <= z)
  <2> DEFINE a == Len(WrittenString(s))
  <2>1. c = x + a /\ d = c + 1 /\ a \in Nat /\ a >= 1 /\ y = d + m
    BY <1>4, <1>5
  <2> HIDE DEF a, c, d, z
  <2>2. c \in Nat /\ d \in Nat /\ c > x /\ d > x
    BY <1>2, <2>1
  <2>3. y \in Nat /\ y >= 1 /\ y > x /\ y > c
    BY <1>2, <2>1, <2>2
  <2>4. y <= z => c <= z /\ x <= z
    BY <1>2, <2>2, <2>3
  <2>5. y \in Index
    BY <2>3 DEF Index
  <2> QED
    BY <2>1, <2>2, <2>3, <2>4, <2>5
<1> HIDE DEF c, d
<1>7. c <= z \/ c > z
  BY <1>2, <1>6
<1>8. At(t, c) \in {0, COLON} /\ (c <= z <=> At(t, c) = COLON)
  BY <1>2, <1>4, <1>6, <1>7 DEF COLON
<1> HIDE DEF z, results
<1>9. /\ At(t, c) = 0 => \A parts : MemberAt(t, x, parts, inside) = {}
      /\ \A parts : \A p \in MemberAt(t, x, parts, inside) : \E r \in results : p.next = r.next
      /\ At(t, c) = COLON =>
           MemberAt(t, x, before, inside) =
             IF s \in Printable THEN {Parsed(Pair(s, r.value), r.next) : r \in results} ELSE {}
  <2>1. /\ s \notin Names(before) /\ Len(before) < OBJECT_MAX_CAPACITY
        /\ c = x + Len(WrittenString(s)) /\ d = c + 1
    BY DEF s, c, d
  <2>2. \A parts : /\ At(t, c) = 0 => MemberAt(t, x, parts, inside) = {}
                   /\ \A p \in MemberAt(t, x, parts, inside) : \E r \in inside[c + 1] : p.next = r.next
    BY <1>0, <1>4, <1>8, <2>1, MemberReads
  <2>3. At(t, c) = COLON =>
           MemberAt(t, x, before, inside) =
             IF s \in Printable THEN {Parsed(Pair(s, r.value), r.next) : r \in inside[c + 1]} ELSE {}
    BY <1>0, <1>4, <1>8, <2>1, MemberReads
  <2> QED
    BY <2>1, <2>2, <2>3 DEF results
<1>10. /\ At(t, y) \in Follow => results = IF u \in V THEN {Parsed(u, y)} ELSE {}
       /\ y > z => \A p \in results : At(t, p.next) = 0
  <2>1. ReadTo(t, results, V, u, y)
    BY <1>0, <1>4 DEF Reads, results, V, w, m
  <2> QED
    BY <2>1 DEF ReadTo, z
<1>11. \A parts : PartAt(t, x, parts, inside, "object") =
                    IF At(t, x) = 0 THEN {} ELSE MemberAt(t, x, parts, inside)
  BY DEF PartAt
<1>12. (At(t, y) \in Follow => y <= z) /\ (y > z => At(t, y) = 0)
  BY <1>6, FollowWithin DEF z
<1>13. ASSUME At(t, y) \in Follow
       PROVE  PartAt(t, x, before, inside, "object") = IF part \in W THEN {Parsed(part, y)} ELSE {}
  <2>1. At(t, x) # 0 /\ At(t, c) = COLON
    BY <1>5, <1>6, <1>8, <1>12, <1>13
  <2>2. PartAt(t, x, before, inside, "object") =
          IF s \in Printable THEN {Parsed(Pair(s, r.value), r.next) : r \in results} ELSE {}
    BY <1>9, <1>11, <2>1
  <2>3. CASE u \in V
    <3>1. results = {Parsed(u, y)}
      BY <1>10, <1>13, <2>3
    <3>2. {Parsed(Pair(s, r.value), r.next) : r \in results} = {Parsed(Pair(s, u), y)}
      <4> DEFINE F(r) == Parsed(Pair(s, r.value), r.next)
                 r1 == Parsed(u, y)
      <4>1. {F(r) : r \in results} = {F(r1)}
        <5> HIDE DEF F, r1
        <5>1. results = {r1}
          BY <3>1 DEF r1
        <5> QED
          BY <5>1
      <4>2. F(r1) = Parsed(Pair(s, u), y)
        BY DEF Parsed
      <4> QED
        BY <4>1, <4>2
    <3> QED
      BY <1>0, <1>1, <2>2, <2>3, <3>2
  <2>4. CASE u \notin V
    <3>1. results = {}
      BY <1>10, <1>13, <2>4
    <3>2. {Parsed(Pair(s, r.value), r.next) : r \in results} = {}
      BY <3>1
    <3> QED
      BY <1>1, <2>2, <2>4, <3>2
  <2> QED
    BY <2>3, <2>4
<1>14. ASSUME At(t, y) \in Follow, NEW parts, NEW p \in PartAt(t, x, parts, inside, "object")
       PROVE  p.next = y
  <2>1. p \in MemberAt(t, x, parts, inside)
    BY <1>11, <1>14
  <2>2. PICK r \in results : p.next = r.next
    BY <1>9, <2>1
  <2>3. r = Parsed(u, y)
    BY <1>10, <1>14, <2>2
  <2> QED
    BY <2>2, <2>3 DEF Parsed
<1>15. ASSUME y > z, NEW parts, NEW p \in PartAt(t, x, parts, inside, "object")
       PROVE  At(t, p.next) = 0
  <2>1. p \in MemberAt(t, x, parts, inside)
    BY <1>11, <1>15
  <2>2. PICK r \in results : p.next = r.next
    BY <1>9, <2>1
  <2> QED
    BY <1>10, <1>15, <2>2
<1> QED
  BY <1>5, <1>6, <1>13, <1>14, <1>15 DEF PartTo, W, z

-----------------------------------------------------------------------------
(* The loops of parse_array_value and parse_object_value over the parts     *)
(* that are written.                                                        *)

LEMMA AfterPartCases ==
  ASSUME NEW t, NEW i, NEW parts, NEW kind \in Kinds
  PROVE  /\ At(t, i) = COMMA => AfterPart(t, i, parts, kind) = {Loop(Blank(t, i + 1), parts, FALSE)}
         /\ At(t, i) = Closing[kind] => AfterPart(t, i, parts, kind) = {Loop(i + 1, parts, TRUE)}
         /\ At(t, i) \notin {COMMA, Closing[kind]} => AfterPart(t, i, parts, kind) = {}
<1> DEFINE a == Loop(Blank(t, i + 1), parts, FALSE)
           b == Loop(i + 1, parts, TRUE)
<1>1. AfterPart(t, i, parts, kind) =
        {l \in {a} : At(t, i) = COMMA} \cup {l \in {b} : At(t, i) = Closing[kind]}
  BY DEF AfterPart
<1> HIDE DEF a, b
<1>2. COMMA # Closing[kind]
  BY FollowIs
<1>3. At(t, i) = COMMA => AfterPart(t, i, parts, kind) = {a}
  BY <1>1, <1>2
<1>4. At(t, i) = Closing[kind] => AfterPart(t, i, parts, kind) = {b}
  BY <1>1, <1>2
<1>5. At(t, i) \notin {COMMA, Closing[kind]} => AfterPart(t, i, parts, kind) = {}
  BY <1>1
<1> QED
  BY <1>3, <1>4, <1>5 DEF a, b

\* Parts between which there is a comma, and behind which a bracket closes; each
\* is read at its place, W being those that are read back.
Spread(t, inside, kind, parts, pos, W) ==
  /\ Len(parts) \in Nat /\ Len(parts) >= 1 /\ pos \in [1 .. Len(parts) + 1 -> Index]
  /\ \A k \in 1 .. Len(parts) :
       PartTo(t, pos[k], pos[k + 1] - 1, inside, kind, SubSeq(parts, 1, k - 1), parts[k], W)
  /\ \A k \in 1 .. Len(parts) - 1 : pos[k + 1] - 1 <= Len(t) => At(t, pos[k + 1] - 1) = COMMA
  /\ pos[Len(parts) + 1] - 1 <= Len(t) => At(t, pos[Len(parts) + 1] - 1) = Closing[kind]

\* The end of the text ends no loop.
LEMMA LoopBreaks ==
  ASSUME NEW t \in Bytes, NEW V, NEW inside \in Rows(V), NEW kind \in Kinds,
         NEW parts, NEW pos, NEW W, Spread(t, inside, kind, parts, pos, W),
         pos[Len(parts) + 1] - 1 > Len(t)
  PROVE  \A k \in Nat : \A l \in Turns(t, pos[1], inside, kind)[k] : ~l.closed
<1> DEFINE m == Len(parts)
           z == Len(t)
           turns == Turns(t, pos[1], inside, kind)
           Open(l) == ~l.closed /\ (At(t, l.next) = 0 \/ \E j \in 1 .. m : l.next = pos[j])
           S == {k \in Nat : \A l \in turns[k] : Open(l)}
<1>1. /\ m \in Nat /\ m >= 1 /\ z \in Nat
      /\ \A k \in 1 .. m + 1 : pos[k] \in Index
      /\ \A k \in 1 .. m : PartTo(t, pos[k], pos[k + 1] - 1, inside, kind,
                                  SubSeq(parts, 1, k - 1), parts[k], W)
      /\ \A k \in 1 .. m - 1 : pos[k + 1] - 1 <= z => At(t, pos[k + 1] - 1) = COMMA
      /\ pos[m + 1] - 1 > z
  BY Indexed DEF Spread
<1>2. 1 \in 1 .. m /\ pos[1] \in Index
  <2>1. 1 \in 1 .. m /\ 1 \in 1 .. m + 1
    <3> HIDE DEF m
    <3> QED
      BY <1>1
  <2> QED
    BY <1>1, <2>1
<1>3. /\ turns \in [Nat -> SUBSET Loops(PartsOf(kind, V))]
      /\ turns[0] = {Loop(pos[1], <<>>, FALSE)}
      /\ \A k \in Nat : turns[k + 1] = UNION {Turn(t, l, inside, kind) : l \in turns[k]}
  <2> DEFINE start == pos[1]
             T == Turns(t, start, inside, kind)
  <2>1. start \in Index
    BY <1>2
  <2> HIDE DEF start
  <2>2. T \in [Nat -> SUBSET Loops(PartsOf(kind, V))]
    BY <2>1, TurnsType
  <2>3. TurnsFrom(t, start, inside, kind, T)
    BY <2>1, TurnsType
  <2>4. T = turns
    BY DEF start
  <2> HIDE DEF turns, T
  <2>5. /\ T[0] = {Loop(start, <<>>, FALSE)}
        /\ \A k \in Nat : T[k + 1] = UNION {Turn(t, l, inside, kind) : l \in T[k]}
    BY <2>3 DEF TurnsFrom
  <2> QED
    BY <2>2, <2>4, <2>5 DEF start
<1> HIDE DEF turns, m, z, Open
<1>4. 0 \in S
  <2>1. Open(Loop(pos[1], <<>>, FALSE))
    BY <1>2 DEF Open, Loop
  <2> QED
    BY <1>3, <2>1
<1>5. ASSUME NEW l \in Loops(PartsOf(kind, V)), Open(l), NEW l1 \in Turn(t, l, inside, kind) PROVE Open(l1)
  <2>1. ~l.closed /\ l.next \in Index
    BY <1>5 DEF Open, Loops
  <2>2. \E p \in PartAt(t, l.next, l.parts, inside, kind) :
          l1 \in AfterPart(t, Blank(t, p.next), Append(l.parts, p.value), kind)
    BY <1>5, <2>1, Zenon DEF Turn
  <2>3. PICK p \in PartAt(t, l.next, l.parts, inside, kind) :
          l1 \in AfterPart(t, Blank(t, p.next), Append(l.parts, p.value), kind)
    BY <2>2
  <2>4. At(t, l.next) # 0
    BY <2>3 DEF PartAt
  <2>5. PICK j \in 1 .. m : l.next = pos[j]
    BY <1>5, <2>4 DEF Open
  <2>6. p.next \in Index
    BY <2>1, <2>3, PartAtType DEF Results
  <2> DEFINE x == pos[j]
             y == pos[j + 1] - 1
  <2>7. PartTo(t, x, y, inside, kind, SubSeq(parts, 1, j - 1), parts[j], W)
    BY <1>1
  <2>8. y \in Index /\ p \in PartAt(t, x, l.parts, inside, kind)
    BY <2>3, <2>5, <2>7 DEF PartTo
  <2>9. (y <= z => j \in 1 .. m - 1) /\ (j \in 1 .. m - 1 => j + 1 \in 1 .. m /\ j + 1 \in 1 .. m + 1)
    <3>1. j = m => y > z
      BY <1>1
    <3>2. j \in 1 .. m - 1 => j + 1 \in 1 .. m /\ j + 1 \in 1 .. m + 1
      BY <1>1
    <3>3. j # m => j \in 1 .. m - 1
      BY <1>1
    <3>4. y > z => ~(y <= z)
      BY <1>1, <2>8 DEF Index
    <3> QED
      BY <3>1, <3>2, <3>3, <3>4
  <2>10. y <= z => At(t, y) = COMMA
    BY <1>1, <2>9
  <2> DEFINE before == SubSeq(parts, 1, j - 1)
             part == parts[j]
             after == Append(l.parts, p.value)
  <2> HIDE DEF x, y, before, part
  <2>11. CASE y > z
    <3>1. At(t, p.next) = 0
      BY <2>7, <2>8, <2>11 DEF PartTo, z, before, part
    <3>2. 0 \notin White /\ 0 # COMMA /\ 0 # Closing[kind]
      BY FollowIs DEF White, Follow
    <3>3. Blank(t, p.next) = p.next
      BY <2>6, <3>1, <3>2, BlankStays
    <3>4. AfterPart(t, p.next, after, kind) = {}
      BY <3>1, <3>2, AfterPartCases
    <3> QED
      BY <2>3, <3>3, <3>4
  <2>12. CASE y <= z
    <3>1. At(t, y) = COMMA /\ COMMA \in Follow /\ COMMA \notin White
      BY <2>10, <2>12, FollowIs DEF Follow
    <3>2. p.next = y
      BY <2>7, <2>8, <3>1 DEF PartTo, before, part
    <3>3. Blank(t, p.next) = y
      BY <2>6, <3>1, <3>2, BlankStays
    <3>4. l1 = Loop(Blank(t, y + 1), after, FALSE)
      <4>1. l1 \in AfterPart(t, y, after, kind)
        BY <2>3, <3>3
      <4>2. AfterPart(t, y, after, kind) = {Loop(Blank(t, y + 1), after, FALSE)}
        BY <3>1, AfterPartCases
      <4> QED
        BY <4>1, <4>2
    <3>5. j + 1 \in 1 .. m /\ pos[j + 1] \in Index
      BY <1>1, <2>9, <2>12
    <3>6. y + 1 = pos[j + 1]
      BY <3>5 DEF y, Index
    <3>7. At(t, pos[j + 1]) \notin White
      BY <1>1, <3>5 DEF PartTo
    <3>8. Blank(t, y + 1) = pos[j + 1]
      BY <3>5, <3>6, <3>7, BlankStays
    <3>9. l1.closed = FALSE /\ l1.next = pos[j + 1]
      BY <3>4, <3>8 DEF Loop
    <3> QED
      BY <3>5, <3>9 DEF Open
  <2> QED
    BY <1>1, <2>8, <2>11, <2>12 DEF Index
<1>6. ASSUME NEW k \in Nat, k \in S PROVE k + 1 \in S
  <2>1. \A l \in turns[k] : l \in Loops(PartsOf(kind, V)) /\ Open(l)
    BY <1>3, <1>6
  <2>2. turns[k + 1] = UNION {Turn(t, l, inside, kind) : l \in turns[k]}
    BY <1>3
  <2>3. \A l1 \in turns[k + 1] : Open(l1)
    BY <1>5, <2>1, <2>2
  <2> QED
    BY <2>3
<1> HIDE DEF S
<1>7. \A k \in Nat : k \in S
  BY <1>4, <1>6, Induction
<1>8. \A k \in Nat : \A l \in turns[k] : ~l.closed
  BY <1>7 DEF S, Open
<1> QED
  BY <1>8 DEF turns

LEMMA AppendNext ==
  ASSUME NEW S, NEW parts \in Seq(S)
  PROVE  /\ SubSeq(parts, 1, 0) = <<>> /\ SubSeq(parts, 1, Len(parts)) = parts
         /\ \A k \in Nat : k < Len(parts) =>
              Append(SubSeq(parts, 1, k), parts[k + 1]) = SubSeq(parts, 1, k + 1)
<1>1. SubSeq(parts, 1, 0) = <<>> /\ SubSeq(parts, 1, Len(parts)) = parts
  OBVIOUS
<1>2. ASSUME NEW k \in Nat, k < Len(parts)
      PROVE  Append(SubSeq(parts, 1, k), parts[k + 1]) = SubSeq(parts, 1, k + 1)
  BY <1>2
<1> QED
  BY <1>1, <1>2

\* The places grow, by one at least.
LEMMA PlacesGrow ==
  ASSUME NEW t, NEW inside, NEW kind, NEW parts, NEW pos, NEW W,
         Spread(t, inside, kind, parts, pos, W)
  PROVE  \A k \in 1 .. Len(parts) + 1 : k <= pos[k] /\ pos[k] <= pos[Len(parts) + 1]
<1> DEFINE m == Len(parts)
           S == {k \in Nat : k \in 1 .. m + 1 => k <= pos[k] /\ \A j \in 1 .. k : pos[j] <= pos[k]}
<1>1. /\ m \in Nat /\ m >= 1
      /\ \A k \in 1 .. m + 1 : pos[k] \in Index
      /\ \A k \in 1 .. m : PartTo(t, pos[k], pos[k + 1] - 1, inside, kind,
                                  SubSeq(parts, 1, k - 1), parts[k], W)
  BY DEF Spread
<1> HIDE DEF m
<1>2. \A k \in 1 .. m + 1 : pos[k] \in Nat /\ pos[k] >= 1
  BY <1>1 DEF Index
<1>3. \A k \in 1 .. m : pos[k + 1] - 1 > pos[k]
  BY <1>1 DEF PartTo
<1>4. 0 \in S
  OBVIOUS
<1>5. ASSUME NEW k \in Nat, k \in S PROVE k + 1 \in S
  <2>1. CASE k = 0
    BY <1>1, <1>2, <2>1
  <2>2. CASE k # 0 /\ k + 1 \in 1 .. m + 1
    <3>1. k \in 1 .. m /\ k \in 1 .. m + 1
      BY <1>1, <2>2
    <3>2. pos[k + 1] > pos[k] /\ pos[k + 1] \in Nat /\ pos[k] \in Nat
      BY <1>2, <1>3, <2>2, <3>1
    <3>3. k <= pos[k] /\ \A j \in 1 .. k : pos[j] <= pos[k]
      BY <1>5, <3>1
    <3>4. k + 1 <= pos[k + 1]
      BY <3>2, <3>3
    <3>5. ASSUME NEW j \in 1 .. k + 1 PROVE pos[j] <= pos[k + 1]
      <4>1. CASE j = k + 1
        BY <3>2, <4>1
      <4>2. CASE j # k + 1
        <5>1. j \in 1 .. k /\ j \in 1 .. m + 1
          BY <1>1, <2>2, <4>2
        <5> QED
          BY <1>2, <3>2, <3>3, <5>1
      <4> QED
        BY <4>1, <4>2
    <3> QED
      BY <3>4, <3>5
  <2>3. CASE k + 1 \notin 1 .. m + 1
    BY <2>3
  <2> QED
    BY <2>1, <2>2, <2>3
<1> HIDE DEF S
<1>6. \A k \in Nat : k \in S
  BY <1>4, <1>5, Induction
<1>7. ASSUME NEW k \in 1 .. m + 1 PROVE k <= pos[k] /\ pos[k] <= pos[m + 1]
  <2>1. k \in Nat /\ m + 1 \in Nat /\ m + 1 \in 1 .. m + 1
    BY <1>1
  <2>2. k \in S /\ m + 1 \in S
    BY <1>6, <2>1
  <2> QED
    BY <2>1, <2>2 DEF S
<1> QED
  BY <1>7 DEF m

\* Every part is read, one a turn, until one is met that is not read back.
LEMMA LoopWhole ==
  ASSUME NEW t \in Bytes, NEW V, NEW inside \in Rows(V), NEW kind \in Kinds,
         NEW R, NEW parts \in Seq(R), NEW pos, NEW W, Spread(t, inside, kind, parts, pos, W),
         pos[Len(parts) + 1] - 1 <= Len(t)
  PROVE  Turns(t, pos[1], inside, kind)[Len(t)] =
           IF \A j \in 1 .. Len(parts) : parts[j] \in W
           THEN {Loop(pos[Len(parts) + 1], parts, TRUE)} ELSE {}
<1> DEFINE m == Len(parts)
           z == Len(t)
           start == pos[1]
           turns == Turns(t, start, inside, kind)
           Stage(k) == IF k < m THEN Loop(pos[k + 1], SubSeq(parts, 1, k), FALSE)
                       ELSE Loop(pos[m + 1], parts, TRUE)
           Good(k) == \A j \in 1 .. m : j <= k => parts[j] \in W
           S == {k \in Nat : turns[k] = IF Good(k) THEN {Stage(k)} ELSE {}}
<1>1. /\ m \in Nat /\ m >= 1 /\ z \in Nat
      /\ \A k \in 1 .. m + 1 : pos[k] \in Index
      /\ \A k \in 1 .. m : PartTo(t, pos[k], pos[k + 1] - 1, inside, kind,
                                  SubSeq(parts, 1, k - 1), parts[k], W)
      /\ \A k \in 1 .. m - 1 : pos[k + 1] - 1 <= z => At(t, pos[k + 1] - 1) = COMMA
      /\ pos[m + 1] - 1 <= z /\ At(t, pos[m + 1] - 1) = Closing[kind]
  BY Indexed DEF Spread
<1>2. \A k \in 1 .. m + 1 : k <= pos[k] /\ pos[k] <= pos[m + 1]
  BY PlacesGrow
<1>3. /\ \A k \in Nat : k < m => Append(SubSeq(parts, 1, k), parts[k + 1]) = SubSeq(parts, 1, k + 1)
      /\ SubSeq(parts, 1, 0) = <<>> /\ SubSeq(parts, 1, m) = parts
  BY AppendNext
<1> HIDE DEF m, z
<1>4. \A k \in 1 .. m + 1 : pos[k] \in Nat /\ pos[k] >= 1
  BY <1>1 DEF Index
<1>5. /\ \A k \in 1 .. m : pos[k + 1] - 1 <= z
      /\ \A k \in 1 .. m - 1 : At(t, pos[k + 1] - 1) = COMMA
      /\ m <= z
  <2>1. m + 1 \in 1 .. m + 1 /\ \A k \in 1 .. m : k + 1 \in 1 .. m + 1
    BY <1>1
  <2>2. \A k \in 1 .. m : pos[k + 1] - 1 <= z
    <3> TAKE k \in 1 .. m
    <3>1. pos[k + 1] \in Nat /\ pos[m + 1] \in Nat /\ pos[k + 1] <= pos[m + 1] /\ pos[m + 1] - 1 <= z
      BY <1>1, <1>2, <1>4, <2>1
    <3> QED
      BY <1>1, <3>1
  <2>3. m <= z
    <3>1. m + 1 <= pos[m + 1] /\ pos[m + 1] - 1 <= z /\ pos[m + 1] \in Nat
      BY <1>1, <1>2, <1>4, <2>1
    <3> QED
      BY <1>1, <3>1
  <2>4. \A k \in 1 .. m - 1 : k \in 1 .. m
    BY <1>1
  <2> QED
    BY <1>1, <2>2, <2>3, <2>4
<1>6. start \in Index
  <2>1. 1 \in 1 .. m + 1
    BY <1>1
  <2> QED
    BY <1>1, <2>1
<1> HIDE DEF start
<1>7. /\ turns[0] = {Loop(start, <<>>, FALSE)}
      /\ \A k \in Nat : turns[k + 1] = UNION {Turn(t, l, inside, kind) : l \in turns[k]}
  <2>1. TurnsFrom(t, start, inside, kind, turns)
    BY <1>6, TurnsType
  <2> HIDE DEF turns
  <2> QED
    BY <2>1 DEF TurnsFrom
<1> HIDE DEF turns
<1>8. 0 \in S
  <2>1. Good(0) /\ Stage(0) = Loop(start, <<>>, FALSE)
    <3>1. 0 < m /\ ~(\E j \in 1 .. m : j <= 0)
      BY <1>1
    <3>2. pos[0 + 1] = pos[1]
      OBVIOUS
    <3> QED
      BY <1>3, <3>1, <3>2 DEF start
  <2> HIDE DEF Good, Stage
  <2> QED
    BY <1>7, <2>1
<1>9. ASSUME NEW k \in Nat, k < m
      PROVE  Turn(t, Stage(k), inside, kind) = IF parts[k + 1] \in W THEN {Stage(k + 1)} ELSE {}
  <2> DEFINE x == pos[k + 1]
             y == pos[(k + 1) + 1] - 1
             before == SubSeq(parts, 1, k)
             part == parts[k + 1]
             after == Append(before, part)
             A == PartAt(t, x, before, inside, kind)
             p == Parsed(part, y)
  <2>1. k + 1 \in 1 .. m /\ (k + 1) - 1 = k /\ (k + 1) + 1 \in 1 .. m + 1
        /\ (k + 1 < m => k + 1 \in 1 .. m - 1) /\ (~(k + 1 < m) => k + 1 = m)
    BY <1>1, <1>9
  <2>2. PartTo(t, x, y, inside, kind, before, part, W)
    BY <1>1, <2>1
  <2>3. Stage(k) = Loop(x, before, FALSE)
    BY <1>9
  <2>4. after = SubSeq(parts, 1, k + 1)
    BY <1>3, <1>9
  <2>5. y <= z /\ y \in Index /\ y + 1 = pos[(k + 1) + 1]
    <3>1. y <= z /\ y \in Index
      BY <1>5, <2>1, <2>2 DEF PartTo
    <3>2. pos[(k + 1) + 1] \in Nat
      BY <1>4, <2>1
    <3> QED
      BY <3>1, <3>2
  <2>6. At(t, y) = IF k + 1 < m THEN COMMA ELSE Closing[kind]
    <3>1. CASE k + 1 < m
      BY <1>5, <2>1, <3>1
    <3>2. CASE ~(k + 1 < m)
      BY <1>1, <2>1, <3>2
    <3> QED
      BY <3>1, <3>2
  <2>7. At(t, y) \in Follow /\ At(t, y) \notin White /\ Blank(t, y) = y
    <3>1. COMMA \in Follow /\ Closing[kind] \in Follow /\ \A b \in Follow : b \notin White
      BY FollowIs DEF Follow
    <3>2. At(t, y) \in Follow /\ At(t, y) \notin White
      BY <2>6, <3>1
    <3> QED
      BY <2>5, <3>2, BlankStays
  <2>8. k + 1 < m => Blank(t, y + 1) = pos[(k + 1) + 1]
    <3> SUFFICES ASSUME k + 1 < m PROVE Blank(t, y + 1) = pos[(k + 1) + 1]
      OBVIOUS
    <3>1. (k + 1) + 1 \in 1 .. m
      BY <1>1
    <3>2. At(t, pos[(k + 1) + 1]) \notin White /\ pos[(k + 1) + 1] \in Index
      BY <1>1, <2>1, <3>1 DEF PartTo
    <3> QED
      BY <2>5, <3>2, BlankStays
  <2>9. AfterPart(t, y, after, kind) = {Stage(k + 1)}
    <3>1. CASE k + 1 < m
      <4>1. AfterPart(t, y, after, kind) = {Loop(Blank(t, y + 1), after, FALSE)}
        BY <2>6, <3>1, AfterPartCases
      <4> QED
        BY <2>4, <2>8, <3>1, <4>1
    <3>2. CASE ~(k + 1 < m)
      <4>1. AfterPart(t, y, after, kind) = {Loop(y + 1, after, TRUE)}
        BY <2>6, <3>2, AfterPartCases
      <4>2. after = parts /\ y + 1 = pos[m + 1]
        BY <1>3, <2>1, <2>4, <2>5, <3>2
      <4> QED
        BY <3>2, <4>1, <4>2
    <3> QED
      BY <3>1, <3>2
  <2> HIDE DEF Stage
  <2>10. Turn(t, Stage(k), inside, kind) =
           UNION {AfterPart(t, Blank(t, q.next), Append(before, q.value), kind) : q \in A}
    <3>1. Loop(x, before, FALSE).closed = FALSE /\ Loop(x, before, FALSE).next = x
          /\ Loop(x, before, FALSE).parts = before
      BY DEF Loop
    <3> QED
      BY <2>3, <3>1 DEF Turn
  <2>11. A = IF part \in W THEN {p} ELSE {}
    BY <2>2, <2>7 DEF PartTo
  <2>12. p.next = y /\ p.value = part
    BY DEF Parsed
  <2> DEFINE F(q) == AfterPart(t, Blank(t, q.next), Append(before, q.value), kind)
  <2>13. F(p) = {Stage(k + 1)}
    BY <2>7, <2>9, <2>12
  <2>14. Turn(t, Stage(k), inside, kind) = UNION {F(q) : q \in A}
    BY <2>10
  <2> HIDE DEF F, A, p
  <2> QED
    BY <2>11, <2>13, <2>14
<1>10. ASSUME NEW k \in Nat, k \in S PROVE k + 1 \in S
  <2>1. turns[k + 1] = UNION {Turn(t, l, inside, kind) : l \in turns[k]}
    BY <1>7
  <2>2. turns[k] = IF Good(k) THEN {Stage(k)} ELSE {}
    BY <1>10
  <2>3. CASE k < m
    <3>1. Good(k + 1) <=> Good(k) /\ parts[k + 1] \in W
      <4>1. k + 1 \in 1 .. m /\ \A j \in 1 .. m : j <= k + 1 <=> j <= k \/ j = k + 1
        BY <1>1, <2>3
      <4> QED
        BY <4>1
    <3>2. Turn(t, Stage(k), inside, kind) = IF parts[k + 1] \in W THEN {Stage(k + 1)} ELSE {}
      BY <1>9, <2>3
    <3> HIDE DEF Good, Stage
    <3>3. turns[k + 1] = IF Good(k + 1) THEN {Stage(k + 1)} ELSE {}
      BY <2>1, <2>2, <3>1, <3>2
    <3> QED
      BY <3>3
  <2>4. CASE ~(k < m)
    <3>1. Stage(k + 1) = Stage(k) /\ Stage(k).closed
      <4>1. ~(k < m) /\ ~(k + 1 < m)
        BY <1>1, <2>4
      <4> QED
        BY <4>1 DEF Loop
    <3>2. Good(k + 1) <=> Good(k)
      <4>1. \A j \in 1 .. m : j <= k + 1 /\ j <= k
        BY <1>1, <2>4
      <4> QED
        BY <4>1
    <3> HIDE DEF Good, Stage
    <3>3. Turn(t, Stage(k), inside, kind) = {Stage(k)}
      BY <3>1 DEF Turn
    <3>4. turns[k + 1] = IF Good(k + 1) THEN {Stage(k + 1)} ELSE {}
      BY <2>1, <2>2, <3>1, <3>2, <3>3
    <3> QED
      BY <3>4
  <2> QED
    BY <2>3, <2>4
<1> HIDE DEF S
<1>11. \A k \in Nat : k \in S
  BY <1>8, <1>10, Induction
<1>12. turns[z] = IF Good(z) THEN {Stage(z)} ELSE {}
  BY <1>1, <1>11 DEF S
<1>13. Stage(z) = Loop(pos[m + 1], parts, TRUE)
  <2>1. m \in Nat /\ z \in Nat /\ m <= z
    BY <1>1, <1>5
  <2>2. ~(z < m)
    BY <2>1
  <2> QED
    BY <2>2
<1>14. Good(z) <=> \A j \in 1 .. m : parts[j] \in W
  <2>1. \A j \in 1 .. m : j <= z
    BY <1>1, <1>5
  <2> QED
    BY <2>1
<1> HIDE DEF Good, Stage
<1> QED
  BY <1>12, <1>13, <1>14 DEF turns, start, m, z

\* An array or an object of the parts that are written.
LEMMA PartsRead ==
  ASSUME NEW t \in Bytes, NEW V, NEW inside \in Rows(V), NEW kind \in Kinds,
         NEW R, NEW parts \in Seq(R), NEW pos, NEW W, Spread(t, inside, kind, parts, pos, W),
         NEW i \in Index, pos[1] = i + 1, NEW e, e = pos[Len(parts) + 1]
  PROVE  /\ e <= Len(t) + 1 =>
              ContainerAt(t, i, inside, kind) =
                IF \A j \in 1 .. Len(parts) : parts[j] \in W
                THEN {Parsed(Container(kind, parts), e)} ELSE {}
         /\ e > Len(t) + 1 => ContainerAt(t, i, inside, kind) = {}
<1> DEFINE m == Len(parts)
           z == Len(t)
           start == Blank(t, i + 1)
           turns == Turns(t, start, inside, kind)
           closed == {l \in turns[z] : l.closed}
           whole == \A j \in 1 .. m : parts[j] \in W
           Made(l) == Parsed(Container(kind, l.parts), l.next)
           last == Loop(e, parts, TRUE)
           C == ContainerAt(t, i, inside, kind)
<1>1. m \in Nat /\ m >= 1 /\ z \in Nat /\ 1 \in 1 .. m /\ e \in Nat /\ pos[1] \in Index
  <2>1. m \in Nat /\ m >= 1 /\ z \in Nat
    BY Indexed DEF Spread
  <2>2. \A k \in 1 .. m + 1 : pos[k] \in Index
    BY DEF Spread
  <2> HIDE DEF m
  <2>3. 1 \in 1 .. m /\ 1 \in 1 .. m + 1 /\ m + 1 \in 1 .. m + 1
    BY <2>1
  <2> QED
    BY <2>1, <2>2, <2>3 DEF m, Index
<1>2. At(t, pos[1]) \notin White \cup {Closing[j] : j \in Kinds}
  BY <1>1 DEF Spread, PartTo
<1>3. start = pos[1] /\ At(t, start) # Closing[kind]
  BY <1>1, <1>2, BlankStays
<1> HIDE DEF m, z, start
<1>4. C = {Made(l) : l \in closed}
  BY <1>3 DEF ContainerAt, start, z
<1> HIDE DEF turns
<1>5. ASSUME e <= z + 1 PROVE C = IF whole THEN {Parsed(Container(kind, parts), e)} ELSE {}
  <2>1. e - 1 <= z
    BY <1>1, <1>5
  <2>2. turns[z] = IF whole THEN {last} ELSE {}
    <3>1. pos[Len(parts) + 1] - 1 <= Len(t)
      BY <2>1 DEF z
    <3>2. Turns(t, pos[1], inside, kind)[Len(t)] =
            IF \A j \in 1 .. Len(parts) : parts[j] \in W
            THEN {Loop(pos[Len(parts) + 1], parts, TRUE)} ELSE {}
      BY <3>1, LoopWhole
    <3> QED
      BY <1>3, <3>2 DEF turns, z, m
  <2>3. last.closed /\ Made(last) = Parsed(Container(kind, parts), e)
    BY DEF Loop
  <2> HIDE DEF Made, last, C, whole
  <2>4. closed = IF whole THEN {last} ELSE {}
    BY <2>2, <2>3
  <2> HIDE DEF closed
  <2> QED
    BY <1>4, <2>3, <2>4
<1>6. ASSUME e > z + 1 PROVE C = {}
  <2>1. e - 1 > z
    BY <1>1, <1>6
  <2>2. \A k \in Nat : \A l \in turns[k] : ~l.closed
    <3>1. pos[Len(parts) + 1] - 1 > Len(t)
      BY <2>1 DEF z
    <3>2. \A k \in Nat : \A l \in Turns(t, pos[1], inside, kind)[k] : ~l.closed
      BY <3>1, LoopBreaks
    <3> QED
      BY <1>3, <3>2 DEF turns
  <2>3. closed = {}
    BY <1>1, <2>2
  <2> HIDE DEF Made, C, closed
  <2> QED
    BY <1>4, <2>3
<1> QED
  BY <1>5, <1>6 DEF m, z

\* One without parts.
LEMMA EmptyRead ==
  ASSUME NEW t \in Bytes, NEW V, NEW inside \in Rows(V), NEW kind \in Kinds, NEW i \in Index
  PROVE  /\ At(t, i + 1) = Closing[kind] =>
              ContainerAt(t, i, inside, kind) = {Parsed(Container(kind, <<>>), (i + 1) + 1)}
         /\ At(t, i + 1) = 0 => ContainerAt(t, i, inside, kind) = {}
<1> DEFINE start == i + 1
           turns == Turns(t, start, inside, kind)
           z == Len(t)
           Made(l) == Parsed(Container(kind, l.parts), l.next)
           C == ContainerAt(t, i, inside, kind)
<1>1. start \in Index /\ z \in Nat
  BY Indexed DEF Index
<1>2. 0 \notin White /\ 0 # Closing[kind] /\ Closing[kind] \notin White
  BY FollowIs DEF White
<1> HIDE DEF start
<1>3. ASSUME At(t, start) = Closing[kind]
      PROVE  C = {Parsed(Container(kind, <<>>), start + 1)}
  <2>1. Blank(t, start) = start
    BY <1>1, <1>2, <1>3, BlankStays
  <2> QED
    BY <1>3, <2>1 DEF ContainerAt, start
<1>4. ASSUME At(t, start) = 0 PROVE C = {}
  <2>1. Blank(t, start) = start
    BY <1>1, <1>2, <1>4, BlankStays
  <2>2. C = {Made(l) : l \in {l \in turns[z] : l.closed}}
    BY <1>2, <1>4, <2>1 DEF ContainerAt, start
  <2>3. /\ turns[0] = {Loop(start, <<>>, FALSE)}
        /\ \A k \in Nat : turns[k + 1] = UNION {Turn(t, l, inside, kind) : l \in turns[k]}
    <3>1. TurnsFrom(t, start, inside, kind, turns)
      BY <1>1, TurnsType
    <3> HIDE DEF turns
    <3> QED
      BY <3>1 DEF TurnsFrom
  <2> HIDE DEF turns, Made, C
  <2> DEFINE S == {k \in Nat : \A l \in turns[k] : ~l.closed /\ l.next = start}
  <2>4. 0 \in S
    BY <2>3 DEF Loop
  <2>5. ASSUME NEW k \in Nat, k \in S PROVE k + 1 \in S
    <3>1. \A l \in turns[k] : Turn(t, l, inside, kind) = {}
      <4> SUFFICES ASSUME NEW l \in turns[k] PROVE Turn(t, l, inside, kind) = {}
        OBVIOUS
      <4>1. ~l.closed /\ l.next = start
        BY <2>5
      <4>2. PartAt(t, start, l.parts, inside, kind) = {}
        BY <1>4 DEF PartAt
      <4> QED
        BY <4>1, <4>2 DEF Turn
    <3>2. turns[k + 1] = {}
      BY <2>3, <3>1
    <3> QED
      BY <3>2
  <2> HIDE DEF S
  <2>6. \A k \in Nat : k \in S
    BY <2>4, <2>5, Induction
  <2>7. \A l \in turns[z] : ~l.closed
    BY <1>1, <2>6 DEF S
  <2>8. {l \in turns[z] : l.closed} = {}
    BY <2>7
  <2> QED
    BY <2>2, <2>8
<1> QED
  BY <1>3, <1>4 DEF start

LEMMA TidyParts ==
  ASSUME NEW v \in Tidy, v.type \in Kinds
  PROVE  /\ v.type = "array" =>
              /\ PartsIn(v) = v.items /\ v.items \in Seq(Tidy)
              /\ \A k \in 1 .. Len(v.items) : TextsIn(v)[k] = Written[v.items[k]]
         /\ v.type = "object" =>
              /\ PartsIn(v) = v.members /\ v.members \in Seq([name : Bytes, value : Tidy])
              /\ DistinctNames(v.members)
              /\ \A k \in 1 .. Len(v.members) :
                   IsMemberText(TextsIn(v)[k], v.members[k].name, Written[v.members[k].value])
<1>1. v \in Value /\ IsTidy(v, Tidy)
  BY TidyIs
<1>2. CASE v.type = "array"
  <2> DEFINE parts == v.items
             n == Len(parts)
  <2>1. parts \in Seq(Value) /\ PartsIn(v) = parts
    BY <1>1, <1>2, Parts DEF PartsIn
  <2>2. TextsIn(v) = [i \in DOMAIN parts |-> Written[parts[i]]]
    BY <1>2 DEF TextsIn
  <2>3. \A i \in DOMAIN parts : parts[i] \in Tidy
    BY <1>1, <1>2 DEF IsTidy
  <2> HIDE DEF parts
  <2>4. n \in Nat /\ DOMAIN parts = 1 .. n
    BY <2>1
  <2> HIDE DEF n
  <2>5. parts = [i \in 1 .. n |-> parts[i]]
    BY <2>1, <2>4
  <2>6. parts \in Seq(Tidy)
    BY <2>3, <2>4, <2>5, SeqDef
  <2> QED
    BY <1>2, <2>1, <2>2, <2>4, <2>6 DEF parts, n
<1>3. CASE v.type = "object"
  <2> DEFINE parts == v.members
             n == Len(parts)
             Q == [name : Bytes, value : Value]
             U == [name : Bytes, value : Tidy]
  <2>1. parts \in Seq(Q) /\ PartsIn(v) = parts
    BY <1>1, <1>3, Parts DEF PartsIn
  <2>2. TextsIn(v) = [i \in DOMAIN parts |->
                        WrittenString(parts[i].name) \o <<COLON>>
                          \o Written[Under(parts, parts[i].name)]]
    BY <1>3 DEF TextsIn
  <2>3. DistinctNames(parts) /\ \A i \in DOMAIN parts : parts[i].value \in Tidy
    BY <1>1, <1>3 DEF IsTidy
  <2> HIDE DEF parts
  <2>4. n \in Nat /\ DOMAIN parts = 1 .. n /\ \A i \in 1 .. n : parts[i] \in Q
    <3> HIDE DEF Q
    <3> QED
      BY <2>1
  <2> HIDE DEF n
  <2>5. parts = [i \in 1 .. n |-> parts[i]]
    BY <2>1, <2>4
  <2>6. \A i \in 1 .. n : parts[i] \in U
    BY <2>3, <2>4
  <2> HIDE DEF Q, U
  <2>7. parts \in Seq(U)
    BY <2>4, <2>5, <2>6, SeqDef
  <2>8. ASSUME NEW k \in 1 .. n
        PROVE  IsMemberText(TextsIn(v)[k], parts[k].name, Written[parts[k].value])
    <3>1. Under(parts, parts[k].name) = parts[k].value
      BY <2>1, <2>3, <2>4, UnderIs DEF Q
    <3>2. parts[k].name \in Bytes /\ parts[k].value \in Value
      BY <2>4 DEF Q
    <3>3. Written[parts[k].value] \in Bytes
      BY <3>2, WrittenBegins
    <3>4. TextsIn(v)[k] = WrittenString(parts[k].name) \o <<COLON>> \o Written[parts[k].value]
      BY <2>2, <2>4, <3>1
    <3> QED
      BY <3>2, <3>3, <3>4 DEF IsMemberText
  <2> QED
    BY <1>3, <2>1, <2>3, <2>7, <2>8 DEF parts, n, U
<1> QED
  BY <1>2, <1>3 DEF Kinds

\* Of members whose names differ, those before one do not have its name.
LEMMA NamesBefore ==
  ASSUME NEW S, NEW members \in Seq(S), DistinctNames(members), NEW k \in 1 .. Len(members)
  PROVE  /\ members[k].name \notin Names(SubSeq(members, 1, k - 1))
         /\ Len(SubSeq(members, 1, k - 1)) < OBJECT_MAX_CAPACITY
<1> DEFINE before == SubSeq(members, 1, k - 1)
           n == Len(members)
<1>1. n \in Nat /\ DOMAIN members = 1 .. n /\ k \in 1 .. n /\ n <= OBJECT_MAX_CAPACITY
  BY DEF DistinctNames
<1>2. Len(before) = k - 1 /\ DOMAIN before = 1 .. k - 1
      /\ \A j \in 1 .. k - 1 : before[j] = members[j]
  OBVIOUS
<1> HIDE DEF before, n
<1>3. ASSUME members[k].name \in Names(before) PROVE FALSE
  <2>1. PICK j \in 1 .. k - 1 : members[k].name = before[j].name
    BY <1>2, <1>3 DEF Names
  <2>2. j \in 1 .. n /\ j # k /\ members[j].name = members[k].name
    BY <1>1, <1>2, <2>1
  <2> QED
    BY <1>1, <2>2 DEF DistinctNames
<1>4. OBJECT_MAX_CAPACITY \in Nat
  BY CapacityAssumption
<1>5. Len(before) < OBJECT_MAX_CAPACITY
  BY <1>1, <1>2, <1>4
<1> QED
  BY <1>3, <1>5 DEF before

\* The parts of a value that is written lie spread in the text.
LEMMA PartsSpread ==
  ASSUME NEW t \in Bytes, NEW inside, NEW n \in Nat, Reads(t, inside, Kept(n)),
         NEW v \in Tidy, v.type \in Kinds, Len(PartsIn(v)) >= 1,
         NEW i \in Index, NEW pos, PartsLie(t, i, TextsIn(v), pos),
         pos[Len(PartsIn(v)) + 1] - 1 <= Len(t) =>
           At(t, pos[Len(PartsIn(v)) + 1] - 1) = Closing[v.type]
  PROVE  Spread(t, inside, v.type, PartsIn(v), pos, KeptParts(v.type, n))
<1> DEFINE kind == v.type
           parts == PartsIn(v)
           texts == TextsIn(v)
           m == Len(parts)
           W == KeptParts(kind, n)
<1>1. v \in Value
  BY TidyIs
<1>2. texts \in Seq(Bytes) /\ Len(texts) = m
  BY <1>1, ContainerWritten
<1>3. m \in Nat /\ m >= 1
  BY <1>2
<1>4. /\ pos \in [1 .. m + 1 -> Index] /\ pos[1] = i
      /\ \A k \in 1 .. m : /\ Agrees(t, pos[k], texts[k])
                           /\ pos[k + 1] = (pos[k] + Len(texts[k])) + 1
      /\ \A k \in 1 .. m - 1 : pos[k + 1] - 1 <= Len(t) => At(t, pos[k + 1] - 1) = COMMA
  BY <1>2 DEF PartsLie
<1>5. ASSUME NEW k \in 1 .. m
      PROVE  PartTo(t, pos[k], pos[k + 1] - 1, inside, kind, SubSeq(parts, 1, k - 1), parts[k], W)
  <2> DEFINE x == pos[k]
             text == texts[k]
             y == x + Len(text)
             before == SubSeq(parts, 1, k - 1)
             part == parts[k]
  <2>1. x \in Index /\ Agrees(t, x, text) /\ pos[k + 1] = y + 1 /\ text \in Bytes
    <3>1. k \in 1 .. m + 1
      BY <1>3
    <3>2. text \in Bytes
      BY <1>2
    <3> HIDE DEF m
    <3> QED
      BY <1>4, <3>1, <3>2
  <2>2. y \in Nat
    <3>1. Len(text) \in Nat /\ x \in Nat
      BY <2>1, Indexed DEF Index
    <3> QED
      BY <3>1
  <2>3. pos[k + 1] - 1 = y
    <3> HIDE DEF y
    <3> QED
      BY <2>1, <2>2
  <2>4. CASE kind = "array"
    <3>1. parts = v.items /\ parts \in Seq(Tidy) /\ texts[k] = Written[parts[k]]
      BY <2>4, TidyParts
    <3>2. part \in Tidy /\ text = Written[part]
      BY <3>1
    <3>3. y = x + Len(Written[part]) /\ Agrees(t, x, Written[part])
      BY <2>1, <3>2
    <3> HIDE DEF x, y, part, before, text
    <3>4. PartTo(t, x, y, inside, "array", before, part, KeptParts("array", n))
      BY <2>1, <3>2, <3>3, ItemReads
    <3> QED
      BY <2>3, <2>4, <3>4 DEF x, part, before
  <2>5. CASE kind = "object"
    <3>1. /\ parts = v.members /\ parts \in Seq([name : Bytes, value : Tidy]) /\ DistinctNames(parts)
          /\ IsMemberText(texts[k], parts[k].name, Written[parts[k].value])
      BY <2>5, TidyParts
    <3>2. part \in [name : Bytes, value : Tidy] /\ IsMemberText(text, part.name, Written[part.value])
      <4> DEFINE U == [name : Bytes, value : Tidy]
      <4>1. parts \in Seq(U) /\ k \in 1 .. Len(parts)
        BY <3>1
      <4> HIDE DEF U, parts
      <4>2. parts[k] \in U
        BY <4>1
      <4> QED
        BY <3>1, <4>2 DEF U
    <3>3. part.name \notin Names(before) /\ Len(before) < OBJECT_MAX_CAPACITY
      BY <3>1, NamesBefore
    <3>4. y = x + Len(text)
      OBVIOUS
    <3> HIDE DEF x, y, part, before, text
    <3>5. PartTo(t, x, y, inside, "object", before, part, KeptParts("object", n))
      BY <2>1, <3>2, <3>3, <3>4, MemberPartReads
    <3> QED
      BY <2>3, <2>5, <3>5 DEF x, part, before
  <2> QED
    BY <2>4, <2>5 DEF Kinds
<1> HIDE DEF parts, W, kind
<1> QED
  BY <1>3, <1>4, <1>5 DEF Spread, parts, W, kind

\* Parsing an array or an object that is written, by what the level inside reads.
LEMMA ContainerReads ==
  ASSUME NEW t \in Bytes, NEW V, NEW inside \in Rows(V), NEW n \in Nat, Reads(t, inside, Kept(n)),
         NEW i \in Index, NEW v \in Tidy, v.type \in Kinds,
         Agrees(t, i, Written[v]), NEW e, e = i + Len(Written[v])
  PROVE  /\ e \in Index /\ e > i
         /\ e <= Len(t) + 1 =>
              ValueAt(t, i, inside) = IF v \in Kept(n + 1) THEN {Parsed(v, e)} ELSE {}
         /\ e > Len(t) + 1 => ValueAt(t, i, inside) = {}
<1> DEFINE kind == v.type
           parts == PartsIn(v)
           texts == TextsIn(v)
           m == Len(parts)
           x == Listed(texts)
           w == Written[v]
           a == Opening[kind]
           b == Closing[kind]
           q == (i + 1) + Len(x)
           z == Len(t)
           W == KeptParts(kind, n)
           results == ValueAt(t, i, inside)
           C == ContainerAt(t, i, inside, kind)
           kept == v \in Kept(n + 1)
<1>1. v \in Value /\ kind \in Kinds
  BY TidyIs
<1>2. /\ texts \in Seq(Bytes) /\ Len(texts) = m
      /\ Encloses(w, a, x, b) /\ v = Container(kind, parts)
  BY <1>1, ContainerWritten
<1>3. kept <=> \A k \in 1 .. m : parts[k] \in W
  BY <1>1, ContainerKept
<1>4. /\ w \in Bytes /\ Len(w) = Len(x) + 2 /\ w[1] = a
      /\ Agrees(t, i + 1, x) /\ i + 1 \in Index /\ q \in Index /\ i + Len(w) = q + 1
      /\ q <= z => At(t, q) = b
  <2> HIDE DEF w, a, x, b, q
  <2>1. Agrees(t, i, w) /\ q = (i + 1) + Len(x)
    BY DEF w, q
  <2> QED
    BY <1>2, <2>1, Enclosed DEF z
<1>5. z \in Nat /\ i \in Nat /\ i >= 1 /\ q \in Nat /\ e = q + 1 /\ Len(x) \in Nat /\ x \in Bytes
  <2>1. x \in Bytes
    BY <1>2 DEF Encloses
  <2> QED
    BY <1>4, <2>1, Indexed DEF Index
<1>6. q >= i + 1 /\ e \in Nat /\ e \in Index /\ e > i + 1 /\ (q <= z <=> e <= z + 1)
  <2> DEFINE l == Len(x)
  <2>1. l \in Nat /\ q = (i + 1) + l
    BY <1>5
  <2> HIDE DEF l, q, z
  <2>2. q >= i + 1 /\ e \in Nat /\ e >= 1 /\ e > i + 1 /\ (q <= z <=> e <= z + 1)
    BY <1>5, <2>1
  <2> QED
    BY <2>2 DEF Index
<1>7. (i <= z => At(t, i) = a) /\ (i > z => At(t, i) = 0)
  <2>1. 1 \in 1 .. Len(w)
    <3> DEFINE l == Len(x)
    <3>1. l \in Nat /\ Len(w) = l + 2
      BY <1>4, <1>5
    <3> HIDE DEF l, w
    <3> QED
      BY <3>1
  <2>2. (i + 1) - 1 = i
    BY <1>5
  <2>3. Agrees(t, i, w)
    OBVIOUS
  <2> HIDE DEF w
  <2>4. (i + 1) - 1 <= Len(t) => At(t, (i + 1) - 1) = w[1]
    BY <1>4, <2>1, <2>3, AgreesAt
  <2>5. i > z => At(t, i) = 0
    BY AtType
  <2> QED
    BY <1>4, <2>2, <2>4, <2>5
<1>8. CASE i > z
  <2>1. results = {}
    <3>1. At(t, i) = 0 /\ LiteralAt(t, i) = {}
      BY <1>7, <1>8, LiteralNone
    <3> QED
      BY <3>1, ValueAtByte
  <2>2. e > z + 1
    <3> HIDE DEF z
    <3> QED
      BY <1>5, <1>6, <1>8
  <2> QED
    BY <1>5, <1>6, <2>1, <2>2
<1>9. ASSUME i <= z PROVE results = C
  BY <1>1, <1>7, <1>9, ValueAtByte
<1>10. CASE i <= z /\ m = 0
  <2>1. x = <<>> /\ parts = <<>>
    <3>1. texts = <<>>
      <4> HIDE DEF texts, m
      <4> QED
        BY <1>2, <1>10
    <3>2. x = <<>>
      BY <3>1, ListedNone
    <3>3. parts = <<>>
      BY <1>1, <1>10, Parts DEF PartsIn, Kinds
    <3> QED
      BY <3>2, <3>3
  <2>2. q = i + 1
    <3>1. Len(x) = 0
      BY <2>1
    <3> QED
      BY <1>5, <3>1
  <2>3. kept
    BY <1>3, <1>10
  <2> HIDE DEF kept, C, q, results, parts, z
  <2>4. CASE q <= z
    <3>1. C = {Parsed(Container(kind, <<>>), (i + 1) + 1)}
      BY <1>1, <1>4, <2>2, <2>4, EmptyRead DEF C
    <3>2. C = {Parsed(v, e)}
      BY <1>2, <1>5, <2>1, <2>2, <3>1
    <3> QED
      BY <1>5, <1>6, <1>9, <1>10, <2>3, <2>4, <3>2 DEF z, results, kept
  <2>5. CASE q > z
    <3>1. At(t, i + 1) = 0
      BY <1>4, <2>2, <2>5, AtType DEF z
    <3>2. C = {}
      BY <1>1, <3>1, EmptyRead DEF C
    <3>3. e > z + 1
      BY <1>5, <2>5
    <3> QED
      BY <1>5, <1>6, <1>9, <1>10, <3>2, <3>3 DEF z, results
  <2> QED
    BY <1>5, <2>4, <2>5
<1>11. CASE i <= z /\ m # 0
  <2>1. m \in Nat /\ m >= 1
    <3>1. m \in Nat
      <4> HIDE DEF texts, m
      <4> QED
        BY <1>2
    <3> HIDE DEF m
    <3> QED
      BY <1>11, <3>1
  <2>2. PICK pos : PartsLie(t, i + 1, texts, pos)
    <3> HIDE DEF x, texts
    <3> QED
      BY <1>2, <1>4, ListedLies DEF x
  <2>3. pos[m + 1] = e /\ pos[1] = i + 1
    <3> HIDE DEF texts, m, q
    <3>1. pos[m + 1] = q + 1
      BY <1>2, <2>1, <2>2 DEF PartsLie, q, x
    <3> QED
      BY <1>5, <2>2, <3>1 DEF PartsLie
  <2>4. Spread(t, inside, kind, parts, pos, W)
    <3>1. pos[m + 1] - 1 = q
      <4> HIDE DEF q, m
      <4> QED
        BY <1>5, <2>3
    <3>2. pos[Len(PartsIn(v)) + 1] - 1 <= Len(t) =>
            At(t, pos[Len(PartsIn(v)) + 1] - 1) = Closing[v.type]
      BY <1>4, <3>1
    <3>3. i + 1 \in Index
      BY <1>4
    <3> DEFINE j == i + 1
    <3>4. j \in Index /\ PartsLie(t, j, TextsIn(v), pos)
      BY <2>2, <3>3
    <3> HIDE DEF j
    <3>5. Len(PartsIn(v)) >= 1
      BY <2>1
    <3> QED
      BY <1>1, <3>2, <3>4, <3>5, PartsSpread
  <2>5. \E R : parts \in Seq(R)
    BY <1>1, Parts DEF PartsIn, Kinds
  <2>6. PICK R : parts \in Seq(R)
    BY <2>5
  <2>7. /\ e <= z + 1 => C = IF kept THEN {Parsed(v, e)} ELSE {}
        /\ e > z + 1 => C = {}
    <3> HIDE DEF parts, W, kind
    <3>1. e = pos[Len(parts) + 1] /\ pos[1] = i + 1
      BY <2>3
    <3>2. /\ e <= Len(t) + 1 =>
               ContainerAt(t, i, inside, kind) =
                 IF \A k \in 1 .. Len(parts) : parts[k] \in W
                 THEN {Parsed(Container(kind, parts), e)} ELSE {}
          /\ e > Len(t) + 1 => ContainerAt(t, i, inside, kind) = {}
      <4>1. kind \in Kinds
        BY <1>1
      <4>2. e <= Len(t) + 1 =>
               ContainerAt(t, i, inside, kind) =
                 IF \A k \in 1 .. Len(parts) : parts[k] \in W
                 THEN {Parsed(Container(kind, parts), e)} ELSE {}
        BY <2>4, <2>6, <3>1, <4>1, PartsRead
      <4>3. e > Len(t) + 1 => ContainerAt(t, i, inside, kind) = {}
        BY <2>4, <2>6, <3>1, <4>1, PartsRead
      <4> QED
        BY <4>2, <4>3
    <3> HIDE DEF kept
    <3> QED
      BY <1>2, <1>3, <3>2
  <2> HIDE DEF C, results, z, kept
  <2> QED
    BY <1>6, <1>9, <1>11, <2>7, <1>5 DEF z, results, kept
<1> HIDE DEF results, kept, z
<1>12. i > z \/ (i <= z /\ m = 0) \/ (i <= z /\ m # 0)
  BY <1>5
<1> QED
  BY <1>8, <1>10, <1>11, <1>12 DEF results, kept, z

\* A level more of the parser reads what is nested one level deeper.
LEMMA LevelReads ==
  ASSUME NEW t \in Bytes, NEW V, NEW inside \in Rows(V), NEW n \in Nat, Reads(t, inside, Kept(n))
  PROVE  Reads(t, Level(t, inside), Kept(n + 1))
<1> SUFFICES ASSUME NEW v \in Tidy, NEW i \in Index, Agrees(t, i, Written[v])
             PROVE  ReadTo(t, Level(t, inside)[i], Kept(n + 1), v, i + Len(Written[v]))
  BY DEF Reads
<1> DEFINE e == i + Len(Written[v])
           results == ValueAt(t, i, inside)
           K == Kept(n + 1)
<1>1. v \in Value
  BY TidyIs
<1>2. Level(t, inside)[i] = results
  <2>1. Blank(t, i) = i
    BY <1>1, ValueStarts
  <2> QED
    BY <2>1 DEF Level
<1>3. CASE v.type \notin Kinds
  <2> HIDE DEF e
  <2>1. e = i + Len(Written[v])
    BY DEF e
  <2>2. ReadTo(t, ValueAt(t, i, inside), Kept(n + 1), v, e)
    BY <1>1, <1>3, <2>1, AtomReads
  <2> QED
    BY <1>2, <2>2 DEF e
<1>4. CASE v.type \in Kinds
  <2> HIDE DEF e
  <2>1. e = i + Len(Written[v])
    BY DEF e
  <2>2. /\ e \in Index /\ e > i
        /\ e <= Len(t) + 1 => results = IF v \in K THEN {Parsed(v, e)} ELSE {}
        /\ e > Len(t) + 1 => results = {}
    <3>1. e \in Index /\ e > i
      BY <1>4, <2>1, ContainerReads
    <3>2. e <= Len(t) + 1 => ValueAt(t, i, inside) = IF v \in Kept(n + 1) THEN {Parsed(v, e)} ELSE {}
      BY <1>4, <2>1, ContainerReads
    <3>3. e > Len(t) + 1 => ValueAt(t, i, inside) = {}
      BY <1>4, <2>1, ContainerReads
    <3> QED
      BY <3>1, <3>2, <3>3
  <2> HIDE DEF results, K
  <2>3. (At(t, e) \in Follow => e <= Len(t)) /\ (e > Len(t) => At(t, e) = 0)
    BY <2>2, FollowWithin
  <2> DEFINE z == Len(t)
  <2>4. z \in Nat /\ e \in Nat
    BY <2>2, Indexed DEF Index
  <2>5. (e <= z => e <= z + 1) /\ (e <= z + 1 \/ e > z + 1)
    <3> HIDE DEF z
    <3> QED
      BY <2>4
  <2>6. e > z => \A p \in results : At(t, p.next) = 0
    <3> SUFFICES ASSUME e > z, NEW p \in results PROVE At(t, p.next) = 0
      OBVIOUS
    <3>1. p = Parsed(v, e)
      BY <2>2, <2>5
    <3> QED
      BY <2>3, <3>1 DEF Parsed
  <2>7. ReadTo(t, results, K, v, e)
    BY <2>2, <2>3, <2>5, <2>6 DEF ReadTo
  <2> QED
    BY <1>2, <2>7 DEF e, K
<1> QED
  BY <1>3, <1>4

LEMMA ParserReads ==
  ASSUME NEW t \in Bytes
  PROVE  \A n \in Nat : Reads(t, Parser(t)[n], Kept(n))
<1> DEFINE S == {n \in Nat : Reads(t, Parser(t)[n], Kept(n))}
<1>1. 0 \in S
  <2>1. Parser(t)[0] = [i \in Index |-> {}]
    BY ParserLevels
  <2> DEFINE row == Parser(t)[0]
  <2>2. \A i \in Index : row[i] = {}
    BY <2>1
  <2> HIDE DEF row
  <2>3. Reads(t, row, Kept(0))
    BY <2>2, NoneKept DEF Reads, ReadTo
  <2> QED
    BY <2>3 DEF row
<1>2. ASSUME NEW n \in Nat, n \in S PROVE n + 1 \in S
  <2> DEFINE inside == Parser(t)[n]
  <2>1. Reads(t, inside, Kept(n))
    BY <1>2
  <2>2. inside \in Rows(Held(n)) /\ Parser(t)[n + 1] = Level(t, inside)
    BY ParserLevels
  <2> HIDE DEF inside
  <2>3. Reads(t, Level(t, inside), Kept(n + 1))
    BY <2>1, <2>2, LevelReads
  <2> QED
    BY <2>2, <2>3
<1> HIDE DEF S
<1>3. \A n \in Nat : n \in S
  BY <1>1, <1>2, Induction
<1> QED
  BY <1>3 DEF S

\* json_parse_string of what is written of an array or an object, and of a text
\* that breaks off within it.
LEMMA ParseStringReads ==
  ASSUME NEW v \in Tidy, v.type \in Kinds, NEW t \in Bytes, Agrees(t, 1, Written[v])
  PROVE  /\ Len(t) = Len(Written[v]) =>
              ParseString(t) = IF v \in Kept(MAX_NESTING + 1) THEN {v} ELSE {}
         /\ Len(t) < Len(Written[v]) => ParseString(t) = {}
<1> DEFINE n == MAX_NESTING + 1
           w == Written[v]
           m == Len(w)
           z == Len(t)
           e == 1 + m
           results == Parser(t)[n][1]
<1>1. v \in Value /\ n \in Nat /\ 1 \in Index
  BY TidyIs, NestingAssumption DEF Index
<1>2. m \in Nat /\ m >= 1 /\ z \in Nat
  BY <1>1, WrittenBegins, Indexed
<1>3. Reads(t, Parser(t)[n], Kept(n))
  <2> HIDE DEF n
  <2> QED
    BY <1>1, ParserReads
<1>4. ReadTo(t, results, Kept(n), v, e)
  BY <1>1, <1>3 DEF Reads
<1>5. /\ Blank(t, 1) = 1
      /\ 1 <= z => Begins(v, At(t, 1))
      /\ 1 > z => At(t, 1) = 0
  BY <1>1, ValueStarts
<1>6. ParseString(t) \subseteq {p.value : p \in results}
  BY DEF ParseString
<1>7. 1 <= z => ParseString(t) = {p.value : p \in results}
  <2> SUFFICES ASSUME 1 <= z PROVE ParseString(t) = {p.value : p \in results}
    OBVIOUS
  <2>1. At(t, Blank(t, 1)) \in {Opening.array, Opening.object}
    BY <1>5 DEF Begins, Kinds
  <2> QED
    BY <2>1 DEF ParseString
<1> HIDE DEF results, m, z, n
<1>8. e \in Nat /\ e = m + 1
  BY <1>2
<1>9. ASSUME z = m PROVE ParseString(t) = IF v \in Kept(n) THEN {v} ELSE {}
  <2>1. e <= z + 1 /\ 1 <= z
    BY <1>2, <1>8, <1>9
  <2>2. results = IF v \in Kept(n) THEN {Parsed(v, e)} ELSE {}
    BY <1>4, <2>1 DEF ReadTo, z
  <2>3. Parsed(v, e).value = v
    BY DEF Parsed
  <2> DEFINE r == Parsed(v, e)
  <2> HIDE DEF r
  <2>4. results = IF v \in Kept(n) THEN {r} ELSE {}
    BY <2>2 DEF r
  <2>5. r.value = v
    BY <2>3 DEF r
  <2> QED
    BY <1>7, <2>1, <2>4, <2>5
<1>10. ASSUME z < m PROVE ParseString(t) = {}
  <2>1. e > z + 1
    BY <1>2, <1>8, <1>10
  <2>2. results = {}
    BY <1>4, <2>1 DEF ReadTo, z
  <2> QED
    BY <1>6, <2>2
<1> QED
  BY <1>9, <1>10 DEF n, m, z

-----------------------------------------------------------------------------
(* The library's values are tidy. *)

LEMMA AtomOver ==
  ASSUME NEW inner
  PROVE  /\ \A s \in Bytes : String(s) \in Over(inner) /\ String(s).type = "string"
         /\ \A k \in Nat : Number(k) \in Over(inner) /\ Number(k).type = "number"
         /\ \A l \in DOMAIN Literal : Plain(l) \in Over(inner) /\ Plain(l).type = "literal"
<1>1. ASSUME NEW s \in Bytes PROVE String(s) \in Over(inner) /\ String(s).type = "string"
  <2>1. String(s) \in [type : {"string"}, text : Bytes]
    BY DEF String
  <2> QED
    BY <2>1 DEF Over, String
<1>2. ASSUME NEW k \in Nat PROVE Number(k) \in Over(inner) /\ Number(k).type = "number"
  <2>1. Number(k) \in [type : {"number"}, number : Nat]
    BY DEF Number
  <2> QED
    BY <2>1 DEF Over, Number
<1>3. ASSUME NEW l \in DOMAIN Literal
      PROVE  Plain(l) \in Over(inner) /\ Plain(l).type = "literal"
  <2>1. Plain(l) \in [type : {"literal"}, literal : DOMAIN Literal]
    BY DEF Plain
  <2> QED
    BY <2>1 DEF Over, Plain
<1> QED
  BY <1>1, <1>2, <1>3

LEMMA ContainerTidy ==
  ASSUME NEW kind \in Kinds, NEW parts \in Lists(kind, Bytes, Tidy),
         Container(kind, parts) \in Value
  PROVE  Container(kind, parts) \in Tidy
<1> DEFINE v == Container(kind, parts)
<1>1. CASE kind = "array"
  <2>1. v.type = "array" /\ v.items = parts /\ parts \in Seq(Tidy)
    BY <1>1 DEF Container, Array, Lists
  <2>2. \A i \in DOMAIN parts : parts[i] \in Tidy
    BY <2>1
  <2> HIDE DEF v
  <2>3. IsTidy(v, Tidy)
    BY <2>1, <2>2 DEF IsTidy
  <2> QED
    BY <2>3, TidyIs DEF v
<1>2. CASE kind = "object"
  <2> DEFINE U == [name : Bytes, value : Tidy]
  <2>1. /\ v.type = "object" /\ v.members = parts /\ parts \in Seq(U)
        /\ \A i, j \in DOMAIN parts : parts[i].name = parts[j].name => i = j
        /\ Len(parts) <= OBJECT_MAX_CAPACITY
    BY <1>2 DEF Container, Object, Lists
  <2>2. \A u \in U : u.value \in Tidy
    OBVIOUS
  <2> HIDE DEF U, v
  <2>3. \A i \in DOMAIN parts : parts[i].value \in Tidy
    BY <2>1, <2>2
  <2>4. IsTidy(v, Tidy)
    BY <2>1, <2>3 DEF IsTidy, DistinctNames
  <2> QED
    BY <2>4, TidyIs DEF v
<1> QED
  BY <1>1, <1>2 DEF Kinds

LEMMA AtomTidy == \A v \in Value : v.type \notin Kinds => v \in Tidy
BY TidyIs DEF IsTidy, Kinds

\* The parts of a tidy value, whose names differ.
LEMMA TidyLists ==
  ASSUME NEW v \in Tidy
  PROVE  /\ v.type = "array" => v.items \in Lists("array", Bytes, Tidy)
         /\ v.type = "object" => v.members \in Lists("object", Bytes, Tidy)
<1>1. v.type = "array" => v.items \in Seq(Tidy)
  BY TidyParts DEF Kinds
<1>2. v.type = "object" => v.members \in Seq([name : Bytes, value : Tidy]) /\ DistinctNames(v.members)
  BY TidyParts DEF Kinds
<1> QED
  BY <1>1, <1>2 DEF Lists, DistinctNames

LEMMA TidyClimbs == Climbs(Bytes, [n \in Nat |-> Held(n) \cap Tidy], MAX_NESTING + 1)
<1> DEFINE H == [n \in Nat |-> Held(n) \cap Tidy]
<1> SUFFICES ASSUME NEW n \in 0 .. (MAX_NESTING + 1) - 1
             PROVE  Takes(Bytes, H[n], H[n + 1])
  BY DEF Climbs
<1>1. n \in Nat /\ n + 1 \in Nat /\ n <= MaxDepth
  BY NestingAssumption, DepthAssumption
<1>2. Held(n + 1) \subseteq Value /\ Over(Held(n)) = Held(n + 1)
  BY <1>1, DepthAssumption, HeldNext, ValuesMonotone DEF Value
<1>3. H[n] = Held(n) \cap Tidy /\ \A v : v \in H[n + 1] <=> v \in Over(Held(n)) /\ v \in Tidy
  BY <1>1, <1>2
<1> HIDE DEF H
<1>4. \A v \in Over(Held(n)) : v.type \in {"string", "number", "literal"} => v \in H[n + 1]
  BY <1>2, <1>3, AtomTidy DEF Kinds
<1>5. /\ \A s \in Bytes : String(s) \in H[n + 1]
      /\ \A k \in Nat : Number(k) \in H[n + 1]
      /\ \A l \in DOMAIN Literal : Plain(l) \in H[n + 1]
  BY <1>4, AtomOver
<1>6. ASSUME NEW kind \in Kinds, NEW parts \in Lists(kind, Bytes, H[n])
      PROVE  Container(kind, parts) \in H[n + 1]
  <2>1. H[n] \subseteq Held(n) /\ H[n] \subseteq Tidy
    BY <1>3
  <2>2. parts \in Seq(PartsOf(kind, Held(n))) /\ parts \in Lists(kind, Bytes, Tidy)
    <3>1. CASE kind = "array"
      <4>1. parts \in Seq(H[n])
        BY <3>1 DEF Lists
      <4>2. parts \in Seq(Held(n)) /\ parts \in Seq(Tidy)
        BY <2>1, <4>1, SeqMonotonic
      <4> QED
        BY <3>1, <4>2 DEF PartsOf, Lists
    <3>2. CASE kind = "object"
      <4> DEFINE P == [name : Bytes, value : H[n]]
                 P1 == [name : Bytes, value : Held(n)]
                 P2 == [name : Bytes, value : Tidy]
      <4>1. /\ parts \in Seq(P)
            /\ \A i, j \in DOMAIN parts : parts[i].name = parts[j].name => i = j
            /\ Len(parts) <= OBJECT_MAX_CAPACITY
        BY <3>2 DEF Lists
      <4>2. P \subseteq P1 /\ P \subseteq P2
        BY <2>1
      <4>3. PartsOf(kind, Held(n)) = P1 /\ (parts \in Lists(kind, Bytes, Tidy) <=>
              /\ parts \in Seq(P2)
              /\ \A i, j \in DOMAIN parts : parts[i].name = parts[j].name => i = j
              /\ Len(parts) <= OBJECT_MAX_CAPACITY)
        BY <3>2 DEF PartsOf, Lists
      <4> HIDE DEF P, P1, P2
      <4>4. parts \in Seq(P1) /\ parts \in Seq(P2)
        BY <4>1, <4>2, SeqMonotonic
      <4> QED
        BY <4>1, <4>3, <4>4
    <3> QED
      BY <3>1, <3>2 DEF Kinds
  <2>3. Container(kind, parts) \in Over(Held(n))
    BY <2>2, ContainerType
  <2>4. Container(kind, parts) \in Value
    BY <1>2, <2>3
  <2> QED
    BY <1>3, <2>2, <2>3, <2>4, ContainerTidy
<1> QED
  BY <1>5, <1>6 DEF Takes

\* json_parse_string makes an array or an object, and a tidy one.
LEMMA ParsedIsTidy ==
  ASSUME NEW t \in Bytes, NEW v \in ParseString(t)
  PROVE  v \in Tidy /\ v.type \in Kinds
<1> DEFINE H == [n \in Nat |-> Held(n) \cap Tidy]
           n == MAX_NESTING
           inside == Parser(t)[n]
           i == Blank(t, 1)
<1>0. n \in Nat /\ n + 1 \in Nat /\ 1 \in Index
  BY NestingAssumption DEF Index
<1>1. v \in Tidy
  <2>1. Scans(t, Index, Bytes)
    BY QuotedType DEF Scans, Index
  <2>2. Climbs(Bytes, H, MAX_NESTING + 1)
    BY TidyClimbs
  <2>3. H[n + 1] \subseteq Tidy
    BY <1>0
  <2> HIDE DEF H
  <2>4. ParseString(t) \subseteq H[MAX_NESTING + 1]
    BY <1>0, <2>1, <2>2, ParseStringWithin
  <2> QED
    BY <2>3, <2>4
<1>2. /\ At(t, i) \in {Opening.array, Opening.object}
      /\ \E p \in Parser(t)[n + 1][1] : v = p.value
  BY DEF ParseString
<1>3. Parser(t)[n + 1][1] = ValueAt(t, i, inside)
  <2>1. Parser(t)[n + 1] = Level(t, inside)
    BY <1>0, ParserLevels
  <2> HIDE DEF inside
  <2> QED
    BY <1>0, <2>1 DEF Level
<1>4. PICK kind \in Kinds : At(t, i) = Opening[kind]
  BY <1>2 DEF Kinds
<1>5. i \in Index
  BY <1>0, BlankFirst
<1>6. PICK p \in ContainerAt(t, i, inside, kind) : v = p.value
  BY <1>2, <1>3, <1>4, <1>5, ValueAtByte
<1>7. \E parts, next : p = Parsed(Container(kind, parts), next)
  <2> HIDE DEF inside, i
  <2> QED
    BY Zenon DEF ContainerAt
<1>8. \A parts : Container(kind, parts).type = kind
  BY DEF Container, Array, Object, Kinds
<1> QED
  BY <1>1, <1>6, <1>7, <1>8 DEF Parsed

\* The caller's value is an array or an object, whose names differ all the way
\* down.
KeepsTidy == value # NoValue => value \in Tidy /\ value.type \in Kinds

LEMMA KeepsTidyStep ==
  TextTypeOK /\ TextTypeOK' /\ KeepsTidy /\ [TextNext]_textvars => KeepsTidy'
<1> SUFFICES ASSUME TextTypeOK, TextTypeOK', KeepsTidy, [TextNext]_textvars, value' # NoValue
             PROVE  value' \in Tidy /\ value'.type \in Kinds
  BY DEF KeepsTidy
<1>0. body \in Seq(Chunk) /\ value' \in Value
  BY DEF TextTypeOK
<1> SUFFICES \/ value' \in Tidy /\ value'.type \in Kinds
             \/ \E kind \in Kinds : \E parts \in Lists(kind, Bytes, Tidy) :
                  value' = Container(kind, parts)
  <2>1. ASSUME NEW kind \in Kinds, NEW parts \in Lists(kind, Bytes, Tidy),
               value' = Container(kind, parts)
        PROVE  value' \in Tidy /\ value'.type \in Kinds
    <3>1. value' \in Tidy
      BY <1>0, <2>1, ContainerTidy
    <3>2. Container(kind, parts).type = kind
      BY DEF Container, Array, Object, Kinds
    <3> QED
      BY <2>1, <3>1, <3>2
  <2> QED
    BY <2>1
<1> DEFINE U == [name : Bytes, value : Tidy]
<1>1. \A s \in Word : s \in Bytes /\ String(s) \in Tidy /\ \A name \in Word : Pair(name, String(s)) \in U
  <2>1. ASSUME NEW s \in Word PROVE s \in Bytes /\ String(s) \in Tidy
    <3>1. s \in Bytes
      BY TextAssumption
    <3>2. String(s) \in Value
      BY StringType
    <3>3. String(s).type \notin Kinds
      BY DEF String, Kinds
    <3> QED
      BY <3>1, <3>2, <3>3, AtomTidy
  <2> QED
    BY <2>1 DEF Pair
<1>2. \A members : members \in Lists("object", Bytes, Tidy) <=>
        members \in Seq(U) /\ DistinctNames(members)
  BY DEF Lists, DistinctNames
<1>3. CASE ParseBody
  <2>1. Text \in Bytes
    BY <1>0, TextType
  <2>2. value' \in ParseString(Text)
    BY <1>3 DEF ParseBody
  <2> QED
    BY <2>1, <2>2, ParsedIsTidy
<1>4. CASE NewContainer
  <2>1. PICK kind \in Kinds : value' = Container(kind, <<>>)
    BY <1>4 DEF NewContainer, Kinds, Container
  <2> QED
    BY <2>1, NoParts
<1>5. CASE SetString
  <2> DEFINE members == value.members
  <2>1. value \in Tidy /\ value.type = "object"
    BY <1>5 DEF SetString, Builds, KeepsTidy
  <2>2. members \in Seq(U) /\ DistinctNames(members)
    BY <1>2, <2>1, TidyLists
  <2>3. PICK name \in Word, s \in Word :
          IF name \in Names(members)
          THEN value' = Object([i \in DOMAIN members |->
                                  IF members[i].name = name THEN Pair(name, String(s))
                                  ELSE members[i]])
          ELSE /\ Len(members) < OBJECT_MAX_CAPACITY
               /\ value' = Object(Append(members, Pair(name, String(s))))
    BY <1>5 DEF SetString
  <2> DEFINE p == Pair(name, String(s))
  <2>4. p \in U /\ p.name = name
    BY <1>1 DEF Pair
  <2> HIDE DEF U, members, p
  <2>5. \E parts : value' = Object(parts) /\ parts \in Seq(U) /\ DistinctNames(parts)
    <3>1. CASE name \in Names(members)
      <4> DEFINE new == [i \in DOMAIN members |-> IF members[i].name = name THEN p ELSE members[i]]
      <4>1. new \in Seq(U) /\ Len(new) = Len(members) /\ DOMAIN new = DOMAIN members
        BY <2>2, <2>4
      <4>2. \A i \in DOMAIN members : new[i].name = members[i].name
        BY <2>4
      <4>3. value' = Object(new)
        BY <2>3, <3>1 DEF p
      <4> HIDE DEF new
      <4>4. DistinctNames(new)
        BY <2>2, <4>1, <4>2 DEF DistinctNames
      <4> QED
        BY <4>1, <4>3, <4>4
    <3>2. CASE name \notin Names(members)
      <4> DEFINE new == Append(members, p)
                 n == Len(members)
      <4>1. new \in Seq(U) /\ value' = Object(new) /\ n < OBJECT_MAX_CAPACITY
        BY <2>2, <2>3, <2>4, <3>2, AppendProperties DEF p
      <4>2. /\ n \in Nat /\ DOMAIN members = 1 .. n /\ Len(new) = n + 1 /\ DOMAIN new = 1 .. n + 1
            /\ new[n + 1] = p /\ \A i \in 1 .. n : new[i] = members[i]
        BY <2>2, <2>4
      <4> HIDE DEF new, n
      <4>3. \A i \in 1 .. n : members[i].name # name
        BY <3>2, <4>2 DEF Names
      <4>4. Len(new) <= OBJECT_MAX_CAPACITY
        BY <4>1, <4>2, CapacityAssumption
      <4>5. ASSUME NEW i \in 1 .. n + 1, NEW j \in 1 .. n + 1, new[i].name = new[j].name PROVE i = j
        <5>1. (i \in 1 .. n \/ i = n + 1) /\ (j \in 1 .. n \/ j = n + 1)
          BY <4>2
        <5>2. CASE i \in 1 .. n /\ j \in 1 .. n
          BY <2>2, <4>2, <4>5, <5>2 DEF DistinctNames
        <5> QED
          BY <2>4, <4>2, <4>3, <4>5, <5>1, <5>2
      <4> QED
        BY <4>1, <4>2, <4>4, <4>5 DEF DistinctNames
    <3> QED
      BY <3>1, <3>2
  <2>6. PICK parts : value' = Object(parts) /\ parts \in Seq(U) /\ DistinctNames(parts)
    BY <2>5
  <2>7. value' = Container("object", parts) /\ "object" \in Kinds
    BY <2>6 DEF Container, Kinds
  <2> QED
    BY <1>2, <2>6, <2>7
<1>6. CASE AppendString
  <2>1. value \in Tidy /\ value.type = "array"
    BY <1>6 DEF AppendString, Builds, KeepsTidy
  <2>2. PICK s \in Word : value' = Array(Append(value.items, String(s)))
    BY <1>6 DEF AppendString
  <2>3. value.items \in Seq(Tidy)
    BY <2>1, TidyLists DEF Lists
  <2>4. Append(value.items, String(s)) \in Seq(Tidy)
    BY <1>1, <2>3, AppendProperties
  <2>5. /\ Append(value.items, String(s)) \in Lists("array", Bytes, Tidy)
        /\ value' = Container("array", Append(value.items, String(s))) /\ "array" \in Kinds
    BY <2>2, <2>4 DEF Container, Kinds, Lists
  <2> QED
    BY <2>5
<1>7. CASE Wrap
  <2>1. value \in Tidy
    BY <1>7 DEF Wrap, Builds, KeepsTidy
  <2>2. CASE value' = Array(<<value>>)
    <3>1. <<value>> \in Seq(Tidy)
      BY <2>1
    <3>2. <<value>> \in Lists("array", Bytes, Tidy) /\ value' = Container("array", <<value>>)
          /\ "array" \in Kinds
      BY <2>2, <3>1 DEF Container, Kinds, Lists
    <3> QED
      BY <3>2
  <2>3. CASE \E name \in Word : value' = Object(<<Pair(name, value)>>)
    <3>1. PICK name \in Word : value' = Object(<<Pair(name, value)>>)
      BY <2>3
    <3> DEFINE p == Pair(name, value)
               new == <<p>>
    <3>2. p \in U
      BY <1>1, <2>1 DEF Pair
    <3> HIDE DEF p, U
    <3>3. new \in Seq(U) /\ Len(new) = 1 /\ DOMAIN new = {1}
      BY <3>2
    <3>4. 1 <= OBJECT_MAX_CAPACITY
      BY CapacityAssumption
    <3>5. value' = Container("object", new) /\ "object" \in Kinds
      BY <3>1 DEF Container, Kinds, p
    <3> HIDE DEF new
    <3>6. DistinctNames(new)
      BY <3>3, <3>4 DEF DistinctNames
    <3> QED
      BY <1>2, <3>3, <3>5, <3>6
  <2> QED
    BY <1>7, <2>2, <2>3 DEF Wrap
<1>8. CASE Receive \/ RefuseBody \/ UNCHANGED textvars
  <2>1. value' = value
    BY <1>8 DEF Receive, RefuseBody, textvars
  <2> QED
    BY <2>1 DEF KeepsTidy
<1>9. CASE Done
  BY <1>9 DEF Done
<1> QED
  BY <1>3, <1>4, <1>5, <1>6, <1>7, <1>8, <1>9 DEF TextNext

\* The names of every object the library holds differ, at any depth, and there
\* are no more of them than json_object_add makes room for.
THEOREM ValuesAreTidy == TextSpec => []KeepsTidy
<1>1. TextInit => KeepsTidy
  BY DEF TextInit, KeepsTidy
<1> QED
  BY <1>1, KeepsTidyStep, TextTypeCorrect, PTL DEF TextSpec

\* What json_serialize_to_string writes json_parse_string reads back, and as the
\* value it was, just when its strings have no control character without a
\* letter and it is nested no deeper than the parser goes.
THEOREM WrittenIsReadBack == TextSpec => []ReadsBack
<1>1. KeepsTidy => ReadsBack
  <2> SUFFICES ASSUME KeepsTidy, value # NoValue
               PROVE  ParseString(Written[value]) =
                        {v \in {value} :
                           /\ \A s \in Strings[value] : \A i \in DOMAIN s :
                                s[i] \in Control => s[i] \in {8, 9, 10, 12, 13}
                           /\ value \in Values[MAX_NESTING]}
    BY DEF ReadsBack
  <2> DEFINE v == value
             t == Written[v]
             plain == \A s \in Strings[v] : \A i \in DOMAIN s :
                        s[i] \in Control => s[i] \in {8, 9, 10, 12, 13}
             K == Kept(MAX_NESTING + 1)
  <2>1. v \in Tidy /\ v.type \in Kinds /\ v \in Value
    BY TidyIs DEF KeepsTidy
  <2>2. t \in Bytes /\ Agrees(t, 1, t)
    BY <2>1, WrittenBegins, AgreesSelf
  <2>3. ParseString(t) = IF v \in K THEN {v} ELSE {}
    <3> HIDE DEF v
    <3>1. v \in Tidy /\ v.type \in Kinds
      BY <2>1
    <3> DEFINE u == Written[v]
    <3>2. u \in Bytes /\ Agrees(u, 1, Written[v]) /\ Len(u) = Len(Written[v])
      BY <2>2
    <3> HIDE DEF u
    <3>3. ParseString(u) = IF v \in Kept(MAX_NESTING + 1) THEN {v} ELSE {}
      BY <3>1, <3>2, ParseStringReads
    <3> QED
      BY <3>3 DEF u
  <2>4. v \in K <=> v \in Values[MAX_NESTING] /\ Strings[v] \subseteq Printable
    <3>1. Held(MAX_NESTING + 1) = Values[MAX_NESTING]
      BY NestingAssumption, HeldNext
    <3> QED
      BY <2>1, <3>1 DEF Kept, Saying
  <2>5. Strings[v] \subseteq Printable <=> plain
    <3>1. Strings[v] \subseteq Bytes
      BY <2>1, StringsEquation
    <3>2. \A s \in Bytes : \A i \in DOMAIN s : s[i] \in Byte
      BY DEF Bytes
    <3>3. \A s \in Bytes : s \in Printable <=>
            \A i \in DOMAIN s : s[i] \in Control => s[i] \in {8, 9, 10, 12, 13}
      BY <3>2 DEF Printable, Shown
    <3> HIDE DEF v
    <3> QED
      BY <3>1, <3>3
  <2> HIDE DEF plain, K
  <2>6. ParseString(t) = {w \in {v} : plain /\ v \in Values[MAX_NESTING]}
    <3> HIDE DEF v
    <3> QED
      BY <2>3, <2>4, <2>5
  <2> QED
    BY <2>6 DEF plain
<1> QED
  BY <1>1, ValuesAreTidy, PTL

\* A body of which the end is missing is refused, wherever it breaks off: it is
\* not taken for another value.
THEOREM CutOffRefused == TextSpec => []CutOffIsRefused
<1>1. KeepsTidy => CutOffIsRefused
  <2> SUFFICES ASSUME KeepsTidy, value # NoValue, NEW n \in 0 .. Len(Written[value]) - 1
               PROVE  ParseString(SubSeq(Written[value], 1, n)) = {}
    BY DEF CutOffIsRefused
  <2> DEFINE v == value
             w == Written[v]
             m == Len(w)
             t == SubSeq(w, 1, n)
  <2>1. v \in Tidy /\ v.type \in Kinds /\ v \in Value
    BY TidyIs DEF KeepsTidy
  <2>2. w \in Seq(Byte) /\ m \in Nat /\ n \in 0 .. m - 1
    BY <2>1, WrittenBegins, Indexed DEF Bytes
  <2> HIDE DEF w
  <2>3. t \in Seq(Byte) /\ Len(t) = n /\ \A k \in 1 .. n : t[k] = w[k]
    BY <2>2
  <2> HIDE DEF t
  <2>4. Agrees(t, 1, w)
    <3>1. \A k \in 1 .. m : (1 + k) - 1 = k /\ (k <= n => k \in 1 .. n)
      BY <2>2
    <3> QED
      BY <2>3, <3>1 DEF Agrees
  <2>5. t \in Bytes /\ Len(t) < m
    <3> HIDE DEF m
    <3> QED
      BY <2>2, <2>3 DEF Bytes
  <2>6. ParseString(t) = {}
    <3>1. Agrees(t, 1, Written[v]) /\ Len(t) < Len(Written[v])
      BY <2>4, <2>5 DEF w
    <3> HIDE DEF v
    <3> QED
      BY <2>1, <2>5, <3>1, ParseStringReads
  <2> QED
    BY <2>6 DEF t, w
<1> QED
  BY <1>1, ValuesAreTidy, PTL
=============================================================================
