-------------------------- MODULE JsonParseProofs --------------------------
(***************************************************************************)
(* Proofs about the strings JsonText's parser makes of a text in UTF-8,    *)
(* and callers of theirs.  Scans, Takes and Yields say for any set of      *)
(* strings what carries over from a text to the value parsed of it.        *)
(***************************************************************************)
EXTENDS JsonTextProofs

-----------------------------------------------------------------------------
(* UTF-8. *)

LEMMA WidthType ==
  \A b \in Byte : /\ Width(b) \in 0 .. 4
                  /\ (b \in Trailing => Width(b) = 0)
                  /\ (b < 128 => Width(b) = 1 /\ b \notin Trailing)
<1> SUFFICES ASSUME NEW b \in Byte
             PROVE  /\ Width(b) \in 0 .. 4
                    /\ (b \in Trailing => Width(b) = 0)
                    /\ (b < 128 => Width(b) = 1 /\ b \notin Trailing)
  OBVIOUS
<1>1. Width(b) \in {0, 1, 2, 3, 4}
  BY DEF Width
<1>2. b \in Trailing => Width(b) = 0
  BY DEF Width, Trailing
<1>3. b < 128 => Width(b) = 1 /\ b \notin Trailing
  BY DEF Width, Trailing
<1> QED
  BY <1>1, <1>2, <1>3

\* A byte of a text in UTF-8, by what it is.
LEMMA Utf8At ==
  ASSUME NEW s \in Bytes, IsUtf8(s), NEW i \in 1 .. Len(s)
  PROVE  /\ s[i] \in Byte
         /\ s[i] \in Trailing => \E k \in 1 .. 3 : k < i /\ k < Width(s[i - k])
         /\ s[i] \notin Trailing => BeginsAt(s, i)
<1>1. i \in DOMAIN s /\ s[i] \in Byte
  BY DEF Bytes
<1> QED
  BY <1>1 DEF IsUtf8

LEMMA Utf8By ==
  ASSUME NEW s \in Bytes,
         \A i \in 1 .. Len(s) :
           /\ s[i] \in Trailing => \E k \in 1 .. 3 : k < i /\ k < Width(s[i - k])
           /\ s[i] \notin Trailing => BeginsAt(s, i)
  PROVE  IsUtf8(s)
<1>1. DOMAIN s = 1 .. Len(s)
  BY DEF Bytes
<1> QED
  BY <1>1 DEF IsUtf8

\* A character is one wherever its bytes are.
LEMMA BeginsElsewhere ==
  ASSUME NEW s \in Bytes, NEW i \in 1 .. Len(s), BeginsAt(s, i),
         NEW c \in Bytes, NEW j \in Nat \ {0},
         j + Width(s[i]) - 1 <= Len(c),
         \A k \in 0 .. Width(s[i]) - 1 : c[j + k] = s[i + k]
  PROVE  BeginsAt(c, j)
<1> DEFINE b == s[i]
           w == Width(b)
<1>1. b \in Byte
  BY DEF Bytes
<1>2. w \in 1 .. 4 /\ (b \in {224, 237} => w = 3) /\ (b \in {240, 244} => w = 4)
  <2>1. w \in 0 .. 4
    BY <1>1, WidthType
  <2>2. w > 0
    BY DEF BeginsAt
  <2>3. (b \in {224, 237} => w = 3) /\ (b \in {240, 244} => w = 4)
    BY DEF Width
  <2> HIDE DEF w, b
  <2> QED
    BY <2>1, <2>2, <2>3
<1>3. \A k \in 0 .. w - 1 : c[j + k] = s[i + k]
  OBVIOUS
<1>4. c[j] = b
  <2>1. 0 \in 0 .. w - 1 /\ j + 0 = j /\ i + 0 = i
    BY <1>2
  <2> HIDE DEF w
  <2>2. c[j + 0] = s[i + 0]
    BY <1>3, <2>1
  <2> QED
    BY <2>1, <2>2
<1>5. \A k \in 1 .. w - 1 : c[j + k] \in Trailing
  <2>1. \A k \in 1 .. w - 1 : s[i + k] \in Trailing
    BY DEF BeginsAt
  <2> HIDE DEF w, b
  <2> SUFFICES ASSUME NEW k \in 1 .. w - 1 PROVE c[j + k] \in Trailing
    OBVIOUS
  <2>2. k \in 0 .. w - 1
    BY <1>2
  <2>3. c[j + k] = s[i + k]
    BY <1>3, <2>2
  <2> QED
    BY <2>1, <2>3
<1>6. w > 2 => c[j + 1] = s[i + 1]
  <2> HIDE DEF w
  <2>1. w > 2 => 1 \in 0 .. w - 1
    BY <1>2
  <2> QED
    BY <1>3, <2>1
<1>7. /\ b \in {224, 237, 240, 244} => w > 2
      /\ j + w - 1 <= Len(c) /\ w > 0
  <2>1. j + w - 1 <= Len(c)
    OBVIOUS
  <2> HIDE DEF w, b
  <2> QED
    BY <1>2, <2>1
<1>8. /\ (b = 224 => s[i + 1] >= 160) /\ (b = 237 => s[i + 1] < 160)
      /\ (b = 240 => s[i + 1] >= 144) /\ (b = 244 => s[i + 1] < 144)
  BY DEF BeginsAt
<1>9. /\ (b = 224 => c[j + 1] >= 160) /\ (b = 237 => c[j + 1] < 160)
      /\ (b = 240 => c[j + 1] >= 144) /\ (b = 244 => c[j + 1] < 144)
  <2> HIDE DEF w, b
  <2> QED
    BY <1>6, <1>7, <1>8
<1>10. Width(c[j]) = w
  BY <1>4
<1> HIDE DEF w, b
<1> QED
  BY <1>4, <1>5, <1>7, <1>9, <1>10 DEF BeginsAt

LEMMA Utf8Join ==
  ASSUME NEW a \in Bytes, NEW b \in Bytes, IsUtf8(a), IsUtf8(b)
  PROVE  IsUtf8(a \o b)
<1> DEFINE c == a \o b
           n == Len(a)
           m == Len(b)
<1>1. /\ n \in Nat /\ m \in Nat /\ c \in Bytes /\ Len(c) = n + m
      /\ \A i \in 1 .. n : c[i] = a[i]
      /\ \A i \in 1 .. m : c[n + i] = b[i]
  BY ConcatProperties DEF Bytes
<1> HIDE DEF c
<1>2. ASSUME NEW i \in 1 .. n
      PROVE  /\ c[i] \in Trailing => \E k \in 1 .. 3 : k < i /\ k < Width(c[i - k])
             /\ c[i] \notin Trailing => BeginsAt(c, i)
  <2>1. c[i] = a[i]
    BY <1>1
  <2>2. ASSUME c[i] \in Trailing PROVE \E k \in 1 .. 3 : k < i /\ k < Width(c[i - k])
    <3>1. PICK k \in 1 .. 3 : k < i /\ k < Width(a[i - k])
      BY <2>1, <2>2, Utf8At
    <3> HIDE DEF n
    <3>2. i - k \in 1 .. n
      BY <1>1, <3>1
    <3>3. c[i - k] = a[i - k]
      BY <1>1, <3>2
    <3> QED
      BY <3>1, <3>3
  <2>3. ASSUME c[i] \notin Trailing PROVE BeginsAt(c, i)
    <3> DEFINE w == Width(a[i])
    <3>1. BeginsAt(a, i)
      BY <2>1, <2>3, Utf8At
    <3>2. w \in 0 .. 4 /\ i + w - 1 <= n
      BY <3>1, Utf8At, WidthType DEF BeginsAt
    <3> HIDE DEF w, n
    <3>3. i + w - 1 <= Len(c) /\ i \in Nat \ {0}
      BY <1>1, <3>2
    <3>4. \A k \in 0 .. w - 1 : i + k \in 1 .. n
      BY <1>1, <3>2
    <3>5. \A k \in 0 .. w - 1 : c[i + k] = a[i + k]
      BY <1>1, <3>4
    <3> QED
      BY <1>1, <3>1, <3>3, <3>5, BeginsElsewhere DEF w, n
  <2> QED
    BY <2>2, <2>3
<1>3. ASSUME NEW j \in 1 .. m
      PROVE  /\ c[n + j] \in Trailing => \E k \in 1 .. 3 : k < n + j /\ k < Width(c[(n + j) - k])
             /\ c[n + j] \notin Trailing => BeginsAt(c, n + j)
  <2>1. c[n + j] = b[j]
    BY <1>1
  <2>2. ASSUME c[n + j] \in Trailing
        PROVE  \E k \in 1 .. 3 : k < n + j /\ k < Width(c[(n + j) - k])
    <3>1. PICK k \in 1 .. 3 : k < j /\ k < Width(b[j - k])
      BY <2>1, <2>2, Utf8At
    <3> HIDE DEF n, m
    <3>2. j - k \in 1 .. m /\ (n + j) - k = n + (j - k) /\ k < n + j
      BY <1>1, <3>1
    <3>3. c[n + (j - k)] = b[j - k]
      BY <1>1, <3>2
    <3> QED
      BY <3>1, <3>2, <3>3
  <2>3. ASSUME c[n + j] \notin Trailing PROVE BeginsAt(c, n + j)
    <3> DEFINE w == Width(b[j])
    <3>1. BeginsAt(b, j)
      BY <2>1, <2>3, Utf8At
    <3>2. w \in 0 .. 4 /\ j + w - 1 <= m
      BY <3>1, Utf8At, WidthType DEF BeginsAt
    <3> HIDE DEF w, n, m
    <3>3. (n + j) + w - 1 <= Len(c) /\ n + j \in Nat \ {0}
      BY <1>1, <3>2
    <3>4. \A k \in 0 .. w - 1 : j + k \in 1 .. m /\ (n + j) + k = n + (j + k)
      BY <1>1, <3>2
    <3>5. \A k \in 0 .. w - 1 : c[(n + j) + k] = b[j + k]
      BY <1>1, <3>4
    <3> QED
      BY <1>1, <3>1, <3>3, <3>5, BeginsElsewhere DEF w, m
  <2> QED
    BY <2>2, <2>3
<1>4. \A i \in 1 .. Len(c) : i \in 1 .. n \/ (i - n \in 1 .. m /\ n + (i - n) = i)
  <2> HIDE DEF n, m
  <2> QED
    BY <1>1
<1>5. ASSUME NEW i \in 1 .. Len(c)
      PROVE  /\ c[i] \in Trailing => \E k \in 1 .. 3 : k < i /\ k < Width(c[i - k])
             /\ c[i] \notin Trailing => BeginsAt(c, i)
  <2>1. CASE i \in 1 .. n
    BY <1>2, <2>1
  <2>2. CASE i - n \in 1 .. m /\ n + (i - n) = i
    <3> HIDE DEF n, m
    <3>1. PICK j \in 1 .. m : i = n + j
      BY <2>2
    <3>2. /\ c[n + j] \in Trailing => \E k \in 1 .. 3 : k < n + j /\ k < Width(c[(n + j) - k])
          /\ c[n + j] \notin Trailing => BeginsAt(c, n + j)
      BY <1>3
    <3> QED
      BY <3>1, <3>2, Zenon
  <2> QED
    BY <1>4, <2>1, <2>2
<1> QED
  BY <1>1, <1>5, Utf8By DEF c

\* A byte of ASCII is a character of its own, wherever it is.
LEMMA Utf8Split ==
  ASSUME NEW p \in Bytes, NEW u \in Bytes, u # <<>>, u[1] < 128, IsUtf8(p \o u)
  PROVE  IsUtf8(p) /\ IsUtf8(u)
<1> DEFINE c == p \o u
           n == Len(p)
           m == Len(u)
<1>1. /\ n \in Nat /\ m \in Nat /\ m >= 1 /\ c \in Bytes /\ Len(c) = n + m
      /\ \A i \in 1 .. n : c[i] = p[i]
      /\ \A i \in 1 .. m : c[n + i] = u[i]
  BY ConcatProperties, EmptySeq DEF Bytes
<1>2. IsUtf8(c)
  OBVIOUS
<1> HIDE DEF c
<1>3. /\ n + 1 \in 1 .. Len(c) /\ c[n + 1] = u[1]
      /\ c[n + 1] \in Byte /\ c[n + 1] \notin Trailing
  <2>1. c[n + 1] = u[1] /\ u[1] \in Byte
    <3>1. 1 \in 1 .. m
      <4> HIDE DEF m
      <4> QED
        BY <1>1
    <3> QED
      BY <1>1, <3>1, Indexed
  <2>2. n + 1 \in 1 .. Len(c)
    <3> HIDE DEF n, m
    <3> QED
      BY <1>1
  <2> QED
    BY <2>1, <2>2, WidthType
<1>4. ASSUME NEW i \in 1 .. Len(c), c[i] \notin Trailing, i <= n
      PROVE  i + Width(c[i]) - 1 <= n
  <2> DEFINE w == Width(c[i])
  <2>1. w \in 0 .. 4 /\ \A k \in 1 .. w - 1 : c[i + k] \in Trailing
    BY <1>1, <1>2, <1>4, Utf8At, WidthType DEF BeginsAt
  <2> HIDE DEF w, n
  <2> SUFFICES ASSUME i + w - 1 > n PROVE FALSE
    BY <1>1, <2>1 DEF w
  <2>2. (n + 1) - i \in 1 .. w - 1 /\ i + ((n + 1) - i) = n + 1
    BY <1>1, <1>4, <2>1
  <2> QED
    BY <1>3, <2>1, <2>2
<1>5. IsUtf8(p)
  <2>1. ASSUME NEW i \in 1 .. n
        PROVE  /\ p[i] \in Trailing => \E k \in 1 .. 3 : k < i /\ k < Width(p[i - k])
               /\ p[i] \notin Trailing => BeginsAt(p, i)
    <3>0. i \in 1 .. Len(c) /\ c[i] = p[i] /\ i <= n /\ i \in Nat \ {0}
      <4>1. c[i] = p[i]
        BY <1>1
      <4> HIDE DEF n, m
      <4> QED
        BY <1>1, <4>1
    <3>1. ASSUME p[i] \in Trailing PROVE \E k \in 1 .. 3 : k < i /\ k < Width(p[i - k])
      <4>1. PICK k \in 1 .. 3 : k < i /\ k < Width(c[i - k])
        BY <1>1, <1>2, <3>0, <3>1, Utf8At
      <4> HIDE DEF n
      <4>2. i - k \in 1 .. n
        BY <1>1, <4>1
      <4>3. c[i - k] = p[i - k]
        BY <1>1, <4>2
      <4> QED
        BY <4>1, <4>3
    <3>2. ASSUME p[i] \notin Trailing PROVE BeginsAt(p, i)
      <4> DEFINE w == Width(c[i])
      <4>1. BeginsAt(c, i)
        BY <1>1, <1>2, <3>0, <3>2, Utf8At
      <4>2. w \in 0 .. 4 /\ i + w - 1 <= n
        BY <1>1, <1>2, <1>4, <3>0, <3>2, Utf8At, WidthType
      <4> HIDE DEF w, n
      <4>3. \A k \in 0 .. w - 1 : i + k \in 1 .. n
        BY <1>1, <4>2
      <4>4. \A k \in 0 .. w - 1 : p[i + k] = c[i + k]
        BY <1>1, <4>3
      <4> QED
        BY <1>1, <3>0, <4>1, <4>2, <4>4, BeginsElsewhere DEF w, n
    <3> QED
      BY <3>1, <3>2
  <2> QED
    BY <2>1, Utf8By
<1>6. IsUtf8(u)
  <2>1. ASSUME NEW j \in 1 .. m
        PROVE  /\ u[j] \in Trailing => \E k \in 1 .. 3 : k < j /\ k < Width(u[j - k])
               /\ u[j] \notin Trailing => BeginsAt(u, j)
    <3>0. n + j \in 1 .. Len(c) /\ c[n + j] = u[j] /\ j \in Nat \ {0}
      <4>1. c[n + j] = u[j]
        BY <1>1
      <4> HIDE DEF n, m
      <4> QED
        BY <1>1, <4>1
    <3>1. ASSUME u[j] \in Trailing PROVE \E k \in 1 .. 3 : k < j /\ k < Width(u[j - k])
      <4>1. PICK k \in 1 .. 3 : k < n + j /\ k < Width(c[(n + j) - k])
        BY <1>1, <1>2, <3>0, <3>1, Utf8At
      <4>2. k < j
        <5> SUFFICES ASSUME ~(k < j) PROVE FALSE
          OBVIOUS
        <5> DEFINE l == (n + j) - k
        <5> HIDE DEF n, m
        <5>1. l \in 1 .. Len(c) /\ l <= n
          BY <1>1, <4>1
        <5> HIDE DEF l
        <5>2. c[l] \notin Trailing
          <6>1. c[l] \in Byte /\ Width(c[l]) # 0
            <7>1. c[l] \in Byte
              BY <1>1, <5>1, Indexed, SMTT(30)
            <7>2. Width(c[l]) \in 0 .. 4 /\ k < Width(c[l])
              BY <4>1, <7>1, WidthType DEF l
            <7> QED
              BY <7>1, <7>2
          <6> QED
            BY <6>1, WidthType
        <5>3. l + Width(c[l]) - 1 <= n /\ Width(c[l]) \in 0 .. 4
          BY <1>1, <1>2, <1>4, <5>1, <5>2, Utf8At, WidthType
        <5> QED
          BY <1>1, <4>1, <5>1, <5>3 DEF l
      <4> HIDE DEF n, m
      <4>3. j - k \in 1 .. m /\ (n + j) - k = n + (j - k)
        BY <1>1, <4>1, <4>2
      <4>4. c[n + (j - k)] = u[j - k]
        BY <1>1, <4>3
      <4> QED
        BY <4>1, <4>2, <4>3, <4>4
    <3>2. ASSUME u[j] \notin Trailing PROVE BeginsAt(u, j)
      <4> DEFINE w == Width(c[n + j])
      <4>1. BeginsAt(c, n + j)
        BY <1>1, <1>2, <3>0, <3>2, Utf8At
      <4>2. w \in 0 .. 4 /\ (n + j) + w - 1 <= n + m
        <5>1. c[n + j] \in Byte
          BY <3>0, Indexed, <1>1
        <5>2. w \in 0 .. 4
          BY <5>1, WidthType
        <5>3. (n + j) + w - 1 <= Len(c)
          BY <4>1 DEF BeginsAt
        <5> QED
          BY <1>1, <5>2, <5>3
      <4> HIDE DEF w, n, m
      <4>3. j + w - 1 <= m /\ \A k \in 0 .. w - 1 : j + k \in 1 .. m /\ (n + j) + k = n + (j + k)
        BY <1>1, <4>2
      <4>4. \A k \in 0 .. w - 1 : u[j + k] = c[(n + j) + k]
        BY <1>1, <4>3
      <4>5. n + j \in 1 .. Len(c) /\ j \in Nat \ {0} /\ j + w - 1 <= Len(u)
        BY <3>0, <4>3 DEF m
      <4> QED
        BY <1>1, <4>1, <4>4, <4>5, BeginsElsewhere DEF w
    <3> QED
      BY <3>1, <3>2
  <2> QED
    BY <2>1, Utf8By
<1> QED
  BY <1>5, <1>6

\* What follows bytes of ASCII is in UTF-8 if the whole is.
LEMMA Utf8Drop ==
  ASSUME NEW s \in Bytes, IsUtf8(s), NEW i \in 1 .. Len(s) + 1,
         \A l \in 1 .. i - 1 : s[l] < 128
  PROVE  From(s, i) \in Bytes /\ IsUtf8(From(s, i))
<1> DEFINE u == From(s, i)
           n == Len(s)
           d == i - 1
<1>1. /\ n \in Nat /\ d \in 0 .. n /\ u \in Bytes /\ Len(u) = n - d
      /\ \A j \in 1 .. n - d : u[j] = s[d + j]
  <2>1. n \in Nat
    BY BytesFacts
  <2>2. /\ u \in Seq(Byte) /\ Len(u) = n + 1 - i
        /\ \A j \in 1 .. n + 1 - i : u[j] = s[i + j - 1]
    BY FromType DEF Bytes
  <2> HIDE DEF u
  <2>3. i \in 1 .. n + 1
    OBVIOUS
  <2> HIDE DEF n
  <2>4. d \in 0 .. n /\ n + 1 - i = n - d /\ \A j \in 1 .. n - d : i + j - 1 = d + j
    BY <2>1, <2>3
  <2> HIDE DEF d
  <2> QED
    BY <2>1, <2>2, <2>4 DEF Bytes
<1>2. \A l \in 1 .. d : s[l] < 128
  OBVIOUS
<1> HIDE DEF u, d
<1>3. ASSUME NEW j \in 1 .. n - d
      PROVE  /\ u[j] \in Trailing => \E k \in 1 .. 3 : k < j /\ k < Width(u[j - k])
             /\ u[j] \notin Trailing => BeginsAt(u, j)
  <2>0. d + j \in 1 .. n /\ u[j] = s[d + j] /\ j \in Nat \ {0} /\ s[d + j] \in Byte
    <3>1. d + j \in 1 .. n /\ j \in Nat \ {0}
      <4> HIDE DEF n
      <4> QED
        BY <1>1
    <3> QED
      BY <1>1, <3>1, Indexed
  <2>1. ASSUME u[j] \in Trailing PROVE \E k \in 1 .. 3 : k < j /\ k < Width(u[j - k])
    <3>1. PICK k \in 1 .. 3 : k < d + j /\ k < Width(s[(d + j) - k])
      BY <2>0, <2>1, Utf8At
    <3>2. k < j
      <4> SUFFICES ASSUME ~(k < j) PROVE FALSE
        OBVIOUS
      <4> DEFINE l == (d + j) - k
      <4>1. l \in 1 .. d /\ l \in 1 .. n
        <5> HIDE DEF n
        <5> QED
          BY <1>1, <3>1
      <4>2. Width(s[l]) = 1
        <5>1. s[l] \in Byte /\ s[l] < 128
          <6> HIDE DEF l
          <6> QED
            BY <1>2, <4>1, Indexed
        <5> QED
          BY <5>1, WidthType
      <4> QED
        BY <3>1, <4>2
    <3> HIDE DEF n
    <3>3. j - k \in 1 .. n - d /\ (d + j) - k = d + (j - k)
      BY <1>1, <3>1, <3>2
    <3>4. u[j - k] = s[d + (j - k)]
      BY <1>1, <3>3
    <3> QED
      BY <3>1, <3>2, <3>3, <3>4
  <2>2. ASSUME u[j] \notin Trailing PROVE BeginsAt(u, j)
    <3> DEFINE w == Width(s[d + j])
    <3>1. BeginsAt(s, d + j)
      BY <2>0, <2>2, Utf8At
    <3>2. w \in 0 .. 4 /\ (d + j) + w - 1 <= n
      <4>1. w \in 0 .. 4
        BY <2>0, WidthType
      <4>2. (d + j) + w - 1 <= n
        BY <3>1 DEF BeginsAt
      <4> QED
        BY <4>1, <4>2
    <3> HIDE DEF w, n
    <3>3. /\ j + w - 1 <= n - d
          /\ \A k \in 0 .. w - 1 : j + k \in 1 .. n - d /\ (d + j) + k = d + (j + k)
      BY <1>1, <3>2
    <3>4. \A k \in 0 .. w - 1 : u[j + k] = s[(d + j) + k]
      BY <1>1, <3>3
    <3>5. d + j \in 1 .. Len(s) /\ j \in Nat \ {0} /\ j + w - 1 <= Len(u)
      BY <1>1, <2>0, <3>3 DEF n
    <3> HIDE DEF d, u
    <3> QED
      BY <1>1, <3>1, <3>4, <3>5, BeginsElsewhere DEF w
  <2> QED
    BY <2>1, <2>2
<1>4. IsUtf8(u)
  <2>1. \A j \in 1 .. Len(u) :
          /\ u[j] \in Trailing => \E k \in 1 .. 3 : k < j /\ k < Width(u[j - k])
          /\ u[j] \notin Trailing => BeginsAt(u, j)
    BY <1>1, <1>3
  <2> QED
    BY <1>1, <2>1, Utf8By
<1> QED
  BY <1>1, <1>4 DEF u

-----------------------------------------------------------------------------
(* Characters. *)

LEMMA Utf8One ==
  ASSUME NEW a \in Byte, a < 128
  PROVE  IsUtf8(<<a>>)
<1> DEFINE s == <<a>>
<1>1. s \in Bytes /\ Len(s) = 1 /\ s[1] = a
  BY BytesOf
<1> HIDE DEF s
<1>2. BeginsAt(s, 1)
  BY <1>1, WidthType DEF BeginsAt
<1>3. \A i \in 1 .. Len(s) : i = 1
  BY <1>1
<1>4. s[1] \notin Trailing
  BY <1>1, WidthType
<1>5. IsUtf8(s)
  BY <1>1, <1>2, <1>3, <1>4, Utf8By
<1> QED
  BY <1>5 DEF s

LEMMA Utf8Two ==
  ASSUME NEW a \in 194 .. 223, NEW b \in Trailing
  PROVE  IsUtf8(<<a, b>>)
<1> DEFINE s == <<a, b>>
<1>0. a \in Byte /\ b \in Byte
  BY DEF Byte, Trailing
<1>1. s \in Bytes /\ Len(s) = 2 /\ s[1] = a /\ s[2] = b
  BY <1>0, BytesOf
<1> HIDE DEF s
<1>2. Width(s[1]) = 2 /\ s[1] \notin Trailing /\ s[1] \notin {224, 237, 240, 244}
  BY <1>1 DEF Width, Trailing
<1>3. BeginsAt(s, 1)
  BY <1>1, <1>2 DEF BeginsAt
<1>4. \A i \in 1 .. Len(s) : i \in {1, 2}
  BY <1>1
<1>5. \E k \in 1 .. 3 : k < 2 /\ k < Width(s[2 - k])
  <2>1. 1 \in 1 .. 3 /\ 1 < 2 /\ 2 - 1 = 1 /\ 1 < Width(s[1])
    BY <1>2
  <2> QED
    BY <2>1
<1>6. ASSUME NEW i \in 1 .. Len(s)
      PROVE  /\ s[i] \in Trailing => \E k \in 1 .. 3 : k < i /\ k < Width(s[i - k])
             /\ s[i] \notin Trailing => BeginsAt(s, i)
  <2>1. CASE i = 1
    BY <1>2, <1>3, <2>1
  <2>2. CASE i = 2
    BY <1>1, <1>5, <2>2
  <2> QED
    BY <1>4, <2>1, <2>2
<1>7. IsUtf8(s)
  BY <1>1, <1>6, Utf8By
<1> QED
  BY <1>7 DEF s

LEMMA Utf8Three ==
  ASSUME NEW a \in 224 .. 239, NEW b \in Trailing, NEW c \in Trailing,
         a = 224 => b >= 160, a = 237 => b < 160
  PROVE  IsUtf8(<<a, b, c>>)
<1> DEFINE s == <<a, b, c>>
<1>0. a \in Byte /\ b \in Byte /\ c \in Byte
  BY DEF Byte, Trailing
<1>1. s \in Bytes /\ Len(s) = 3 /\ s[1] = a /\ s[2] = b /\ s[3] = c
  BY <1>0, BytesOf
<1> HIDE DEF s
<1>2. Width(s[1]) = 3 /\ s[1] \notin Trailing /\ s[1] \notin {240, 244}
  BY <1>1 DEF Width, Trailing
<1>3. BeginsAt(s, 1)
  <2>1. \A k \in 1 .. 2 : s[1 + k] \in Trailing
    <3>1. \A k \in 1 .. 2 : k = 1 \/ k = 2
      OBVIOUS
    <3>2. s[1 + 1] \in Trailing /\ s[1 + 2] \in Trailing
      BY <1>1
    <3> QED
      BY <3>1, <3>2
  <2> QED
    BY <1>1, <1>2, <2>1 DEF BeginsAt
<1>4. \A i \in 1 .. Len(s) : i \in {1, 2, 3}
  BY <1>1
<1>5. \A i \in {2, 3} : \E k \in 1 .. 3 : k < i /\ k < Width(s[i - k])
  <2>1. 1 \in 1 .. 3 /\ 1 < 2 /\ 2 - 1 = 1 /\ 1 < Width(s[1])
    BY <1>2
  <2>2. 2 \in 1 .. 3 /\ 2 < 3 /\ 3 - 2 = 1 /\ 2 < Width(s[1])
    BY <1>2
  <2> QED
    BY <2>1, <2>2
<1>6. ASSUME NEW i \in 1 .. Len(s)
      PROVE  /\ s[i] \in Trailing => \E k \in 1 .. 3 : k < i /\ k < Width(s[i - k])
             /\ s[i] \notin Trailing => BeginsAt(s, i)
  <2>1. CASE i = 1
    BY <1>2, <1>3, <2>1
  <2>2. CASE i \in {2, 3}
    <3>1. s[i] \in Trailing
      BY <1>1, <2>2
    <3>2. \E k \in 1 .. 3 : k < i /\ k < Width(s[i - k])
      BY <1>5, <2>2
    <3> QED
      BY <3>1, <3>2
  <2> QED
    BY <1>4, <2>1, <2>2
<1>7. IsUtf8(s)
  BY <1>1, <1>6, Utf8By
<1> QED
  BY <1>7 DEF s

LEMMA Utf8Four ==
  ASSUME NEW a \in 240 .. 244, NEW b \in Trailing, NEW c \in Trailing, NEW d \in Trailing,
         a = 240 => b >= 144, a = 244 => b < 144
  PROVE  IsUtf8(<<a, b, c, d>>)
<1> DEFINE s == <<a, b, c, d>>
<1>0. a \in Byte /\ b \in Byte /\ c \in Byte /\ d \in Byte
  BY DEF Byte, Trailing
<1>1. s \in Bytes /\ Len(s) = 4 /\ s[1] = a /\ s[2] = b /\ s[3] = c /\ s[4] = d
  BY <1>0, BytesOf
<1> HIDE DEF s
<1>2. Width(s[1]) = 4 /\ s[1] \notin Trailing /\ s[1] \notin {224, 237}
  BY <1>1 DEF Width, Trailing
<1>3. BeginsAt(s, 1)
  <2>1. \A k \in 1 .. 3 : s[1 + k] \in Trailing
    <3>1. \A k \in 1 .. 3 : k = 1 \/ k = 2 \/ k = 3
      OBVIOUS
    <3>2. s[1 + 1] \in Trailing /\ s[1 + 2] \in Trailing /\ s[1 + 3] \in Trailing
      BY <1>1
    <3> QED
      BY <3>1, <3>2
  <2> QED
    BY <1>1, <1>2, <2>1 DEF BeginsAt
<1>4. \A i \in 1 .. Len(s) : i \in {1, 2, 3, 4}
  BY <1>1
<1>5. \A i \in {2, 3, 4} : \E k \in 1 .. 3 : k < i /\ k < Width(s[i - k])
  <2>1. 1 \in 1 .. 3 /\ 1 < 2 /\ 2 - 1 = 1 /\ 1 < Width(s[1])
    BY <1>2
  <2>2. 2 \in 1 .. 3 /\ 2 < 3 /\ 3 - 2 = 1 /\ 2 < Width(s[1])
    BY <1>2
  <2>3. 3 \in 1 .. 3 /\ 3 < 4 /\ 4 - 3 = 1 /\ 3 < Width(s[1])
    BY <1>2
  <2> QED
    BY <2>1, <2>2, <2>3
<1>6. ASSUME NEW i \in 1 .. Len(s)
      PROVE  /\ s[i] \in Trailing => \E k \in 1 .. 3 : k < i /\ k < Width(s[i - k])
             /\ s[i] \notin Trailing => BeginsAt(s, i)
  <2>1. CASE i = 1
    BY <1>2, <1>3, <2>1
  <2>2. CASE i \in {2, 3, 4}
    <3>1. s[i] \in Trailing
      BY <1>1, <2>2
    <3>2. \E k \in 1 .. 3 : k < i /\ k < Width(s[i - k])
      BY <1>5, <2>2
    <3> QED
      BY <3>1, <3>2
  <2> QED
    BY <1>4, <2>1, <2>2
<1>7. IsUtf8(s)
  BY <1>1, <1>6, Utf8By
<1> QED
  BY <1>7 DEF s

\* What parse_utf_16 writes for a character is that character in UTF-8.
LEMMA Utf8Char ==
  ASSUME NEW cp \in Character
  PROVE  Utf8(cp) \in Bytes /\ IsUtf8(Utf8(cp))
<1> DEFINE o == cp \div 64
           oo == o \div 64
           ooo == oo \div 64
           tail(n) == 128 + (n % 64)
<1>0. cp \in Nat /\ o \div 1024 <= 16 /\ cp \in CodePoint
  BY DEF Character, CodePoint
<1>1. o \in Nat /\ oo \in Nat /\ ooo \in Nat
  BY <1>0
<1>2. \A n \in Nat : tail(n) \in Trailing
  BY DEF Trailing
<1>3. CASE cp < 128
  <2>1. cp \in Byte /\ Utf8(cp) = <<cp>>
    BY <1>0, <1>3 DEF Byte, Utf8
  <2> QED
    BY <1>3, <2>1, Utf8One, BytesOf
<1>4. CASE ~(cp < 128) /\ o < 32
  <2>1. Utf8(cp) = <<192 + o, tail(cp)>>
    BY <1>4 DEF Utf8
  <2>2. o >= 2
    BY <1>0, <1>4
  <2> HIDE DEF o, tail
  <2>3. 192 + o \in 194 .. 223
    BY <1>1, <1>4, <2>2
  <2> QED
    BY <1>0, <1>2, <2>1, <2>3, Utf8Two, Utf8Type
<1>5. CASE ~(cp < 128) /\ ~(o < 32) /\ oo < 16
  <2>1. Utf8(cp) = <<224 + oo, tail(o), tail(cp)>>
    BY <1>5 DEF Utf8
  <2>2. oo = 0 => o % 64 >= 32
    <3> HIDE DEF o
    <3> QED
      BY <1>1, <1>5
  <2>3. oo = 13 => o % 64 < 32
    <3>1. cp \div 1024 # 54 /\ cp \div 1024 # 55
      BY DEF Character, IsLead, IsTrail
    <3>2. cp \div 1024 = o \div 16
      BY <1>0
    <3> HIDE DEF o
    <3> SUFFICES ASSUME oo = 13, ~(o % 64 < 32) PROVE FALSE
      OBVIOUS
    <3>3. o \in 864 .. 895
      BY <1>1
    <3> QED
      BY <3>1, <3>2, <3>3
  <2>4. tail(o) = 128 + (o % 64) /\ o % 64 \in Nat
    BY <1>1
  <2> HIDE DEF o, oo, tail
  <2>5. 224 + oo \in 224 .. 239
    BY <1>1, <1>5
  <2>6. (224 + oo = 224 => tail(o) >= 160) /\ (224 + oo = 237 => tail(o) < 160)
    BY <1>1, <2>2, <2>3, <2>4
  <2> QED
    BY <1>0, <1>1, <1>2, <2>1, <2>5, <2>6, Utf8Three, Utf8Type
<1>6. CASE ~(cp < 128) /\ ~(o < 32) /\ ~(oo < 16)
  <2>1. Utf8(cp) = <<240 + ooo, tail(oo), tail(o), tail(cp)>>
    BY <1>6 DEF Utf8
  <2>2. oo <= 271
    <3> HIDE DEF o
    <3> QED
      BY <1>0, <1>1
  <2>3. ooo <= 4 /\ (ooo = 0 => oo % 64 >= 16) /\ (ooo = 4 => oo % 64 < 16)
    <3> HIDE DEF oo
    <3> QED
      BY <1>1, <1>6, <2>2
  <2>4. tail(oo) = 128 + (oo % 64) /\ oo % 64 \in Nat
    BY <1>1
  <2> HIDE DEF o, oo, ooo, tail
  <2>5. 240 + ooo \in 240 .. 244
    BY <1>1, <2>3
  <2>6. (240 + ooo = 240 => tail(oo) >= 144) /\ (240 + ooo = 244 => tail(oo) < 144)
    BY <1>1, <2>3, <2>4
  <2> QED
    BY <1>0, <1>1, <1>2, <2>1, <2>5, <2>6, Utf8Four, Utf8Type
<1> QED
  BY <1>3, <1>4, <1>5, <1>6

-----------------------------------------------------------------------------
(* process_string keeps to UTF-8. *)

LEMMA NoBytes == <<>> \in Bytes /\ Len(<<>>) = 0 /\ IsUtf8(<<>>)
<1>1. <<>> \in Bytes /\ Len(<<>>) = 0
  BY DEF Bytes
<1>2. \A i \in 1 .. Len(<<>>) : FALSE
  BY <1>1
<1>3. DOMAIN <<>> = 1 .. Len(<<>>)
  OBVIOUS
<1> QED
  BY <1>1, <1>2, <1>3 DEF IsUtf8

LEMMA Associative ==
  ASSUME NEW a \in Bytes, NEW b \in Bytes, NEW c \in Bytes
  PROVE  (a \o b) \o c = a \o (b \o c)
BY ConcatAssociative DEF Bytes

LEMMA Joined == \A a, b \in Bytes : a \o b \in Bytes
BY ConcatProperties DEF Bytes

LEMMA JoinedLength == \A a, b \in Bytes : Len(a \o b) = Len(a) + Len(b)
BY ConcatProperties DEF Bytes

\* A byte is moved from a string to what stands before it.
LEMMA ByteMoved ==
  ASSUME NEW p \in Bytes, NEW a \in Bytes, NEW b \in Bytes, NEW c \in Bytes,
         IsUtf8(p \o (a \o b)), \A q \in Bytes : IsUtf8(q \o b) => IsUtf8(q \o c)
  PROVE  IsUtf8(p \o (a \o c))
<1>1. p \o a \in Bytes
  BY Joined
<1>2. (p \o a) \o b = p \o (a \o b)
  BY Associative
<1>3. (p \o a) \o c = p \o (a \o c)
  BY Associative
<1>4. IsUtf8((p \o a) \o b)
  BY <1>2
<1>5. IsUtf8((p \o a) \o c)
  BY <1>1, <1>4
<1> QED
  BY <1>3, <1>5

LEMMA Cut ==
  ASSUME NEW u \in Bytes, NEW n \in 0 .. Len(u)
  PROVE  /\ SubSeq(u, 1, n) \in Bytes /\ From(u, n + 1) \in Bytes
         /\ u = SubSeq(u, 1, n) \o From(u, n + 1)
         /\ Len(SubSeq(u, 1, n)) = n /\ Len(From(u, n + 1)) = Len(u) - n
         /\ \A i \in 1 .. n : SubSeq(u, 1, n)[i] = u[i]
         /\ \A i \in 1 .. Len(u) - n : From(u, n + 1)[i] = u[n + i]
<1> DEFINE m == Len(u)
<1>0. m \in Nat /\ n \in 0 .. m
  BY BytesFacts
<1>1. SubSeq(u, 1, n) \o From(u, n + 1) = u
  <2>1. SubSeq(u, 1, n) \o SubSeq(u, n + 1, m) = SubSeq(u, 1, m)
    <3>1. 1 \in 1 .. m + 1 /\ n \in 1 - 1 .. m /\ m \in n .. m
      <4> HIDE DEF m
      <4> QED
        BY <1>0
    <3> QED
      BY <3>1, ConcatAdjacentSubSeq DEF Bytes
  <2>2. SubSeq(u, 1, m) = u
    BY SubSeqFull DEF Bytes
  <2> QED
    BY <2>1, <2>2 DEF From
<1>2. \A k \in 1 .. n : u[k] \in Byte
  <2>1. \A k \in 1 .. n : k \in Nat /\ 1 <= k /\ k <= m
    <3> HIDE DEF m
    <3> QED
      BY <1>0
  <2> QED
    BY <2>1, Indexed
<1>3. /\ SubSeq(u, 1, n) \in Bytes /\ Len(SubSeq(u, 1, n)) = n
      /\ \A i \in 1 .. n : SubSeq(u, 1, n)[i] = u[i]
  <2>1. /\ SubSeq(u, 1, n) \in Seq(Byte)
        /\ Len(SubSeq(u, 1, n)) = IF 1 <= n THEN n - 1 + 1 ELSE 0
        /\ \A i \in 1 .. n - 1 + 1 : SubSeq(u, 1, n)[i] = u[1 + i - 1]
    BY <1>0, <1>2, SubSeqProperties
  <2> DEFINE a == SubSeq(u, 1, n)
  <2> HIDE DEF a, m
  <2>2. n - 1 + 1 = n /\ (~(1 <= n) => n = 0) /\ \A i \in 1 .. n : 1 + i - 1 = i
    BY <1>0
  <2> QED
    BY <2>1, <2>2 DEF Bytes, a
<1>4. /\ From(u, n + 1) \in Bytes /\ Len(From(u, n + 1)) = m - n
      /\ \A i \in 1 .. m - n : From(u, n + 1)[i] = u[n + i]
  <2>1. n + 1 \in 1 .. m + 1
    <3> HIDE DEF m
    <3> QED
      BY <1>0
  <2>2. /\ From(u, n + 1) \in Seq(Byte) /\ Len(From(u, n + 1)) = m + 1 - (n + 1)
        /\ \A i \in 1 .. m + 1 - (n + 1) : From(u, n + 1)[i] = u[(n + 1) + i - 1]
    BY <2>1, FromType DEF Bytes
  <2> DEFINE b == From(u, n + 1)
  <2> HIDE DEF b, m
  <2>3. m + 1 - (n + 1) = m - n /\ \A i \in 1 .. m - n : (n + 1) + i - 1 = n + i
    BY <1>0
  <2> QED
    BY <2>2, <2>3 DEF Bytes, b
<1> QED
  BY <1>1, <1>3, <1>4

LEMMA NibbleAscii == \A b \in Byte : Nibble(b) < 16 => b < 128
<1> SUFFICES ASSUME NEW b \in Byte, ~(b < 128) PROVE Nibble(b) = 16
  BY NibbleType
<1>1. b \notin Digit /\ b \notin 97 .. 102 /\ b \notin 65 .. 70
  BY DEF Digit, Byte
<1> QED
  BY <1>1 DEF Nibble

LEMMA Hex4Ascii ==
  ASSUME NEW s \in Bytes, NEW i \in Index, IsHex4(s, i)
  PROVE  \A j \in i .. i + 3 : s[j] < 128
<1>1. /\ i + 3 <= Len(s)
      /\ \A j \in i .. i + 3 : Nibble(s[j]) < 16
  BY Indexed DEF IsHex4, Index
<1> SUFFICES ASSUME NEW j \in i .. i + 3 PROVE s[j] < 128
  OBVIOUS
<1>2. j \in Nat /\ 1 <= j /\ j <= Len(s)
  BY <1>1, Indexed DEF Index
<1>3. s[j] \in Byte
  BY <1>2, Indexed
<1> QED
  BY <1>1, <1>3, NibbleAscii

\* A backslash and what is read with it are bytes of ASCII.
LEMMA EscapeAscii ==
  ASSUME NEW s \in Bytes, s # <<>>, s[1] = BACKSLASH, NEW r \in ReadOne(s)
  PROVE  \A i \in 1 .. r.takes : s[i] < 128
<1>0. r \in ReadEscape(s) /\ Len(s) # 1 /\ s[1] < 128 /\ 3 \in Index /\ 9 \in Index
  <2>1. r \in ReadEscape(s)
    BY DEF ReadOne
  <2>2. Len(s) # 1
    BY <2>1 DEF ReadEscape
  <2>3. s[1] < 128
    BY DEF BACKSLASH
  <2>4. 3 \in Index /\ 9 \in Index
    BY DEF Index
  <2> QED
    BY <2>1, <2>2, <2>3, <2>4
<1>1. CASE s[2] = LETTER_U
  <2> DEFINE cp == Hex4(s, 3)
             paired == Len(s) >= 8 /\ s[7] = BACKSLASH /\ s[8] = LETTER_U /\ IsHex4(s, 9)
  <2>1. r \in Utf16(s) /\ s[2] < 128
    BY <1>0, <1>1 DEF ReadEscape, LETTER_U
  <2>2. IsHex4(s, 3)
    BY <2>1 DEF Utf16
  <2>3. \A i \in 1 .. 6 : s[i] < 128
    <3>1. \A j \in 3 .. 3 + 3 : s[j] < 128
      BY <1>0, <2>2, Hex4Ascii
    <3>2. \A i \in 1 .. 6 : i = 1 \/ i = 2 \/ i \in 3 .. 3 + 3
      OBVIOUS
    <3> QED
      BY <1>0, <2>1, <3>1, <3>2
  <2>4. CASE ~IsLead(cp) /\ ~IsTrail(cp)
    <3>1. r = Read(Utf8(cp), 6)
      BY <2>1, <2>2, <2>4 DEF Utf16
    <3>2. r.takes = 6
      BY <3>1 DEF Read
    <3> QED
      BY <2>3, <3>2
  <2>5. CASE IsLead(cp) /\ paired /\ IsTrail(Hex4(s, 9))
    <3> DEFINE c == 1024 * (64 + (cp % 1024)) + (Hex4(s, 9) % 1024)
    <3>1. r = Read(Utf8(c), 12)
      <4>1. ~(~IsLead(cp) /\ ~IsTrail(cp))
        BY <2>5
      <4> QED
        BY <2>1, <2>2, <2>5, <4>1 DEF Utf16
    <3>2. r.takes = 12
      BY <3>1 DEF Read
    <3>3. \A j \in 9 .. 9 + 3 : s[j] < 128
      BY <1>0, <2>5, Hex4Ascii
    <3>4. s[7] < 128 /\ s[8] < 128
      BY <2>5 DEF BACKSLASH, LETTER_U
    <3>5. \A i \in 1 .. 12 : i \in 1 .. 6 \/ i = 7 \/ i = 8 \/ i \in 9 .. 9 + 3
      OBVIOUS
    <3> QED
      BY <2>3, <3>2, <3>3, <3>4, <3>5
  <2>6. CASE (IsLead(cp) \/ IsTrail(cp)) /\ ~(IsLead(cp) /\ paired /\ IsTrail(Hex4(s, 9)))
    <3>1. Utf16(s) = {}
      BY <2>2, <2>6, SMT DEF Utf16
    <3> QED
      BY <2>1, <3>1
  <2> QED
    BY <2>4, <2>5, <2>6
<1>2. CASE s[2] # LETTER_U
  <2>1. \/ \E b \in DOMAIN Letter : r = Read(<<b>>, 2) /\ Letter[b] = s[2]
        \/ r = Read(<<SLASH>>, 2) /\ s[2] = SLASH
    BY <1>0, <1>2 DEF ReadEscape
  <2>2. r.takes = 2
    BY <2>1 DEF Read
  <2>3. s[2] < 128
    <3>1. \A b \in DOMAIN Letter : Letter[b] < 128
      BY DEF Letter, QUOTE, BACKSLASH
    <3>2. CASE \E b \in DOMAIN Letter : Letter[b] = s[2]
      <4> HIDE DEF Letter
      <4> QED
        BY <3>1, <3>2, Zenon
    <3>3. CASE s[2] = SLASH
      BY <3>3 DEF SLASH
    <3> QED
      BY <2>1, <3>2, <3>3, Zenon
  <2>4. \A i \in 1 .. 2 : i = 1 \/ i = 2
    OBVIOUS
  <2> QED
    BY <1>0, <2>2, <2>3, <2>4
<1> QED
  BY <1>1, <1>2

\* What is written for one read: a character, unless it is the byte itself.
LEMMA EscapeUtf8 ==
  ASSUME NEW s \in Bytes, s # <<>>, s[1] = BACKSLASH, NEW r \in ReadOne(s)
  PROVE  r.bytes \in Bytes /\ IsUtf8(r.bytes)
<1>1. \/ \E b \in DOMAIN Letter \cup {SLASH} : r.bytes = <<b>>
      \/ \E cp \in Character : r.bytes = Utf8(cp)
  BY ReadOneReads
<1>2. ASSUME NEW b \in DOMAIN Letter \cup {SLASH} PROVE <<b>> \in Bytes /\ IsUtf8(<<b>>)
  <2>1. b \in Byte /\ b < 128
    BY DEF Letter, SLASH, QUOTE, BACKSLASH, Byte
  <2> QED
    BY <2>1, Utf8One, BytesOf
<1> QED
  BY <1>1, <1>2, Utf8Char

\* If a string is in UTF-8, with what stands before it, what process_string makes
\* of it is so too.
LEMMA ProcessedUtf8 ==
  ASSUME NEW u \in Bytes, NEW p \in Bytes, IsUtf8(p \o u), NEW x \in Processed[u]
  PROVE  IsUtf8(p \o x)
<1> DEFINE rank == [v \in Bytes |-> Len(v)]
           T == {v \in Bytes : \A q \in Bytes : IsUtf8(q \o v) =>
                                 \A y \in Processed[v] : IsUtf8(q \o y)}
<1>1. rank \in [Bytes -> Nat] /\ \A v \in Bytes : rank[v] = Len(v)
  BY BytesFacts
<1>2. ASSUME NEW v \in Bytes, \A w \in Bytes : rank[w] < rank[v] => w \in T
      PROVE  v \in T
  <2> SUFFICES ASSUME NEW q \in Bytes, IsUtf8(q \o v), NEW y \in Processed[v]
               PROVE  IsUtf8(q \o y)
    OBVIOUS
  <2>1. y \in ProcessedBy(v, Processed)
    BY ProcessedEquation
  <2>2. CASE v = <<>>
    BY <2>1, <2>2 DEF ProcessedBy
  <2>3. CASE v # <<>>
    <3> DEFINE read(r) == {r.bytes \o rest : rest \in Processed[From(v, r.takes + 1)]}
    <3>1. PICK r \in ReadOne(v) : y \in read(r)
      BY <2>1, <2>3, Zenon DEF ProcessedBy
    <3>2. PICK rest \in Processed[From(v, r.takes + 1)] : y = r.bytes \o rest
      BY <3>1
    <3> DEFINE w == From(v, r.takes + 1)
    <3>3. r.bytes \in Bytes /\ w \in Bytes /\ Len(w) < Len(v)
      BY <2>3, RestShorter
    <3>4. rest \in Bytes
      BY <3>2, <3>3, ProcessedEquation
    <3>5. w \in T
      BY <1>1, <1>2, <3>3
    <3>6. \A o \in Bytes : IsUtf8(o \o w) => IsUtf8(o \o rest)
      BY <3>2, <3>5
    <3>7. r.takes \in 1 .. Len(v)
      BY <2>3, ReadOneType
    <3> HIDE DEF T, rank
    <3>8. CASE r.bytes = <<v[1]>> /\ r.takes = 1
      <4> DEFINE h == <<v[1]>>
      <4>1. v = h \o w /\ h \in Bytes
        <5>1. 1 \in 0 .. Len(v)
          BY <3>7, <3>8, Indexed
        <5>2. v = SubSeq(v, 1, 1) \o From(v, 1 + 1) /\ SubSeq(v, 1, 1) \in Bytes
              /\ Len(SubSeq(v, 1, 1)) = 1 /\ \A i \in 1 .. 1 : SubSeq(v, 1, 1)[i] = v[i]
          BY <5>1, Cut
        <5>3. SubSeq(v, 1, 1) = h
          <6> DEFINE a == SubSeq(v, 1, 1)
          <6>1. a \in Seq(Byte) /\ Len(a) = 1 /\ a[1] = v[1]
            BY <5>2 DEF Bytes
          <6> HIDE DEF a
          <6>2. a = <<v[1]>>
            BY <6>1
          <6> QED
            BY <6>2 DEF a
        <5> QED
          BY <3>3, <3>8, <5>2, <5>3
      <4> HIDE DEF w, h
      <4>2. IsUtf8(q \o (h \o rest))
        <5>1. w \in Bytes /\ h \in Bytes /\ rest \in Bytes
          BY <3>3, <3>4, <4>1
        <5>2. IsUtf8(q \o (h \o w)) /\ \A o \in Bytes : IsUtf8(o \o w) => IsUtf8(o \o rest)
          BY <3>6, <4>1 DEF w
        <5> QED
          BY <5>1, <5>2, ByteMoved
      <4>3. y = h \o rest
        BY <3>2, <3>8 DEF h
      <4> QED
        BY <4>2, <4>3
    <3>9. CASE v[1] = BACKSLASH
      <4>1. IsUtf8(q) /\ IsUtf8(v)
        <5>1. v[1] < 128
          BY <3>9 DEF BACKSLASH
        <5> QED
          BY <2>3, <5>1, Utf8Split
      <4>2. IsUtf8(w)
        <5>1. \A i \in 1 .. r.takes : v[i] < 128
          BY <2>3, <3>9, EscapeAscii
        <5> DEFINE k == r.takes
                   n == Len(v)
        <5>2. k + 1 \in 1 .. n + 1 /\ (k + 1) - 1 = k
          <6>1. k \in 1 .. n /\ n \in Nat
            BY <3>7, BytesFacts
          <6> HIDE DEF k, n
          <6> QED
            BY <6>1
        <5>3. \A l \in 1 .. (k + 1) - 1 : v[l] < 128
          BY <5>1, <5>2
        <5> HIDE DEF k
        <5>4. IsUtf8(From(v, k + 1))
          BY <4>1, <5>2, <5>3, Utf8Drop
        <5> QED
          BY <5>4 DEF k
      <4> HIDE DEF w
      <4>3. IsUtf8(rest)
        <5>1. <<>> \in Bytes /\ <<>> \o w = w /\ <<>> \o rest = rest
          BY <3>3, <3>4, NoBytes, ConcatEmptySeq DEF Bytes
        <5> QED
          BY <3>6, <4>2, <5>1 DEF w
      <4>4. IsUtf8(r.bytes)
        BY <2>3, <3>9, EscapeUtf8
      <4>5. y \in Bytes /\ IsUtf8(y)
        BY <3>2, <3>3, <3>4, <4>3, <4>4, Utf8Join, ConcatProperties DEF Bytes
      <4> QED
        BY <4>1, <4>5, Utf8Join
    <3> QED
      BY <2>3, <3>8, <3>9, ReadOneReads
  <2> QED
    BY <2>2, <2>3
<1> HIDE DEF T
<1>3. Bytes \subseteq T
  <2> HIDE DEF rank
  <2> QED
    BY <1>1, <1>2, RankInduction, SMTT(30)
<1> QED
  BY <1>3 DEF T

\* What strlen cuts off begins with a NUL.
LEMMA CStringUtf8 ==
  ASSUME NEW s \in Bytes, NEW p \in Bytes, IsUtf8(p \o s)
  PROVE  IsUtf8(p \o CString(s))
<1>1. PICK n \in 0 .. Len(s) : CString(s) = SubSeq(s, 1, n) /\ (n < Len(s) => s[n + 1] = 0)
  BY CStringShape
<1> DEFINE m == Len(s)
           a == SubSeq(s, 1, n)
           b == From(s, n + 1)
<1>2. /\ a \in Bytes /\ b \in Bytes /\ s = a \o b
      /\ Len(b) = m - n /\ \A i \in 1 .. m - n : b[i] = s[n + i]
  BY Cut
<1>3. m \in Nat /\ n \in 0 .. m
  BY BytesFacts
<1> HIDE DEF a, b, m
<1>4. p \o s = (p \o a) \o b /\ p \o a \in Bytes
  BY <1>2, Joined, Associative
<1>5. CASE n < m
  <2>1. 1 \in 1 .. m - n
    BY <1>3, <1>5
  <2>2. b # <<>> /\ b[1] < 128
    <3>1. b[1] = 0
      BY <1>1, <1>2, <1>5, <2>1 DEF m
    <3>2. Len(b) # 0
      BY <1>2, <1>3, <1>5
    <3> QED
      BY <3>1, <3>2, NoBytes
  <2>3. IsUtf8(p \o a)
    BY <1>2, <1>4, <2>2, Utf8Split
  <2> QED
    BY <1>1, <2>3 DEF a
<1>6. CASE n = m
  <2>1. b = <<>>
    <3>1. Len(b) = 0
      BY <1>2, <1>3, <1>6
    <3> QED
      BY <1>2, <3>1, EmptySeq DEF Bytes
  <2>2. s = a
    BY <1>2, <2>1, ConcatEmptySeq DEF Bytes
  <2> QED
    BY <1>1, <2>2 DEF a
<1> QED
  BY <1>3, <1>5, <1>6

-----------------------------------------------------------------------------
(* Where the characters of a text begin. *)

\* The positions behind which the text is in UTF-8.
Boundary(t) == {i \in Index : i <= Len(t) + 1 /\ IsUtf8(From(t, i))}

LEMMA BehindByte ==
  ASSUME NEW b \in Byte, NEW c \in Bytes
  PROVE  From(<<b>> \o c, 2) = c
<1> DEFINE a == <<b>>
           u == a \o c
           d == SubSeq(u, 1, 1)
<1>1. a \in Bytes /\ Len(a) = 1 /\ a[1] = b
  BY BytesOf
<1> HIDE DEF a
<1>2. u \in Bytes /\ Len(u) = 1 + Len(c) /\ u[1] = b /\ Len(c) \in Nat
  <2>1. u \in Bytes /\ Len(u) = 1 + Len(c) /\ Len(c) \in Nat
    BY <1>1, Joined, JoinedLength, BytesOf, Indexed
  <2>2. u[1] = a[1]
    <3>1. \A i \in 1 .. Len(a) : u[i] = a[i]
      BY <1>1, ConcatProperties DEF Bytes
    <3> HIDE DEF u
    <3> QED
      BY <1>1, <3>1
  <2> QED
    BY <1>1, <2>1, <2>2
<1> HIDE DEF u
<1>3. d \in Bytes /\ Len(d) = 1 /\ d[1] = u[1] /\ u = d \o From(u, 2) /\ From(u, 2) \in Bytes
  <2>1. 1 \in 0 .. Len(u) /\ 1 + 1 = 2 /\ 1 \in 1 .. 1
    BY <1>2
  <2>2. d \in Bytes /\ Len(d) = 1 /\ d[1] = u[1]
    BY <1>2, <2>1, Cut
  <2>3. u = d \o From(u, 1 + 1) /\ From(u, 1 + 1) \in Bytes
    BY <1>2, <2>1, Cut
  <2> QED
    BY <2>1, <2>2, <2>3
<1>4. d = a
  <2> HIDE DEF d
  <2>1. d = <<b>>
    BY <1>2, <1>3 DEF Bytes
  <2> QED
    BY <2>1 DEF a
<1>5. a \o From(u, 2) = a \o c
  BY <1>3, <1>4 DEF u
<1>6. \A s, t, v \in Seq(Byte) : s \o t = s \o v => t = v
  BY ConcatSimplifications
<1>7. From(u, 2) = c
  BY <1>1, <1>3, <1>5, <1>6 DEF Bytes
<1> QED
  BY <1>7 DEF u, a

\* A text from a position within it: the byte there, and the rest.
LEMMA FromStep ==
  ASSUME NEW t \in Bytes, NEW i \in 1 .. Len(t)
  PROVE  /\ From(t, i) \in Bytes /\ From(t, i + 1) \in Bytes /\ t[i] \in Byte
         /\ From(t, i) = <<t[i]>> \o From(t, i + 1)
         /\ From(t, i) # <<>> /\ From(t, i)[1] = t[i]
<1> DEFINE n == Len(t)
           a == SubSeq(t, i, i)
<1>0. n \in Nat /\ i \in 1 .. n
  BY BytesFacts
<1>1. i \in 1 .. n + 1 /\ i + 1 \in 1 .. n + 1 /\ i \in i - 1 .. n /\ n \in i .. n
  <2> HIDE DEF n
  <2> QED
    BY <1>0
<1>2. From(t, i) \in Bytes /\ From(t, i + 1) \in Bytes /\ t[i] \in Byte
  BY <1>0, <1>1, FromType, Indexed DEF Bytes
<1>3. From(t, i) = a \o From(t, i + 1)
  BY <1>1, ConcatAdjacentSubSeq DEF Bytes, From
<1>4. a = <<t[i]>>
  <2>1. \A k \in i .. i : t[k] \in Byte
    BY <1>0, <1>2
  <2>2. a \in Seq(Byte) /\ Len(a) = (IF i <= i THEN i - i + 1 ELSE 0)
        /\ \A k \in 1 .. i - i + 1 : a[k] = t[i + k - 1]
    BY <1>0, <2>1, SubSeqProperties
  <2> HIDE DEF a
  <2>3. i <= i /\ i - i + 1 = 1 /\ 1 \in 1 .. i - i + 1 /\ i + 1 - 1 = i
    BY <1>0
  <2>4. Len(a) = 1 /\ a[1] = t[i]
    BY <2>2, <2>3
  <2> QED
    BY <2>2, <2>4
<1>5. From(t, i) # <<>> /\ From(t, i)[1] = t[i]
  <2> DEFINE b == From(t, i)
  <2>1. b \in Seq(Byte) /\ Len(b) = n + 1 - i /\ \A k \in 1 .. n + 1 - i : b[k] = t[i + k - 1]
    BY <1>1, FromType DEF Bytes
  <2> HIDE DEF b, n
  <2>2. n + 1 - i >= 1 /\ 1 \in 1 .. n + 1 - i /\ i + 1 - 1 = i
    BY <1>0
  <2>3. b[1] = t[i] /\ Len(b) # 0
    BY <2>1, <2>2
  <2> QED
    BY <2>3, NoBytes DEF b
<1> QED
  BY <1>2, <1>3, <1>4, <1>5

LEMMA AtWithin ==
  ASSUME NEW t \in Bytes, NEW i \in Index, At(t, i) # 0
  PROVE  i \in 1 .. Len(t) /\ At(t, i) = t[i] /\ At(t, i) \in Byte
<1>1. i <= Len(t) /\ At(t, i) \in Byte
  BY AtType, BytesFacts DEF Index
<1> QED
  BY <1>1, BytesFacts DEF At, Index

\* A byte of ASCII is a character of its own.
LEMMA BoundaryStep ==
  ASSUME NEW t \in Bytes, NEW i \in Boundary(t), At(t, i) \in 1 .. 127
  PROVE  i + 1 \in Boundary(t)
<1>0. i \in Index /\ IsUtf8(From(t, i))
  BY DEF Boundary
<1>1. i \in 1 .. Len(t) /\ At(t, i) = t[i] /\ t[i] < 128
  <2>1. At(t, i) # 0 /\ At(t, i) < 128
    OBVIOUS
  <2> QED
    BY <1>0, <2>1, AtWithin
<1> DEFINE s == From(t, i)
           c == From(t, i + 1)
<1>2. s \in Bytes /\ c \in Bytes /\ s = <<t[i]>> \o c /\ t[i] \in Byte /\ s[1] = t[i] /\ s # <<>>
  BY <1>1, FromStep
<1> HIDE DEF s, c
<1>3. From(s, 2) = c
  BY <1>2, BehindByte
<1>4. IsUtf8(c)
  <2>1. 2 \in 1 .. Len(s) + 1
    <3>1. Len(s) \in Nat /\ Len(s) # 0
      BY <1>2, EmptySeq, BytesFacts DEF Bytes
    <3> QED
      BY <3>1
  <2>2. \A l \in 1 .. 2 - 1 : s[l] < 128
    <3>1. \A l \in 1 .. 2 - 1 : l = 1
      OBVIOUS
    <3> QED
      BY <1>1, <1>2, <3>1
  <2>3. IsUtf8(s)
    BY <1>0 DEF s
  <2> QED
    BY <1>2, <1>3, <2>1, <2>2, <2>3, Utf8Drop
<1>5. i + 1 \in Index /\ i + 1 <= Len(t) + 1
  BY <1>1, BytesFacts DEF Index
<1> QED
  BY <1>4, <1>5 DEF Boundary, c

-----------------------------------------------------------------------------
(* Strings of a text. *)

\* skip_quotes stops at the end of the text, or behind a quote.
LEMMA QuoteEndCloses ==
  ASSUME NEW t \in Bytes, NEW i \in Index, At(t, QuoteEnd(t, i)) # 0
  PROVE  /\ QuoteEnd(t, i) \in Index /\ QuoteEnd(t, i) >= i + 1
         /\ At(t, QuoteEnd(t, i) - 1) = QUOTE
<1> DEFINE rank == [j \in Index |-> IF j <= Len(t) THEN Len(t) + 1 - j ELSE 0]
<1>0. Len(t) \in Nat
  BY BytesFacts
<1>1. rank \in [Index -> Nat]
  BY <1>0 DEF Index
<1>2. PICK end \in [Index -> Index] :
        \A j \in Index : /\ end[j] = EndBy(t, j, end) /\ end[j] >= j /\ QuoteEnd(t, j) = end[j]
  BY QuoteEndEquation
<1> DEFINE T == {j \in Index : At(t, end[j]) # 0 =>
                                 end[j] >= j + 1 /\ At(t, end[j] - 1) = QUOTE}
<1>3. ASSUME NEW j \in Index, \A k \in Index : rank[k] < rank[j] => k \in T
      PROVE  j \in T
  <2> SUFFICES ASSUME At(t, end[j]) # 0
               PROVE  end[j] >= j + 1 /\ At(t, end[j] - 1) = QUOTE
    OBVIOUS
  <2>0. end[j] = EndBy(t, j, end) /\ end[j] \in Index
    BY <1>2
  <2>1. At(t, j) # 0
    BY <2>0, EndByCases
  <2>2. j \in 1 .. Len(t) /\ j + 1 \in Index /\ j + 2 \in Index
    BY <2>1, AtWithin DEF Index
  <2>3. j + 1 \in T /\ j + 2 \in T
    <3>1. rank[j + 1] < rank[j] /\ rank[j + 2] < rank[j]
      BY <1>0, <2>2 DEF Index
    <3> HIDE DEF T, rank
    <3> QED
      BY <1>3, <2>2, <3>1
  <2>4. \A k \in {j + 1, j + 2} : end[j] = end[k] => end[j] >= j + 1 /\ At(t, end[j] - 1) = QUOTE
    <3> SUFFICES ASSUME NEW k \in {j + 1, j + 2}, end[j] = end[k]
                 PROVE  end[j] >= j + 1 /\ At(t, end[j] - 1) = QUOTE
      OBVIOUS
    <3>1. end[k] >= k + 1 /\ At(t, end[k] - 1) = QUOTE
      BY <2>3
    <3>2. k >= j + 1 /\ k \in Nat /\ end[k] \in Nat
      BY <2>0, <2>2 DEF Index
    <3> HIDE DEF T, rank
    <3> QED
      BY <2>2, <3>1, <3>2
  <2> HIDE DEF T, rank
  <2>5. CASE At(t, j) = QUOTE
    <3>1. end[j] = j + 1
      BY <2>0, <2>5, EndByCases
    <3>2. (j + 1) - 1 = j /\ j + 1 >= j + 1
      BY <2>2
    <3> QED
      BY <2>5, <3>1, <3>2
  <2>6. CASE At(t, j) = BACKSLASH /\ At(t, j + 1) = 0
    <3>1. end[j] = j + 1
      BY <2>0, <2>6, EndByCases
    <3> QED
      BY <2>6, <3>1
  <2>7. CASE At(t, j) = BACKSLASH /\ At(t, j + 1) # 0
    <3>1. end[j] = end[j + 2]
      BY <2>0, <2>7, EndByCases
    <3> QED
      BY <2>4, <3>1
  <2>8. CASE At(t, j) \notin {0, QUOTE, BACKSLASH}
    <3>1. end[j] = end[j + 1]
      BY <2>0, <2>8, EndByCases
    <3> QED
      BY <2>4, <3>1
  <2> QED
    BY <2>1, <2>5, <2>6, <2>7, <2>8
<1> HIDE DEF T
<1>4. Index \subseteq T
  <2> HIDE DEF rank
  <2> QED
    BY <1>1, <1>3, RankInduction
<1>5. QuoteEnd(t, i) = end[i] /\ end[i] \in Index
  BY <1>2
<1> QED
  BY <1>4, <1>5 DEF T

\* get_quoted_string, wherever in a text of UTF-8 a character begins: the string
\* is nearly in UTF-8, and where it goes on a character begins.
LEMMA QuotedUtf8 ==
  ASSUME NEW t \in Bytes, NEW i \in Boundary(t), At(t, i) # 0, NEW q \in Quoted(t, i)
  PROVE  q.text \in Bytes /\ NearlyUtf8(q.text) /\ q.next \in Boundary(t)
<1> DEFINE end == QuoteEnd(t, i + 1)
           n == Len(t)
           s == SubSeq(t, i + 1, end - 2)
           a == SubSeq(t, i, end - 2)
           b == From(t, end - 1)
           h == <<t[i]>>
<1>0. i \in Index /\ i + 1 \in Index /\ IsUtf8(From(t, i)) /\ n \in Nat
  BY BytesFacts DEF Boundary, Index
<1>1. i \in 1 .. n /\ t[i] \in Byte /\ h \in Bytes
  BY <1>0, AtWithin, FromStep, BytesOf
<1>2. /\ At(t, end) # 0
      /\ \E x \in Processed[s] : q = [text |-> CString(x), next |-> end]
  BY DEF Quoted
<1>3. end \in 1 .. n /\ end >= i + 2 /\ At(t, end - 1) = QUOTE /\ end - 1 \in Index
  <2>1. end \in Index /\ end >= (i + 1) + 1 /\ At(t, end - 1) = QUOTE
    BY <1>0, <1>2, QuoteEndCloses
  <2>2. end \in 1 .. n
    BY <1>2, <2>1, AtWithin
  <2> HIDE DEF end, n
  <2>3. end >= i + 2 /\ end - 1 \in Index
    BY <1>0, <2>1, <2>2 DEF Index
  <2> QED
    BY <2>1, <2>2, <2>3
<1>4. end - 1 \in 1 .. n /\ t[end - 1] = QUOTE
  <2>1. At(t, end - 1) # 0
    BY <1>3 DEF QUOTE
  <2> HIDE DEF end
  <2> QED
    BY <1>3, <2>1, AtWithin
<1> HIDE DEF end
<1>5. a \in Bytes /\ s \in Bytes /\ From(t, i) = a \o b /\ a = h \o s
  <2>1. /\ i \in 1 .. n + 1 /\ end - 2 \in i - 1 .. n /\ n \in end - 2 .. n
        /\ i \in i - 1 .. n /\ end - 2 \in i .. n /\ (end - 2) + 1 = end - 1
        /\ \A k \in i .. end - 2 : k \in Nat /\ 1 <= k /\ k <= n
        /\ i + 1 \in Int /\ end - 2 \in Int /\ i \in Int
        /\ \A k \in i + 1 .. end - 2 : k \in i .. end - 2
    <3> HIDE DEF n
    <3> QED
      BY <1>0, <1>1, <1>3
  <2>2. \A k \in i .. end - 2 : t[k] \in Byte
    BY <2>1, Indexed
  <2>3. a \in Bytes /\ s \in Bytes
    BY <2>1, <2>2, SubSeqProperties DEF Bytes
  <2>4. From(t, i) = a \o b
    BY <2>1, ConcatAdjacentSubSeq DEF Bytes, From
  <2>5. a = SubSeq(t, i, i) \o s
    BY <2>1, ConcatAdjacentSubSeq DEF Bytes
  <2>6. SubSeq(t, i, i) = h
    <3> DEFINE g == SubSeq(t, i, i)
    <3>1. \A k \in i .. i : t[k] \in Byte
      BY <1>0, <1>1
    <3>2. g \in Seq(Byte) /\ Len(g) = (IF i <= i THEN i - i + 1 ELSE 0)
          /\ \A k \in 1 .. i - i + 1 : g[k] = t[i + k - 1]
      BY <2>1, <3>1, SubSeqProperties
    <3> HIDE DEF g
    <3>3. i <= i /\ i - i + 1 = 1 /\ 1 \in 1 .. i - i + 1 /\ i + 1 - 1 = i
      BY <2>1
    <3>4. Len(g) = 1 /\ g[1] = t[i]
      BY <3>2, <3>3
    <3>5. g = <<t[i]>>
      BY <3>2, <3>4
    <3> QED
      BY <3>5 DEF g, h
  <2> QED
    BY <2>3, <2>4, <2>5, <2>6
<1>6. b \in Bytes /\ b # <<>> /\ b[1] < 128
  <2> DEFINE j == end - 1
  <2>1. j \in 1 .. Len(t) /\ t[j] = QUOTE
    BY <1>4
  <2> HIDE DEF j
  <2>2. From(t, j) \in Bytes /\ From(t, j) # <<>> /\ From(t, j)[1] = QUOTE
    BY <2>1, FromStep
  <2> QED
    BY <2>2 DEF j, QUOTE
<1> HIDE DEF a, b, h, s
<1>7. IsUtf8(a) /\ IsUtf8(b)
  BY <1>0, <1>5, <1>6, Utf8Split
<1>8. end \in Boundary(t)
  <2> DEFINE j == end - 1
  <2>1. j \in Boundary(t)
    <3>1. end - 1 <= Len(t) + 1
      <4> HIDE DEF n
      <4>1. end - 1 <= n + 1
        BY <1>0, <1>4
      <4> QED
        BY <4>1 DEF n
    <3> QED
      BY <1>3, <1>7, <3>1 DEF Boundary, b
  <2>2. At(t, j) \in 1 .. 127 /\ j + 1 = end
    BY <1>3 DEF QUOTE
  <2> HIDE DEF j
  <2> QED
    BY <2>1, <2>2, BoundaryStep
<1>9. PICK x \in Processed[s] : q = [text |-> CString(x), next |-> end]
  BY <1>2 DEF s
<1> DEFINE c == CString(x)
<1>10. x \in Bytes /\ c \in Bytes
  BY <1>5, <1>9, ProcessedEquation, CStringType
<1>11. IsUtf8(h \o c)
  <2>1. IsUtf8(h \o s)
    BY <1>5, <1>7
  <2>2. IsUtf8(h \o x)
    BY <1>1, <1>5, <2>1, ProcessedUtf8 DEF h
  <2> QED
    BY <1>1, <1>10, <2>2, CStringUtf8 DEF h
<1> HIDE DEF c
<1>12. NearlyUtf8(c)
  <2>1. CASE t[i] < 128
    <3> DEFINE u == h \o c
    <3>1. u \in Bytes /\ u[1] = t[i] /\ Len(u) = 1 + Len(c) /\ Len(c) \in Nat
      BY <1>1, <1>10, ConcatProperties, BytesFacts DEF Bytes, h
    <3>2. From(u, 2) = c
      BY <1>1, <1>10, BehindByte DEF h
    <3> HIDE DEF u
    <3>3. 2 \in 1 .. Len(u) + 1
      BY <3>1
    <3>4. \A l \in 1 .. 2 - 1 : u[l] < 128
      <4>1. \A l \in 1 .. 2 - 1 : l = 1
        OBVIOUS
      <4> QED
        BY <2>1, <3>1, <4>1
    <3>5. IsUtf8(u)
      BY <1>11 DEF u
    <3>6. IsUtf8(c)
      BY <3>1, <3>2, <3>3, <3>4, <3>5, Utf8Drop
    <3> QED
      BY <3>6 DEF NearlyUtf8
  <2>2. CASE ~(t[i] < 128)
    <3>1. t[i] \in 128 .. 255
      <4> DEFINE g == t[i]
      <4>1. g \in 0 .. 255 /\ ~(g < 128)
        BY <1>1, <2>2 DEF Byte
      <4> HIDE DEF g
      <4>2. g \in 128 .. 255
        BY <4>1
      <4> QED
        BY <4>2 DEF g
    <3> QED
      BY <1>11, <3>1 DEF NearlyUtf8, h
  <2> QED
    BY <2>1, <2>2
<1> QED
  BY <1>8, <1>9, <1>10, <1>12 DEF c

-----------------------------------------------------------------------------
(* What the parser returns, by where it stops and what its strings are. *)

\* From the positions B, bytes of ASCII lead to such positions, and so do quoted
\* strings, which are in N.
Scans(t, B, N) ==
  /\ B \subseteq Index /\ N \subseteq Bytes
  /\ \A i \in B : At(t, i) \in 1 .. 127 => i + 1 \in B
  /\ \A i \in B : At(t, i) # 0 => \A q \in Quoted(t, i) : q.text \in N /\ q.next \in B

\* The lists of parts whose names are in N and differ, and whose values are in V.
Lists(kind, N, V) ==
  IF kind = "array" THEN Seq(V)
  ELSE {m \in Seq([name : N, value : V]) :
          /\ \A i, j \in DOMAIN m : m[i].name = m[j].name => i = j
          /\ Len(m) <= OBJECT_MAX_CAPACITY}

\* The values that are made of strings of N and of parts in V are in W.
Takes(N, V, W) ==
  /\ \A s \in N : String(s) \in W
  /\ \A n \in Nat : Number(n) \in W
  /\ \A l \in DOMAIN Literal : Plain(l) \in W
  /\ \A kind \in Kinds : \A parts \in Lists(kind, N, V) : Container(kind, parts) \in W

\* What is parsed at a position of B is in V, and ends at one.
Yields(row, B, V) == \A i \in B : \A p \in row[i] : p.value \in V /\ p.next \in B

LEMMA Advance ==
  ASSUME NEW t, NEW B, NEW N, Scans(t, B, N), NEW i \in B, NEW j \in Index, j >= i,
         \A k \in i .. j - 1 : At(t, k) \in 1 .. 127
  PROVE  j \in B
<1>0. i \in Nat /\ j \in Nat /\ j - i \in Nat
  BY DEF Scans, Index
<1> DEFINE n == j - i
           S == {d \in 0 .. n : i + d \in B}
<1>1. 0 \in S
  <2>1. 0 \in 0 .. n /\ i + 0 = i
    BY <1>0
  <2> QED
    BY <2>1
<1>2. ASSUME NEW d \in 1 .. n, d - 1 \in S
      PROVE  d \in S
  <2>1. i + (d - 1) \in B
    BY <1>2
  <2>2. i + (d - 1) \in i .. j - 1 /\ (i + (d - 1)) + 1 = i + d /\ d \in 0 .. n
    BY <1>0
  <2>3. At(t, i + (d - 1)) \in 1 .. 127
    BY <2>2
  <2>4. (i + (d - 1)) + 1 \in B
    BY <2>1, <2>3 DEF Scans
  <2> QED
    BY <2>2, <2>4
<1> HIDE DEF S
<1>3. \A d \in 0 .. n : d \in S
  BY <1>0, <1>1, <1>2, InductionUpTo
<1>4. n \in 0 .. n /\ i + n = j
  BY <1>0
<1>5. i + n \in B
  BY <1>3, <1>4 DEF S
<1> QED
  BY <1>4, <1>5

LEMMA Ascii ==
  /\ White \subseteq 1 .. 127 /\ Digit \subseteq 1 .. 127
  /\ COMMA \in 1 .. 127 /\ COLON \in 1 .. 127
  /\ \A kind \in Kinds : Opening[kind] \in 1 .. 127 /\ Closing[kind] \in 1 .. 127
  /\ \A l \in DOMAIN Literal : \A k \in 1 .. Len(Literal[l]) : Literal[l][k] \in 1 .. 127
<1>1. White \subseteq 1 .. 127 /\ Digit \subseteq 1 .. 127
  BY DEF White, Digit
<1>2. COMMA \in 1 .. 127 /\ COLON \in 1 .. 127
  BY DEF COMMA, COLON
<1>3. \A kind \in Kinds : Opening[kind] \in 1 .. 127 /\ Closing[kind] \in 1 .. 127
  BY DEF Kinds, Opening, Closing
<1>4. /\ Literal["null"] = <<110, 117, 108, 108>>
      /\ Literal["true"] = <<116, 114, 117, 101>>
      /\ Literal["false"] = <<102, 97, 108, 115, 101>>
  BY DEF Literal
<1>5. /\ \A k \in 1 .. 4 : <<110, 117, 108, 108>>[k] \in 1 .. 127
      /\ \A k \in 1 .. 4 : <<116, 114, 117, 101>>[k] \in 1 .. 127
      /\ \A k \in 1 .. 5 : <<102, 97, 108, 115, 101>>[k] \in 1 .. 127
  <2>1. /\ \A k \in 1 .. 4 : k = 1 \/ k = 2 \/ k = 3 \/ k = 4
        /\ \A k \in 1 .. 5 : k = 1 \/ k = 2 \/ k = 3 \/ k = 4 \/ k = 5
    OBVIOUS
  <2> QED
    BY <2>1
<1>6. \A l \in DOMAIN Literal : \A k \in 1 .. Len(Literal[l]) : Literal[l][k] \in 1 .. 127
  <2>1. Len(Literal["null"]) = 4 /\ Len(Literal["true"]) = 4 /\ Len(Literal["false"]) = 5
    BY LiteralType
  <2>2. /\ \A k \in 1 .. Len(Literal["null"]) : Literal["null"][k] \in 1 .. 127
        /\ \A k \in 1 .. Len(Literal["true"]) : Literal["true"][k] \in 1 .. 127
        /\ \A k \in 1 .. Len(Literal["false"]) : Literal["false"][k] \in 1 .. 127
    BY <1>4, <1>5, <2>1
  <2> QED
    BY <2>2, LiteralType
<1> QED
  BY <1>1, <1>2, <1>3, <1>6

LEMMA SkipsWithin ==
  ASSUME NEW t \in Bytes, NEW B, NEW N, Scans(t, B, N), NEW i \in B
  PROVE  Blank(t, i) \in B /\ DigitsEnd(t, i) \in B
<1>0. i \in Index
  BY DEF Scans
<1>1. Blank(t, i) \in B
  <2>1. /\ Blank(t, i) \in Index /\ Blank(t, i) >= i
        /\ \A k \in i .. Blank(t, i) - 1 : At(t, k) \in 1 .. 127
    BY <1>0, BlankFirst, Ascii
  <2> QED
    BY <2>1, Advance
<1>2. DigitsEnd(t, i) \in B
  <2>1. /\ DigitsEnd(t, i) \in Index /\ DigitsEnd(t, i) >= i
        /\ \A k \in i .. DigitsEnd(t, i) - 1 : At(t, k) \in 1 .. 127
    BY <1>0, DigitsEndFirst, Ascii
  <2> QED
    BY <2>1, Advance
<1> QED
  BY <1>1, <1>2

LEMMA NumberWithin ==
  ASSUME NEW t \in Bytes, NEW B, NEW N, NEW V, NEW W, Scans(t, B, N), Takes(N, V, W),
         NEW i \in B, NEW p \in NumberAt(t, i)
  PROVE  p.value \in W /\ p.next \in B
<1>0. i \in Index
  BY DEF Scans
<1>1. p.next = DigitsEnd(t, i) /\ \E n : p.value = Number(n)
  BY DEF NumberAt, Parsed
<1>2. p.value.type = "number"
  BY <1>1 DEF Number
<1>3. p.value \in Over({})
  BY <1>0, NumberAtType DEF Results
<1>4. p.value.number \in Nat
  BY <1>2, <1>3, OverShape
<1>5. p.value = Number(p.value.number)
  BY <1>1 DEF Number
<1> QED
  BY <1>1, <1>4, <1>5, SkipsWithin DEF Takes

LEMMA LiteralWithin ==
  ASSUME NEW t \in Bytes, NEW B, NEW N, NEW V, NEW W, Scans(t, B, N), Takes(N, V, W),
         NEW i \in B, NEW p \in LiteralAt(t, i)
  PROVE  p.value \in W /\ p.next \in B
<1>0. i \in Index /\ i \in Nat /\ i >= 1 /\ Len(t) \in Nat
  <2>1. i \in Index
    BY DEF Scans
  <2>2. i \in Nat /\ i >= 1
    BY <2>1 DEF Index
  <2> QED
    BY <2>1, <2>2, BytesFacts
<1>1. PICK l \in DOMAIN Literal : /\ Seqs!IsPrefix(Literal[l], From(t, i))
                                  /\ p = Parsed(Plain(l), i + Len(Literal[l]))
  <2>1. \E l \in {l \in DOMAIN Literal : Seqs!IsPrefix(Literal[l], From(t, i))} :
          p = Parsed(Plain(l), i + Len(Literal[l]))
    BY Zenon DEF LiteralAt
  <2> QED
    BY <2>1
<1>2. p.value = Plain(l) /\ p.next = i + Len(Literal[l])
  BY <1>1 DEF Parsed
<1> DEFINE w == Literal[l]
           m == Len(w)
           s == From(t, i)
           n == Len(t)
<1>3. m \in Nat /\ m >= 1 /\ w \in Bytes /\ n \in Nat
  <2>1. w \in Bytes /\ m = IF l = "false" THEN 5 ELSE 4
    BY LiteralType
  <2> HIDE DEF w, m
  <2>2. m \in Nat /\ m >= 1
    BY <2>1
  <2> QED
    BY <1>0, <2>1, <2>2
<1>4. m <= Len(s) /\ SubSeq(w, 1, m) = SubSeq(s, 1, m)
  BY <1>1 DEF Seqs!IsPrefix
<1>5. ASSUME NEW d \in 1 .. m PROVE At(t, (i + d) - 1) \in 1 .. 127
  <2>1. i \in 1 .. n
    <3> SUFFICES ASSUME i > n PROVE FALSE
      BY <1>0
    <3>1. s = <<>>
      <4>1. s = SubSeq(t, i, n)
        BY DEF From
      <4> HIDE DEF n, s
      <4>2. SubSeq(t, i, n) = <<>>
        BY <1>0, SubSeqEmpty DEF n
      <4> QED
        BY <4>1, <4>2
    <3> HIDE DEF s, m
    <3>2. Len(s) = 0
      BY <3>1, BytesFacts
    <3> QED
      BY <1>3, <1>4, <3>2
  <2>2. s \in Bytes /\ Len(s) = n + 1 - i /\ \A k \in 1 .. n + 1 - i : s[k] = t[i + k - 1]
    <3>1. i \in 1 .. n + 1
      <4> HIDE DEF n
      <4> QED
        BY <1>3, <2>1
    <3> QED
      BY <3>1, FromType DEF Bytes
  <2>3. w[d] = s[d]
    <3>1. SubSeq(w, 1, m)[d] = w[d]
      <4>1. m \in 0 .. Len(w)
        BY <1>3
      <4> HIDE DEF w, m
      <4> QED
        BY <1>3, <4>1, Cut
    <3>2. SubSeq(s, 1, m)[d] = s[d]
      <4>1. m \in 0 .. Len(s)
        <5>1. Len(s) \in Nat
          BY <2>2, BytesFacts
        <5> HIDE DEF m, s
        <5> QED
          BY <1>3, <1>4, <5>1
      <4> HIDE DEF s, m
      <4> QED
        BY <2>2, <4>1, Cut
    <3> QED
      BY <1>4, <3>1, <3>2
  <2> HIDE DEF s, m, n
  <2>4. d \in 1 .. n + 1 - i /\ (i + d) - 1 <= n /\ i + d - 1 = (i + d) - 1
    BY <1>0, <1>3, <1>4, <2>1, <2>2 DEF n
  <2>5. s[d] = t[(i + d) - 1]
    BY <2>2, <2>4
  <2>6. At(t, (i + d) - 1) = t[(i + d) - 1]
    BY <2>4 DEF At, n
  <2> QED
    <3>1. Literal[l][d] \in 1 .. 127
      <4>1. d \in 1 .. Len(Literal[l])
        BY DEF m, w
      <4> QED
        BY <4>1, Ascii
    <3> QED
      BY <2>3, <2>5, <2>6, <3>1 DEF w
<1> HIDE DEF w, m, s
<1>6. i + m \in B
  <2>1. i + m \in Index /\ i + m >= i
    BY <1>0, <1>3 DEF Index
  <2>2. \A k \in i .. (i + m) - 1 : At(t, k) \in 1 .. 127
    <3> SUFFICES ASSUME NEW k \in i .. (i + m) - 1 PROVE At(t, k) \in 1 .. 127
      OBVIOUS
    <3>1. (k - i) + 1 \in 1 .. m /\ (i + ((k - i) + 1)) - 1 = k
      BY <1>0, <1>3
    <3> QED
      BY <1>5, <3>1
  <2> QED
    BY <2>1, <2>2, Advance
<1> QED
  BY <1>2, <1>6 DEF Takes, m, w

LEMMA MemberWithin ==
  ASSUME NEW t \in Bytes, NEW B, NEW N, NEW V, Scans(t, B, N),
         NEW inside, Yields(inside, B, V), NEW i \in B, At(t, i) # 0,
         NEW members, NEW p \in MemberAt(t, i, members, inside)
  PROVE  /\ p.value \in [name : N, value : V] /\ p.next \in B
         /\ p.value.name \notin Names(members) /\ Len(members) < OBJECT_MAX_CAPACITY
<1> DEFINE found(q) == {Parsed(Pair(q.text, v.value), v.next) : v \in inside[Blank(t, q.next) + 1]}
<1>1. PICK q \in Quoted(t, i) : /\ p \in found(q)
                                /\ At(t, Blank(t, q.next)) = COLON /\ Addable(q, members)
  <2>1. \E q \in {q \in Quoted(t, i) : At(t, Blank(t, q.next)) = COLON /\ Addable(q, members)} :
          p \in found(q)
    BY Zenon DEF MemberAt
  <2> HIDE DEF found
  <2> QED
    BY <2>1
<1>2. q.text \in N /\ q.next \in B
  BY DEF Scans
<1>3. Blank(t, q.next) + 1 \in B
  <2>1. Blank(t, q.next) \in B
    BY <1>2, SkipsWithin
  <2>2. At(t, Blank(t, q.next)) \in 1 .. 127
    BY <1>1, Ascii
  <2> QED
    BY <2>1, <2>2 DEF Scans
<1>4. PICK v \in inside[Blank(t, q.next) + 1] : p = Parsed(Pair(q.text, v.value), v.next)
  BY <1>1
<1>5. v.value \in V /\ v.next \in B
  BY <1>3, <1>4 DEF Yields
<1>6. Pair(q.text, v.value) \in [name : N, value : V] /\ Pair(q.text, v.value).name = q.text
  BY <1>2, <1>5 DEF Pair
<1>7. p.value = Pair(q.text, v.value) /\ p.next = v.next
  BY <1>4 DEF Parsed
<1> QED
  BY <1>1, <1>5, <1>6, <1>7 DEF Addable

\* A part that has been parsed goes into the list of those before it.
LEMMA PartWithin ==
  ASSUME NEW t \in Bytes, NEW B, NEW N, NEW V, Scans(t, B, N),
         NEW inside, Yields(inside, B, V), NEW kind \in Kinds, NEW i \in B,
         NEW parts \in Lists(kind, N, V), NEW p \in PartAt(t, i, parts, inside, kind)
  PROVE  Append(parts, p.value) \in Lists(kind, N, V) /\ p.next \in B
<1>0. At(t, i) # 0
  BY DEF PartAt
<1>1. CASE kind = "array"
  <2>1. p \in inside[i]
    BY <1>0, <1>1 DEF PartAt
  <2>2. p.value \in V /\ p.next \in B
    BY <2>1 DEF Yields
  <2>3. parts \in Seq(V)
    BY <1>1 DEF Lists
  <2>4. Append(parts, p.value) \in Seq(V)
    BY <2>2, <2>3, AppendProperties
  <2> QED
    BY <1>1, <2>2, <2>4 DEF Lists
<1>2. CASE kind = "object"
  <2> DEFINE P == [name : N, value : V]
             x == p.value
             new == Append(parts, x)
             n == Len(parts)
  <2>1. p \in MemberAt(t, i, parts, inside)
    BY <1>0, <1>2 DEF PartAt
  <2>2. x \in P /\ p.next \in B /\ x.name \notin Names(parts) /\ n < OBJECT_MAX_CAPACITY
    BY <1>0, <2>1, MemberWithin
  <2>3. /\ parts \in Seq(P) /\ n \in Nat /\ DOMAIN parts = 1 .. n
        /\ \A k, l \in DOMAIN parts : parts[k].name = parts[l].name => k = l
    BY <1>2 DEF Lists
  <2> HIDE DEF P, x
  <2>4. /\ new \in Seq(P) /\ Len(new) = n + 1 /\ new[n + 1] = x
        /\ \A k \in 1 .. n : new[k] = parts[k]
    BY <2>2, <2>3, AppendProperties
  <2>5. DOMAIN new = 1 .. n + 1
    BY <2>4
  <2> HIDE DEF new, n
  <2>6. \A k \in 1 .. n : new[k].name # x.name
    <3>1. \A k \in DOMAIN parts : parts[k].name \in Names(parts)
      BY DEF Names
    <3> QED
      BY <2>2, <2>3, <2>4, <3>1
  <2>7. ASSUME NEW k \in DOMAIN new, NEW l \in DOMAIN new, new[k].name = new[l].name
        PROVE  k = l
    <3>1. \A j \in DOMAIN new : j \in 1 .. n \/ j = n + 1
      BY <2>3, <2>5
    <3>2. CASE k \in 1 .. n /\ l \in 1 .. n
      BY <2>3, <2>4, <2>7, <3>2
    <3>3. CASE k \in 1 .. n /\ l = n + 1
      BY <2>4, <2>6, <2>7, <3>3
    <3>4. CASE k = n + 1 /\ l \in 1 .. n
      BY <2>4, <2>6, <2>7, <3>4
    <3>5. CASE k = n + 1 /\ l = n + 1
      BY <3>5
    <3> QED
      BY <3>1, <3>2, <3>3, <3>4, <3>5
  <2>8. Len(new) <= OBJECT_MAX_CAPACITY
    BY <2>2, <2>3, <2>4, CapacityAssumption
  <2>9. new \in Lists(kind, N, V)
    BY <1>2, <2>4, <2>7, <2>8 DEF Lists, P
  <2> QED
    BY <2>2, <2>9 DEF new, x
<1> QED
  BY <1>1, <1>2 DEF Kinds

LoopsWithin(B, kind, N, V) ==
  {l \in [next : Index, parts : Lists(kind, N, V), closed : BOOLEAN] : l.next \in B}

LEMMA LoopWithin ==
  ASSUME NEW B \in SUBSET Index, NEW kind, NEW N, NEW V,
         NEW next \in B, NEW parts \in Lists(kind, N, V), NEW closed \in BOOLEAN
  PROVE  Loop(next, parts, closed) \in LoopsWithin(B, kind, N, V)
<1> DEFINE L == Lists(kind, N, V)
<1>1. parts \in L /\ next \in Index
  OBVIOUS
<1> HIDE DEF L
<1>2. Loop(next, parts, closed) \in [next : Index, parts : L, closed : BOOLEAN]
  BY <1>1 DEF Loop
<1>3. Loop(next, parts, closed).next = next
  BY DEF Loop
<1> QED
  BY <1>2, <1>3 DEF LoopsWithin, L

LEMMA TurnWithin ==
  ASSUME NEW t \in Bytes, NEW B, NEW N, NEW V, Scans(t, B, N),
         NEW inside, Yields(inside, B, V), NEW kind \in Kinds,
         NEW l \in LoopsWithin(B, kind, N, V)
  PROVE  Turn(t, l, inside, kind) \subseteq LoopsWithin(B, kind, N, V)
<1>0. l.next \in B /\ l.parts \in Lists(kind, N, V) /\ B \in SUBSET Index
  BY DEF LoopsWithin, Scans
<1>1. CASE l.closed
  BY <1>1 DEF Turn
<1>2. CASE ~l.closed
  <2> SUFFICES ASSUME NEW m \in Turn(t, l, inside, kind)
               PROVE  m \in LoopsWithin(B, kind, N, V)
    OBVIOUS
  <2>1. PICK p \in PartAt(t, l.next, l.parts, inside, kind) :
          m \in AfterPart(t, Blank(t, p.next), Append(l.parts, p.value), kind)
    BY <1>2, Zenon DEF Turn
  <2> DEFINE i == Blank(t, p.next)
             parts == Append(l.parts, p.value)
  <2>2. parts \in Lists(kind, N, V) /\ p.next \in B
    BY <1>0, PartWithin
  <2>3. i \in B
    BY <2>2, SkipsWithin
  <2>4. m \in AfterPart(t, i, parts, kind)
    BY <2>1
  <2> HIDE DEF i, parts
  <2>5. At(t, i) \in 1 .. 127 /\ m \in {Loop(Blank(t, i + 1), parts, FALSE), Loop(i + 1, parts, TRUE)}
    <3>1. /\ At(t, i) = COMMA \/ At(t, i) = Closing[kind]
          /\ m \in {Loop(Blank(t, i + 1), parts, FALSE), Loop(i + 1, parts, TRUE)}
      BY <2>4 DEF AfterPart
    <3> QED
      BY <3>1, Ascii
  <2>6. i + 1 \in B
    BY <2>3, <2>5 DEF Scans
  <2>7. Blank(t, i + 1) \in B
    BY <2>6, SkipsWithin
  <2> QED
    BY <1>0, <2>2, <2>5, <2>6, <2>7, LoopWithin
<1> QED
  BY <1>1, <1>2

LEMMA NoParts == \A kind \in Kinds : \A N, V : <<>> \in Lists(kind, N, V)
<1> SUFFICES ASSUME NEW kind \in Kinds, NEW N, NEW V PROVE <<>> \in Lists(kind, N, V)
  OBVIOUS
<1> DEFINE P == [name : N, value : V]
<1>1. <<>> \in Seq(V) /\ <<>> \in Seq(P) /\ DOMAIN <<>> = {} /\ Len(<<>>) = 0
  OBVIOUS
<1>2. 0 <= OBJECT_MAX_CAPACITY
  BY CapacityAssumption
<1> HIDE DEF P
<1>3. <<>> \in {m \in Seq(P) : /\ \A i, j \in DOMAIN m : m[i].name = m[j].name => i = j
                               /\ Len(m) <= OBJECT_MAX_CAPACITY}
  BY <1>1, <1>2
<1> QED
  BY <1>1, <1>3 DEF Lists, P

LEMMA TurnsWithin ==
  ASSUME NEW t \in Bytes, NEW B, NEW N, NEW V, NEW U, Scans(t, B, N),
         NEW inside \in Rows(U), Yields(inside, B, V), NEW kind \in Kinds, NEW start \in B
  PROVE  \A k \in Nat : Turns(t, start, inside, kind)[k] \subseteq LoopsWithin(B, kind, N, V)
<1> DEFINE turns == Turns(t, start, inside, kind)
           L == LoopsWithin(B, kind, N, V)
           T == {k \in Nat : turns[k] \subseteq L}
<1>0. start \in Index /\ B \in SUBSET Index
  BY DEF Scans
<1>1. TurnsFrom(t, start, inside, kind, turns)
  BY <1>0, TurnsType
<1>2. 0 \in T
  <2>1. turns[0] = {Loop(start, <<>>, FALSE)}
    BY <1>1 DEF TurnsFrom
  <2>2. <<>> \in Lists(kind, N, V)
    BY NoParts
  <2>3. Loop(start, <<>>, FALSE) \in L
    BY <1>0, <2>2, LoopWithin
  <2> QED
    BY <2>1, <2>3
<1>3. ASSUME NEW k \in Nat, k \in T PROVE k + 1 \in T
  <2>1. turns[k + 1] = UNION {Turn(t, l, inside, kind) : l \in turns[k]}
    BY <1>1 DEF TurnsFrom
  <2>2. turns[k] \subseteq L
    BY <1>3
  <2> HIDE DEF turns, L
  <2>3. ASSUME NEW m \in turns[k + 1] PROVE m \in L
    <3>1. PICK l \in turns[k] : m \in Turn(t, l, inside, kind)
      BY <2>1
    <3>2. l \in LoopsWithin(B, kind, N, V)
      BY <2>2 DEF L
    <3>3. Turn(t, l, inside, kind) \subseteq L
      BY <3>2, TurnWithin DEF L
    <3> QED
      BY <3>1, <3>3
  <2> QED
    BY <2>3
<1> HIDE DEF T
<1>4. \A k \in Nat : k \in T
  BY <1>2, <1>3, Induction
<1> QED
  BY <1>4 DEF T

LEMMA ContainerWithin ==
  ASSUME NEW t \in Bytes, NEW B, NEW N, NEW V, NEW W, NEW U, Scans(t, B, N), Takes(N, V, W),
         NEW inside \in Rows(U), Yields(inside, B, V), NEW kind \in Kinds,
         NEW i \in B, At(t, i) = Opening[kind], NEW p \in ContainerAt(t, i, inside, kind)
  PROVE  p.value \in W /\ p.next \in B
<1> DEFINE start == Blank(t, i + 1)
<1>1. start \in B
  <2>1. At(t, i) \in 1 .. 127
    BY Ascii
  <2>2. i + 1 \in B
    BY <2>1 DEF Scans
  <2> QED
    BY <2>2, SkipsWithin
<1> HIDE DEF start
<1>2. CASE At(t, start) = Closing[kind]
  <2>1. p = Parsed(Container(kind, <<>>), start + 1)
    BY <1>2, Zenon DEF ContainerAt, start
  <2>2. p.value = Container(kind, <<>>) /\ p.next = start + 1
    BY <2>1 DEF Parsed
  <2>3. Container(kind, <<>>) \in W
    BY NoParts DEF Takes
  <2>4. start + 1 \in B
    <3>1. At(t, start) \in 1 .. 127
      BY <1>2, Ascii
    <3> QED
      BY <1>1, <3>1 DEF Scans
  <2> QED
    BY <2>2, <2>3, <2>4
<1>3. CASE At(t, start) # Closing[kind]
  <2>1. PICK l \in Turns(t, start, inside, kind)[Len(t)] :
          p = Parsed(Container(kind, l.parts), l.next)
    <3>1. \E l \in {l \in Turns(t, start, inside, kind)[Len(t)] : l.closed} :
            p = Parsed(Container(kind, l.parts), l.next)
      BY <1>3, Zenon DEF ContainerAt, start
    <3> QED
      BY <3>1
  <2>2. l \in LoopsWithin(B, kind, N, V)
    <3>1. Len(t) \in Nat
      BY BytesFacts
    <3>2. \A k \in Nat : Turns(t, start, inside, kind)[k] \subseteq LoopsWithin(B, kind, N, V)
      BY <1>1, TurnsWithin
    <3> QED
      BY <3>1, <3>2
  <2>3. l.parts \in Lists(kind, N, V) /\ l.next \in B
    BY <2>2 DEF LoopsWithin
  <2>4. Container(kind, l.parts) \in W
    BY <2>3 DEF Takes
  <2>5. p.value = Container(kind, l.parts) /\ p.next = l.next
    BY <2>1 DEF Parsed
  <2> QED
    BY <2>3, <2>4, <2>5
<1> QED
  BY <1>2, <1>3

LEMMA ValueAtCases ==
  ASSUME NEW t \in Bytes, NEW i, NEW inside
  PROVE  /\ At(t, i) = Opening.object => ValueAt(t, i, inside) = ContainerAt(t, i, inside, "object")
         /\ At(t, i) = Opening.array => ValueAt(t, i, inside) = ContainerAt(t, i, inside, "array")
         /\ At(t, i) = QUOTE =>
              ValueAt(t, i, inside) = {Parsed(String(q.text), q.next) : q \in Quoted(t, i)}
         /\ At(t, i) \notin {Opening.object, Opening.array, QUOTE} =>
              ValueAt(t, i, inside) \in {NumberAt(t, i), LiteralAt(t, i)}
<1> DEFINE b == At(t, i)
           o == ContainerAt(t, i, inside, "object")
           a == ContainerAt(t, i, inside, "array")
           s == {Parsed(String(q.text), q.next) : q \in Quoted(t, i)}
           n == NumberAt(t, i)
           l == LiteralAt(t, i)
           e == CASE b = Opening.object -> o
                  [] b = Opening.array -> a
                  [] b = QUOTE -> s
                  [] b \in Digit -> n
                  [] OTHER -> l
<1>1. ValueAt(t, i, inside) = e
  BY DEF ValueAt
<1> HIDE DEF b, o, a, s, n, l
<1>2. Opening.object = 123 /\ Opening.array = 91 /\ QUOTE = 34
  BY DEF Opening, QUOTE
<1>3. /\ b = Opening.object => e = o
      /\ b = Opening.array => e = a
      /\ b = QUOTE => e = s
      /\ b \notin {Opening.object, Opening.array, QUOTE} => e \in {n, l}
  BY <1>2 DEF Digit
<1> HIDE DEF e
<1> QED
  BY <1>1, <1>3 DEF b, o, a, s, n, l

LEMMA ValueWithin ==
  ASSUME NEW t \in Bytes, NEW B, NEW N, NEW V, NEW W, NEW U, Scans(t, B, N), Takes(N, V, W),
         NEW inside \in Rows(U), Yields(inside, B, V),
         NEW i \in B, NEW p \in ValueAt(t, i, inside)
  PROVE  p.value \in W /\ p.next \in B
<1>1. CASE At(t, i) = Opening.object
  <2>1. p \in ContainerAt(t, i, inside, "object")
    BY <1>1, ValueAtCases
  <2> QED
    BY <1>1, <2>1, ContainerWithin DEF Kinds
<1>2. CASE At(t, i) = Opening.array
  <2>1. p \in ContainerAt(t, i, inside, "array")
    BY <1>2, ValueAtCases
  <2> QED
    BY <1>2, <2>1, ContainerWithin DEF Kinds
<1>3. CASE At(t, i) = QUOTE
  <2>1. QUOTE # 0
    BY DEF QUOTE
  <2>2. p \in {Parsed(String(q.text), q.next) : q \in Quoted(t, i)}
    BY <1>3, ValueAtCases
  <2>3. PICK q \in Quoted(t, i) : p = Parsed(String(q.text), q.next)
    BY <2>2
  <2>4. q.text \in N /\ q.next \in B
    BY <1>3, <2>1 DEF Scans
  <2>5. p.value = String(q.text) /\ p.next = q.next
    BY <2>3 DEF Parsed
  <2> QED
    BY <2>4, <2>5 DEF Takes
<1>4. CASE At(t, i) \notin {Opening.object, Opening.array, QUOTE}
  <2>1. p \in NumberAt(t, i) \/ p \in LiteralAt(t, i)
    BY <1>4, ValueAtCases
  <2> QED
    BY <2>1, NumberWithin, LiteralWithin
<1> QED
  BY <1>1, <1>2, <1>3, <1>4

\* The values of the levels, for strings in N.
Climbs(N, H, n) == \A k \in 0 .. n - 1 : Takes(N, H[k], H[k + 1])

\* What each level of the parser returns.
LEMMA ParserWithin ==
  ASSUME NEW t \in Bytes, NEW B, NEW N, NEW H, NEW n \in Nat, Scans(t, B, N), Climbs(N, H, n)
  PROVE  \A k \in 0 .. n : Yields(Parser(t)[k], B, H[k])
<1> DEFINE S == {k \in 0 .. n : Yields(Parser(t)[k], B, H[k])}
<1>0. B \subseteq Index
  BY DEF Scans
<1>1. 0 \in S
  <2>1. Parser(t)[0] = [i \in Index |-> {}]
    BY ParserLevels
  <2>2. \A i \in B : Parser(t)[0][i] = {}
    BY <1>0, <2>1
  <2>3. Yields(Parser(t)[0], B, H[0])
    BY <2>2 DEF Yields
  <2> QED
    BY <2>3
<1>2. ASSUME NEW k \in 1 .. n, k - 1 \in S PROVE k \in S
  <2> DEFINE j == k - 1
             inside == Parser(t)[j]
  <2>1. j \in Nat /\ j \in 0 .. n - 1 /\ j + 1 = k /\ k \in 0 .. n
    OBVIOUS
  <2>2. Yields(inside, B, H[j])
    BY <1>2
  <2> HIDE DEF j
  <2>3. Parser(t)[k] = Level(t, inside) /\ inside \in Rows(Held(j))
    BY <2>1, ParserLevels
  <2>4. Takes(N, H[j], H[k])
    BY <2>1 DEF Climbs
  <2> HIDE DEF inside
  <2>5. ASSUME NEW i \in B, NEW p \in Parser(t)[k][i]
        PROVE  p.value \in H[k] /\ p.next \in B
    <3>1. Blank(t, i) \in B
      BY SkipsWithin
    <3>2. p \in ValueAt(t, Blank(t, i), inside)
      BY <1>0, <2>3 DEF Level
    <3> QED
      BY <2>2, <2>3, <2>4, <3>1, <3>2, ValueWithin
  <2>6. Yields(Parser(t)[k], B, H[k])
    BY <2>5 DEF Yields
  <2> QED
    BY <2>1, <2>6
<1> HIDE DEF S
<1>3. \A k \in 0 .. n : k \in S
  BY <1>1, <1>2, InductionUpTo
<1> QED
  BY <1>3 DEF S

\* What json_parse_string returns.
LEMMA ParseStringWithin ==
  ASSUME NEW t \in Bytes, NEW B, NEW N, NEW H, Scans(t, B, N), 1 \in B,
         Climbs(N, H, MAX_NESTING + 1)
  PROVE  ParseString(t) \subseteq H[MAX_NESTING + 1]
<1> DEFINE n == MAX_NESTING + 1
<1>1. n \in Nat /\ n \in 0 .. n
  BY NestingAssumption
<1> SUFFICES ASSUME NEW p \in Parser(t)[n][1] PROVE p.value \in H[n]
  BY DEF ParseString
<1>2. Climbs(N, H, n)
  OBVIOUS
<1> HIDE DEF n
<1>3. Yields(Parser(t)[n], B, H[n])
  BY <1>1, <1>2, ParserWithin
<1> QED
  BY <1>3 DEF Yields

-----------------------------------------------------------------------------
(* The strings of a value. *)

StringsBy(v, g) ==
  CASE v.type = "array" -> UNION {g[v.items[i]] : i \in DOMAIN v.items}
    [] v.type = "object" ->
         Names(v.members) \cup UNION {g[v.members[i].value] : i \in DOMAIN v.members}
    [] v.type = "string" -> {v.text}
    [] OTHER -> {}

LEMMA StringsByCases ==
  ASSUME NEW v, NEW g
  PROVE  /\ v.type = "array" => StringsBy(v, g) = UNION {g[v.items[i]] : i \in DOMAIN v.items}
         /\ v.type = "object" =>
              StringsBy(v, g) = Names(v.members)
                                  \cup UNION {g[v.members[i].value] : i \in DOMAIN v.members}
         /\ v.type = "string" => StringsBy(v, g) = {v.text}
         /\ v.type \notin {"array", "object", "string"} => StringsBy(v, g) = {}
<1> DEFINE k == v.type
           a == UNION {g[v.items[i]] : i \in DOMAIN v.items}
           o == Names(v.members) \cup UNION {g[v.members[i].value] : i \in DOMAIN v.members}
           s == {v.text}
           e == CASE k = "array" -> a [] k = "object" -> o [] k = "string" -> s [] OTHER -> {}
<1>1. StringsBy(v, g) = e
  BY DEF StringsBy
<1> HIDE DEF k, a, o, s
<1>2. /\ k = "array" => e = a
      /\ k = "object" => e = o
      /\ k = "string" => e = s
      /\ k \notin {"array", "object", "string"} => e = {}
  OBVIOUS
<1> HIDE DEF e
<1> QED
  BY <1>1, <1>2 DEF k, a, o, s

LEMMA StringsByType ==
  ASSUME NEW v \in Value, NEW g,
         \A w \in Value : Depth[w] < Depth[v] => g[w] \subseteq Bytes
  PROVE  StringsBy(v, g) \subseteq Bytes
<1>1. CASE v.type = "array"
  <2>1. \A i \in DOMAIN v.items : g[v.items[i]] \subseteq Bytes
    BY <1>1, PartsBelow
  <2>2. StringsBy(v, g) = UNION {g[v.items[i]] : i \in DOMAIN v.items}
    BY <1>1, StringsByCases
  <2> QED
    BY <2>1, <2>2
<1>2. CASE v.type = "object"
  <2>1. \A i \in DOMAIN v.members : v.members[i].name \in Bytes /\ g[v.members[i].value] \subseteq Bytes
    BY <1>2, PartsBelow
  <2>2. StringsBy(v, g) = Names(v.members)
                            \cup UNION {g[v.members[i].value] : i \in DOMAIN v.members}
    BY <1>2, StringsByCases
  <2> QED
    BY <2>1, <2>2 DEF Names
<1>3. CASE v.type = "string"
  BY <1>3, Parts, StringsByCases
<1>4. CASE v.type \notin {"array", "object", "string"}
  BY <1>4, StringsByCases
<1> QED
  BY <1>1, <1>2, <1>3, <1>4

LEMMA StringsByLocal ==
  ASSUME NEW v \in Value, NEW g, NEW h,
         \A w \in Value : Depth[w] < Depth[v] => g[w] = h[w]
  PROVE  StringsBy(v, g) = StringsBy(v, h)
<1>1. CASE v.type = "array"
  <2>1. \A i \in DOMAIN v.items : g[v.items[i]] = h[v.items[i]]
    BY <1>1, PartsBelow
  <2>2. UNION {g[v.items[i]] : i \in DOMAIN v.items} = UNION {h[v.items[i]] : i \in DOMAIN v.items}
    BY <2>1
  <2> QED
    BY <1>1, <2>2, StringsByCases
<1>2. CASE v.type = "object"
  <2>1. \A i \in DOMAIN v.members : g[v.members[i].value] = h[v.members[i].value]
    BY <1>2, PartsBelow
  <2>2. UNION {g[v.members[i].value] : i \in DOMAIN v.members}
          = UNION {h[v.members[i].value] : i \in DOMAIN v.members}
    BY <2>1
  <2> QED
    BY <1>2, <2>2, StringsByCases
<1>3. CASE v.type \notin {"array", "object"}
  BY <1>3, StringsByCases, Parts
<1> QED
  BY <1>1, <1>2, <1>3

LEMMA StringsEquation ==
  /\ Strings \in [Value -> SUBSET Bytes]
  /\ \A v \in Value : Strings[v] = StringsBy(v, Strings)
<1> DEFINE D == SUBSET Bytes
           step == [v \in Value |-> [g \in [Value -> D] |-> StringsBy(v, g)]]
<1>1. Descends(Value, D, Depth, step)
  <2>1. step \in [Value -> [[Value -> D] -> D]]
    <3> SUFFICES ASSUME NEW v \in Value, NEW g \in [Value -> D] PROVE StringsBy(v, g) \in D
      OBVIOUS
    <3>1. \A w \in Value : g[w] \subseteq Bytes
      OBVIOUS
    <3> QED
      BY <3>1, StringsByType
  <2>2. Local(Value, D, Depth, step)
    BY StringsByLocal DEF Local
  <2>3. D # {}
    OBVIOUS
  <2> HIDE DEF step, D
  <2> QED
    BY <2>1, <2>2, <2>3, DepthLeast DEF Descends
<1>2. PICK f \in [Value -> D] : \A v \in Value : f[v] = step[v][f]
  <2> HIDE DEF step, D
  <2> QED
    BY <1>1, Recursion DEF Recursive
<1>3. f = [v \in Value |-> StringsBy(v, f)]
  <2>1. \A v \in Value : f[v] = StringsBy(v, f)
    BY <1>2
  <2>2. f = [v \in Value |-> f[v]]
    OBVIOUS
  <2> QED
    BY <2>1, <2>2
<1> HIDE DEF D, step
<1>4. Strings = [v \in Value |-> StringsBy(v, Strings)]
  BY <1>3, Zenon DEF Strings, StringsBy
<1>5. \A v \in Value : Strings[v] = StringsBy(v, Strings)
  BY <1>4
<1> DEFINE T == {v \in Value : Strings[v] \subseteq Bytes}
<1>6. Value \subseteq T
  <2>1. ASSUME NEW v \in Value, \A w \in Value : Depth[w] < Depth[v] => w \in T
        PROVE  v \in T
    <3>1. \A w \in Value : Depth[w] < Depth[v] => Strings[w] \subseteq Bytes
      BY <2>1
    <3>2. StringsBy(v, Strings) \subseteq Bytes
      BY <3>1, StringsByType
    <3> QED
      BY <1>5, <3>2
  <2> HIDE DEF T
  <2> QED
    BY <2>1, DepthLeast, RankInduction
<1>7. Strings \in [Value -> SUBSET Bytes]
  <2>1. Strings = [v \in Value |-> Strings[v]]
    BY <1>4
  <2> QED
    BY <1>6, <2>1
<1> QED
  BY <1>5, <1>7

\* The values whose strings are in N, and the parts of such.
Saying(N) == {v \in Value : Strings[v] \subseteq N}
PartsSaying(kind, N) == IF kind = "array" THEN Saying(N) ELSE [name : N, value : Saying(N)]

LEMMA ContainerSays ==
  ASSUME NEW kind \in Kinds, NEW N, NEW parts \in Seq(PartsSaying(kind, N)),
         Container(kind, parts) \in Value
  PROVE  Container(kind, parts) \in Saying(N)
<1> DEFINE v == Container(kind, parts)
<1>0. Strings[v] = StringsBy(v, Strings)
  BY StringsEquation
<1>1. CASE kind = "array"
  <2>1. v.type = "array" /\ v.items = parts
    BY <1>1 DEF Container, Array
  <2>2. parts \in Seq(Saying(N))
    BY <1>1 DEF PartsSaying
  <2>3. \A i \in DOMAIN parts : parts[i] \in Saying(N)
    BY <2>2
  <2> HIDE DEF v
  <2>4. Strings[v] = UNION {Strings[parts[i]] : i \in DOMAIN parts}
    BY <1>0, <2>1, StringsByCases
  <2>5. Strings[v] \subseteq N
    BY <2>3, <2>4 DEF Saying
  <2> QED
    BY <2>5 DEF Saying, v
<1>2. CASE kind = "object"
  <2> DEFINE P == [name : N, value : Saying(N)]
  <2>1. v.type = "object" /\ v.members = parts
    BY <1>2 DEF Container, Object
  <2>2. parts \in Seq(P) /\ \A p \in P : p.name \in N /\ p.value \in Saying(N)
    BY <1>2 DEF PartsSaying
  <2> HIDE DEF P
  <2>3. \A i \in DOMAIN parts : parts[i] \in P
    BY <2>2
  <2> HIDE DEF v
  <2>4. Strings[v] = Names(parts) \cup UNION {Strings[parts[i].value] : i \in DOMAIN parts}
    BY <1>0, <2>1, StringsByCases
  <2>5. Strings[v] \subseteq N
    BY <2>2, <2>3, <2>4 DEF Saying, Names
  <2> QED
    BY <2>5 DEF Saying, v
<1> QED
  BY <1>1, <1>2 DEF Kinds

LEMMA PartsSay ==
  ASSUME NEW N \in SUBSET Bytes, NEW v \in Saying(N)
  PROVE  /\ v.type = "array" => v.items \in Seq(PartsSaying("array", N))
         /\ v.type = "object" => v.members \in Seq(PartsSaying("object", N))
<1>0. v \in Value /\ Strings[v] = StringsBy(v, Strings) /\ Strings[v] \subseteq N
  BY StringsEquation DEF Saying
<1>1. ASSUME v.type = "array" PROVE v.items \in Seq(Saying(N))
  <2>1. v.items \in Seq(Value) /\ Strings[v] = UNION {Strings[v.items[i]] : i \in DOMAIN v.items}
    BY <1>0, <1>1, Parts, StringsByCases
  <2>2. \A i \in DOMAIN v.items : v.items[i] \in Saying(N)
    BY <1>0, <2>1 DEF Saying
  <2> QED
    BY <2>1, <2>2
<1>2. ASSUME v.type = "object" PROVE v.members \in Seq(PartsSaying("object", N))
  <2> DEFINE Q == [name : Bytes, value : Value]
             P == PartsSaying("object", N)
             m == v.members
  <2>1. m \in Seq(Q)
    BY <1>0, <1>2, Parts
  <2>2. Strings[v] = Names(m) \cup UNION {Strings[m[i].value] : i \in DOMAIN m}
    BY <1>0, <1>2, StringsByCases
  <2> HIDE DEF m
  <2>0. \A q \in Q : /\ q.value \in Value
                     /\ (q.name \in N /\ q.value \in Saying(N) => q \in P)
    BY DEF PartsSaying
  <2> HIDE DEF P, Q
  <2>3. ASSUME NEW i \in DOMAIN m PROVE m[i] \in P
    <3>1. m[i] \in Q
      BY <2>1
    <3>2. m[i].value \in Value
      BY <2>0, <3>1
    <3>3. m[i].name \in N /\ m[i].value \in Saying(N)
      BY <1>0, <2>2, <3>2 DEF Names, Saying
    <3> QED
      BY <2>0, <3>1, <3>3
  <2>4. m \in Seq(P)
    BY <2>1, <2>3
  <2> QED
    BY <2>4 DEF P, m
<1> QED
  BY <1>1, <1>2 DEF PartsSaying

\* The values whose strings are in N are made of such.
LEMMA SayingClimbs ==
  ASSUME NEW N \in SUBSET Bytes
  PROVE  Climbs(N, [n \in Nat |-> {v \in Held(n) : v \in Saying(N)}], MAX_NESTING + 1)
<1> DEFINE H == [n \in Nat |-> {v \in Held(n) : v \in Saying(N)}]
<1> SUFFICES ASSUME NEW n \in 0 .. (MAX_NESTING + 1) - 1
             PROVE  Takes(N, H[n], H[n + 1])
  BY DEF Climbs
<1>1. n \in Nat /\ n <= MaxDepth
  BY NestingAssumption, DepthAssumption
<1>2. Held(n + 1) \subseteq Value /\ Over(Held(n)) = Held(n + 1)
  BY <1>1, DepthAssumption, HeldNext, ValuesMonotone DEF Value
<1>3. \A v : v \in H[n] <=> v \in Held(n) /\ v \in Saying(N)
  BY <1>1
<1>4. \A v : v \in H[n + 1] <=> v \in Over(Held(n)) /\ v \in Saying(N)
  BY <1>1, <1>2
<1> HIDE DEF H
<1>5. ASSUME NEW v \in Over(Held(n)), v.type \in {"string", "number", "literal"},
             v.type = "string" => v.text \in N
      PROVE  v \in H[n + 1]
  <2>1. v \in Value /\ Strings[v] = StringsBy(v, Strings)
    BY <1>2, StringsEquation
  <2>2. Strings[v] \subseteq N
    BY <1>5, <2>1, StringsByCases
  <2> QED
    BY <1>4, <2>1, <2>2 DEF Saying
<1>6. \A s \in N : String(s) \in H[n + 1]
  <2> SUFFICES ASSUME NEW s \in N PROVE String(s) \in H[n + 1]
    OBVIOUS
  <2>1. String(s) \in [type : {"string"}, text : Bytes]
    BY DEF String
  <2>2. String(s).type = "string" /\ String(s).text = s /\ String(s) \in Over(Held(n))
    BY <2>1 DEF String, Over
  <2> QED
    BY <1>5, <2>2
<1>7. \A k \in Nat : Number(k) \in H[n + 1]
  <2> SUFFICES ASSUME NEW k \in Nat PROVE Number(k) \in H[n + 1]
    OBVIOUS
  <2>1. Number(k) \in [type : {"number"}, number : Nat]
    BY DEF Number
  <2>2. Number(k).type = "number" /\ Number(k) \in Over(Held(n))
    BY <2>1 DEF Number, Over
  <2> QED
    BY <1>5, <2>2
<1>8. \A l \in DOMAIN Literal : Plain(l) \in H[n + 1]
  <2> SUFFICES ASSUME NEW l \in DOMAIN Literal PROVE Plain(l) \in H[n + 1]
    OBVIOUS
  <2>1. Plain(l) \in [type : {"literal"}, literal : DOMAIN Literal]
    BY DEF Plain
  <2>2. Plain(l).type = "literal" /\ Plain(l) \in Over(Held(n))
    BY <2>1 DEF Plain, Over
  <2> QED
    BY <1>5, <2>2
<1>9. \A kind \in Kinds : \A parts \in Lists(kind, N, H[n]) : Container(kind, parts) \in H[n + 1]
  <2> SUFFICES ASSUME NEW kind \in Kinds, NEW parts \in Lists(kind, N, H[n])
               PROVE  Container(kind, parts) \in H[n + 1]
    OBVIOUS
  <2>1. /\ parts \in Seq(PartsOf(kind, Held(n)))
        /\ parts \in Seq(PartsSaying(kind, N))
    <3>1. CASE kind = "array"
      <4>1. parts \in Seq(H[n])
        BY <3>1 DEF Lists
      <4>2. H[n] \subseteq Held(n) /\ H[n] \subseteq Saying(N)
        BY <1>3
      <4>3. parts \in Seq(Held(n)) /\ parts \in Seq(Saying(N))
        BY <4>1, <4>2, SeqMonotonic
      <4> QED
        BY <3>1, <4>3 DEF PartsOf, PartsSaying
    <3>2. CASE kind = "object"
      <4> DEFINE P == [name : N, value : H[n]]
                 Q == [name : Bytes, value : Held(n)]
                 R == [name : N, value : Saying(N)]
      <4>1. parts \in Seq(P)
        BY <3>2 DEF Lists
      <4>2. P \subseteq Q /\ P \subseteq R
        BY <1>3
      <4> HIDE DEF P, Q, R
      <4>3. parts \in Seq(Q) /\ parts \in Seq(R)
        BY <4>1, <4>2, SeqMonotonic
      <4> QED
        BY <3>2, <4>3 DEF PartsOf, PartsSaying, Q, R
    <3> QED
      BY <3>1, <3>2 DEF Kinds
  <2>2. Container(kind, parts) \in Over(Held(n))
    BY <2>1, ContainerType
  <2>3. Container(kind, parts) \in Saying(N)
    BY <1>2, <2>1, <2>2, ContainerSays
  <2> QED
    BY <1>4, <2>2, <2>3
<1> QED
  BY <1>6, <1>7, <1>8, <1>9 DEF Takes

-----------------------------------------------------------------------------
(* Bodies in UTF-8. *)

LEMMA FlattenUtf8 ==
  ASSUME NEW seqs \in Seq(Bytes), \A i \in 1 .. Len(seqs) : IsUtf8(seqs[i])
  PROVE  IsUtf8(Seqs!FlattenSeq(seqs))
<1> DEFINE n == Len(seqs)
<1>0. n \in Nat /\ seqs \in Seq(Seq(Byte)) /\ \A i \in 1 .. n : seqs[i] \in Bytes
  BY DEF Bytes
<1>1. PICK flat \in [0 .. n -> Seq(Byte)] :
        /\ flat[0] = <<>>
        /\ \A i \in 1 .. n : flat[i] = flat[i - 1] \o seqs[i]
        /\ Seqs!FlattenSeq(seqs) = flat[n]
  BY <1>0, Flattened
<1>2. \A i \in 1 .. n : IsUtf8(seqs[i])
  OBVIOUS
<1> HIDE DEF n
<1> DEFINE S == {i \in 0 .. n : IsUtf8(flat[i])}
<1>3. 0 \in S
  BY <1>0, <1>1, NoBytes
<1>4. ASSUME NEW i \in 1 .. n, i - 1 \in S PROVE i \in S
  <2>1. i \in 0 .. n /\ i - 1 \in 0 .. n
    BY <1>0
  <2>2. flat[i - 1] \in Bytes /\ IsUtf8(flat[i - 1])
    BY <1>1, <1>4, <2>1 DEF Bytes
  <2>3. seqs[i] \in Bytes /\ IsUtf8(seqs[i])
    BY <1>0, <1>2
  <2>4. IsUtf8(flat[i - 1] \o seqs[i])
    BY <2>2, <2>3, Utf8Join
  <2>5. flat[i] = flat[i - 1] \o seqs[i]
    BY <1>1
  <2> QED
    BY <2>1, <2>4, <2>5
<1> HIDE DEF S
<1>5. \A i \in 0 .. n : i \in S
  BY <1>0, <1>3, <1>4, InductionUpTo
<1>6. n \in S
  BY <1>0, <1>5
<1> QED
  BY <1>1, <1>6 DEF S

\* The strings that are nearly in UTF-8.
Said == {s \in Bytes : NearlyUtf8(s)}

LEMMA ScansUtf8 ==
  ASSUME NEW t \in Bytes, IsUtf8(t)
  PROVE  Scans(t, Boundary(t), Said) /\ 1 \in Boundary(t)
<1>1. \A i \in Boundary(t) : At(t, i) \in 1 .. 127 => i + 1 \in Boundary(t)
  BY BoundaryStep
<1>2. \A i \in Boundary(t) : At(t, i) # 0 =>
        \A q \in Quoted(t, i) : q.text \in Said /\ q.next \in Boundary(t)
  BY QuotedUtf8 DEF Said
<1>3. Boundary(t) \subseteq Index /\ Said \subseteq Bytes
  BY DEF Boundary, Said
<1>4. 1 \in Boundary(t)
  <2>1. From(t, 1) = t
    BY SubSeqFull DEF From, Bytes
  <2>2. 1 \in Index /\ 1 <= Len(t) + 1
    BY BytesFacts DEF Index
  <2> QED
    BY <2>1, <2>2 DEF Boundary
<1> QED
  BY <1>1, <1>2, <1>3, <1>4 DEF Scans

\* json_parse_string keeps to UTF-8: of a text in UTF-8 every string and every
\* name of the value is in UTF-8, but for the first byte of a name.
THEOREM ParsedIsUtf8 ==
  \A t \in Bytes : IsUtf8(t) =>
    \A v \in ParseString(t) : \A s \in Strings[v] : NearlyUtf8(s)
<1> SUFFICES ASSUME NEW t \in Bytes, IsUtf8(t), NEW v \in ParseString(t)
             PROVE  v \in Saying(Said)
  BY DEF Saying, Said
<1> DEFINE n == MAX_NESTING + 1
           H == [k \in Nat |-> {w \in Held(k) : w \in Saying(Said)}]
<1>1. Scans(t, Boundary(t), Said) /\ 1 \in Boundary(t)
  BY ScansUtf8
<1>2. Said \in SUBSET Bytes
  BY DEF Said
<1>3. Climbs(Said, H, n)
  BY <1>2, SayingClimbs
<1>4. n \in Nat /\ H[n] \subseteq Saying(Said)
  <2>1. n \in Nat
    BY NestingAssumption
  <2> QED
    BY <2>1
<1> HIDE DEF H
<1>5. ParseString(t) \subseteq H[n]
  BY <1>1, <1>3, ParseStringWithin
<1> QED
  BY <1>4, <1>5

-----------------------------------------------------------------------------
(* What a caller makes of strings in UTF-8. *)

LEMMA WordSaid ==
  ASSUME Utf8Given, NEW s \in Word
  PROVE  s \in Said /\ String(s) \in Saying(Said)
<1>1. s \in Said
  BY TextAssumption DEF Utf8Given, Said, NearlyUtf8
<1>2. String(s) \in Value
  BY StringType
<1>3. Strings[String(s)] = StringsBy(String(s), Strings)
  BY <1>2, StringsEquation
<1>4. String(s).type = "string" /\ String(s).text = s
  BY DEF String
<1>5. Strings[String(s)] = {s}
  BY <1>3, <1>4, StringsByCases
<1> QED
  BY <1>1, <1>2, <1>5 DEF Saying

\* The value is made of strings that are nearly in UTF-8.
Speaks == value # NoValue => value \in Saying(Said)

LEMMA SpeaksStep ==
  Utf8Given /\ TextTypeOK /\ TextTypeOK' /\ Speaks /\ [TextNext]_textvars => Speaks'
<1> SUFFICES ASSUME Utf8Given, TextTypeOK, TextTypeOK', Speaks, [TextNext]_textvars,
                    value' # NoValue
             PROVE  value' \in Saying(Said)
  BY DEF Speaks
<1>0. body \in Seq(Chunk) /\ value' \in Value /\ Said \in SUBSET Bytes
  BY DEF TextTypeOK, Said
<1>1. CASE ParseBody
  <2>1. Text \in Bytes
    BY <1>0, TextType
  <2>2. IsUtf8(Text)
    <3>1. body \in Seq(Bytes)
      BY <1>0, TextAssumption, SeqMonotonic
    <3>2. \A i \in 1 .. Len(body) : body[i] \in Chunk
      BY <1>0
    <3>3. \A i \in 1 .. Len(body) : IsUtf8(body[i])
      BY <3>2 DEF Utf8Given
    <3> QED
      BY <3>1, <3>3, FlattenUtf8 DEF Text
  <2>3. value' \in ParseString(Text)
    BY <1>1 DEF ParseBody
  <2>4. \A s \in Strings[value'] : NearlyUtf8(s)
    BY <2>1, <2>2, <2>3, ParsedIsUtf8
  <2>5. Strings[value'] \subseteq Bytes
    BY <1>0, StringsEquation
  <2> QED
    BY <1>0, <2>4, <2>5 DEF Saying, Said
<1>2. CASE NewContainer
  <2>1. PICK kind \in Kinds : value' = Container(kind, <<>>)
    BY <1>2 DEF NewContainer, Kinds, Container
  <2>2. <<>> \in Seq(PartsSaying(kind, Said))
    OBVIOUS
  <2> QED
    BY <1>0, <2>1, <2>2, ContainerSays
<1>3. CASE SetString
  <2> DEFINE P == PartsSaying("object", Said)
             members == value.members
  <2>1. value \in Saying(Said) /\ value.type = "object"
    BY <1>3 DEF SetString, Builds, Speaks
  <2>2. members \in Seq(P)
    BY <1>0, <2>1, PartsSay
  <2>3. PICK name \in Word, s \in Word :
          IF name \in Names(members)
          THEN value' = Object([i \in DOMAIN members |->
                                  IF members[i].name = name THEN Pair(name, String(s))
                                  ELSE members[i]])
          ELSE value' = Object(Append(members, Pair(name, String(s))))
    BY <1>3 DEF SetString
  <2>4. Pair(name, String(s)) \in P
    BY WordSaid DEF Pair, PartsSaying
  <2> HIDE DEF P, members
  <2>5. \E parts \in Seq(P) : value' = Object(parts)
    <3>1. CASE name \in Names(members)
      <4> DEFINE new == [i \in DOMAIN members |->
                           IF members[i].name = name THEN Pair(name, String(s)) ELSE members[i]]
      <4>1. new \in Seq(P)
        BY <2>2, <2>4
      <4>2. value' = Object(new)
        BY <2>3, <3>1
      <4> HIDE DEF new
      <4> QED
        BY <4>1, <4>2
    <3>2. CASE name \notin Names(members)
      <4>1. Append(members, Pair(name, String(s))) \in Seq(P)
        BY <2>2, <2>4, AppendProperties
      <4> QED
        BY <2>3, <3>2, <4>1
    <3> QED
      BY <3>1, <3>2
  <2>6. PICK parts \in Seq(P) : value' = Container("object", parts)
    BY <2>5 DEF Container
  <2>7. parts \in Seq(PartsSaying("object", Said)) /\ "object" \in Kinds
    BY DEF P, Kinds
  <2> QED
    BY <1>0, <2>6, <2>7, ContainerSays
<1>4. CASE AppendString
  <2> DEFINE P == PartsSaying("array", Said)
  <2>1. value \in Saying(Said) /\ value.type = "array"
    BY <1>4 DEF AppendString, Builds, Speaks
  <2>2. value.items \in Seq(P)
    BY <1>0, <2>1, PartsSay
  <2>3. PICK s \in Word : value' = Array(Append(value.items, String(s)))
    BY <1>4 DEF AppendString
  <2>4. String(s) \in P
    BY WordSaid DEF PartsSaying
  <2> HIDE DEF P
  <2>5. Append(value.items, String(s)) \in Seq(P)
    BY <2>2, <2>4, AppendProperties
  <2>6. value' = Container("array", Append(value.items, String(s))) /\ "array" \in Kinds
    BY <2>3 DEF Container, Kinds
  <2> QED
    BY <1>0, <2>5, <2>6, ContainerSays DEF P
<1>5. CASE Wrap
  <2>1. value \in Saying(Said)
    BY <1>5 DEF Wrap, Builds, Speaks
  <2>2. CASE value' = Array(<<value>>)
    <3>1. <<value>> \in Seq(PartsSaying("array", Said))
      BY <2>1 DEF PartsSaying
    <3>2. value' = Container("array", <<value>>) /\ "array" \in Kinds
      BY <2>2 DEF Container, Kinds
    <3> QED
      BY <1>0, <3>1, <3>2, ContainerSays
  <2>3. ASSUME NEW name \in Word, value' = Object(<<Pair(name, value)>>)
        PROVE  value' \in Saying(Said)
    <3>1. Pair(name, value) \in PartsSaying("object", Said)
      BY <2>1, WordSaid DEF PartsSaying, Pair
    <3>2. <<Pair(name, value)>> \in Seq(PartsSaying("object", Said))
      BY <3>1
    <3>3. value' = Container("object", <<Pair(name, value)>>) /\ "object" \in Kinds
      BY <2>3 DEF Container, Kinds
    <3> QED
      BY <1>0, <3>2, <3>3, ContainerSays
  <2> QED
    BY <1>5, <2>2, <2>3 DEF Wrap
<1>6. CASE Receive \/ RefuseBody \/ UNCHANGED textvars
  <2>1. value' = value
    BY <1>6 DEF Receive, RefuseBody, textvars
  <2> QED
    BY <2>1 DEF Speaks
<1>7. CASE Done
  BY <1>7 DEF Done
<1> QED
  BY <1>1, <1>2, <1>3, <1>4, <1>5, <1>6, <1>7 DEF TextNext

\* When bodies and the callers' strings are in UTF-8, so is every string and every
\* name the library holds, but for the first byte of a name: what an answer is
\* made of, and what the handlers copy out of a body.
THEOREM StringsStayUtf8 == Utf8Given /\ TextSpec => []StringsAreUtf8
<1>1. TextInit => Speaks
  BY DEF TextInit, Speaks
<1>2. Speaks => StringsAreUtf8
  BY DEF Speaks, Saying, Said, StringsAreUtf8
<1>3. Utf8Given' <=> Utf8Given
  BY DEF Utf8Given
<1> QED
  BY <1>1, <1>2, <1>3, SpeaksStep, TextTypeCorrect, PTL DEF TextSpec
=============================================================================
