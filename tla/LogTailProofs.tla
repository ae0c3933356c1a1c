---------------------------- MODULE LogTailProofs ----------------------------
(***************************************************************************)
(* ReadLastNLines against its reference, for every file, every length of   *)
(* its lines, every window and every number of lines asked for.            *)
(*                                                                         *)
(* Bytes is defined by recursion over the lines of a file.  Induction is   *)
(* done with sets instead of predicates: a set of numbers with 0, and the  *)
(* successor of each of its members, is Nat, since the complement would    *)
(* have a least element.  With it a function that counts the bytes of the  *)
(* first lines exists and is the only one, so Bytes is its last value, and *)
(* the bytes of the end of a file are a difference of two of its values.   *)
(***************************************************************************)
EXTENDS LogTail, Integers, TLAPS, WellFoundedInduction, FiniteSetTheorems, SequenceTheorems

-----------------------------------------------------------------------------
(* Induction.                                                              *)

\* A set of natural numbers has a least element.
LEMMA Least ==
  ASSUME NEW S \in SUBSET Nat, S # {}
  PROVE  \E m \in S : \A k \in S : m <= k
<1> DEFINE R == {ss \in Nat \X Nat : ss[1] < ss[2]}
<1>1. IsWellFoundedOn(R, Nat)
  BY NatLessThanWellFounded DEF OpToRel
<1>2. \E x \in S : \A y \in S : ~ (<<y, x>> \in R)
  BY <1>1, WFMin
<1>3. ASSUME NEW x \in S, NEW y \in S, ~ (<<y, x>> \in R) PROVE x <= y
  BY <1>3
<1> QED
  BY <1>2, <1>3

\* Induction over a set of numbers.
LEMMA SetInduction ==
  ASSUME NEW S \in SUBSET Nat, 0 \in S, \A n \in S : n + 1 \in S
  PROVE  S = Nat
<1> SUFFICES ASSUME Nat \ S # {} PROVE FALSE
  OBVIOUS
<1>1. PICK m \in Nat \ S : \A k \in Nat \ S : m <= k
  BY Least
<1>2. m - 1 \in Nat /\ m - 1 \in S
  BY <1>1
<1> QED
  BY <1>1, <1>2

-----------------------------------------------------------------------------
(* Bytes.                                                                  *)

\* g counts the bytes of the first lines of f.
Counts(g, f) ==
  /\ g \in [0..Len(f) -> Nat]
  /\ g[0] = 0
  /\ \A i \in 1..Len(f) : g[i] = g[i - 1] + f[i].bytes

\* A line has a byte at least.
LEMMA SizeType ==
  ASSUME NEW f \in Seq(Lines), NEW i \in 1..Len(f)
  PROVE  f[i].bytes \in Nat \ {0}
<1>1. f[i] \in Lines
  OBVIOUS
<1> QED
  BY <1>1 DEF Lines

LEMMA CountsType ==
  ASSUME NEW f \in Seq(Lines), NEW g, Counts(g, f)
  PROVE  Len(f) \in Nat /\ \A i \in 0..Len(f) : g[i] \in Nat
<1>1. g \in [0..Len(f) -> Nat]
  BY DEF Counts
<1> QED
  BY <1>1

\* Every file has such a function: one of the first n lines is extended by one.
LEMMA CountsExist ==
  ASSUME NEW f \in Seq(Lines)
  PROVE  \E g : Counts(g, f)
<1> DEFINE P(n, g) == /\ g \in [0..n -> Nat]
                      /\ g[0] = 0
                      /\ \A i \in 1..n : i <= Len(f) => g[i] = g[i - 1] + f[i].bytes
           S == {n \in Nat : \E g : P(n, g)}
<1>0. Len(f) \in Nat
  OBVIOUS
<1>1. 0 \in S
  <2>1. P(0, [i \in 0..0 |-> 0])
    OBVIOUS
  <2> QED
    BY <2>1
<1>2. ASSUME NEW n \in S PROVE n + 1 \in S
  <2>1. PICK g : P(n, g)
    OBVIOUS
  <2> DEFINE last == IF n + 1 <= Len(f) THEN g[n] + f[n + 1].bytes ELSE 0
             h == [i \in 0..(n + 1) |-> IF i = n + 1 THEN last ELSE g[i]]
  <2>2. n \in Nat /\ g[n] \in Nat
    BY <2>1
  <2>3. last \in Nat
    <3>1. CASE n + 1 <= Len(f)
      <4>0. n + 1 \in 1..Len(f)
        BY <1>0, <2>2, <3>1
      <4>1. f[n + 1].bytes \in Nat
        BY <4>0, SizeType
      <4> QED
        BY <2>2, <3>1, <4>1
    <3> QED
      BY <3>1
  <2> HIDE DEF last
  <2>4. h \in [0..(n + 1) -> Nat]
    BY <2>1, <2>2, <2>3
  <2>5. h[0] = 0
    BY <2>1, <2>2
  <2>6. ASSUME NEW i \in 1..(n + 1), i <= Len(f) PROVE h[i] = h[i - 1] + f[i].bytes
    <3>1. CASE i = n + 1
      BY <2>2, <2>6, <3>1 DEF last
    <3>2. CASE i \in 1..n
      <4>1. h[i] = g[i] /\ h[i - 1] = g[i - 1]
        BY <2>2, <3>2
      <4> QED
        BY <2>1, <2>6, <3>2, <4>1
    <3> QED
      BY <2>2, <3>1, <3>2
  <2>7. P(n + 1, h)
    BY <2>4, <2>5, <2>6
  <2>8. \E q : P(n + 1, q)
    <3> HIDE DEF h, P
    <3> QED
      BY <2>7
  <2> HIDE DEF P
  <2> QED
    BY <2>2, <2>8
<1>3. S = Nat
  <2> HIDE DEF S
  <2>1. S \subseteq Nat
    BY DEF S
  <2> QED
    BY <1>1, <1>2, <2>1, SetInduction
<1>4. PICK g : P(Len(f), g)
  BY <1>0, <1>3
<1> QED
  BY <1>0, <1>4 DEF Counts

\* It is the only function of its equation.
LEMMA CountsUnique ==
  ASSUME NEW f \in Seq(Lines), NEW g, Counts(g, f),
         NEW h, h = [i \in 0..Len(f) |-> IF i = 0 THEN 0 ELSE h[i - 1] + f[i].bytes]
  PROVE  h = g
<1> DEFINE S == {n \in Nat : n <= Len(f) => h[n] = g[n]}
<1>0. Len(f) \in Nat
  OBVIOUS
<1>1. h[0] = 0 /\ \A i \in 1..Len(f) : h[i] = h[i - 1] + f[i].bytes
  BY <1>0
<1>2. 0 \in S
  BY <1>1 DEF Counts
<1>3. ASSUME NEW n \in S PROVE n + 1 \in S
  BY <1>0, <1>1 DEF Counts
<1>4. S = Nat
  <2> HIDE DEF S
  <2>1. S \subseteq Nat
    BY DEF S
  <2> QED
    BY <1>2, <1>3, <2>1, SetInduction
<1>5. \A i \in 0..Len(f) : h[i] = g[i]
  BY <1>0, <1>4
<1>6. DOMAIN h = 0..Len(f) /\ h = [i \in DOMAIN h |-> h[i]]
  OBVIOUS
<1>7. g = [i \in 0..Len(f) |-> g[i]]
  BY DEF Counts
<1> QED
  BY <1>5, <1>6, <1>7

\* The recursive function of Bytes is one of these, ...
LEMMA BytesCount ==
  ASSUME NEW f \in Seq(Lines)
  PROVE  \E g : Counts(g, f) /\ Bytes(f) = g[Len(f)]
<1> DEFINE D(g) == [i \in 0..Len(f) |-> IF i = 0 THEN 0 ELSE g[i - 1] + f[i].bytes]
           up == CHOOSE g : g = D(g)
<1>1. Bytes(f) = up[Len(f)]
  BY DEF Bytes
<1>2. PICK g : Counts(g, f)
  BY CountsExist
<1>3. g = D(g)
  BY <1>2 DEF Counts
<1>4. up = D(up)
  BY <1>3
<1> HIDE DEF up
<1>5. up = g
  BY <1>2, <1>4, CountsUnique
<1> QED
  BY <1>1, <1>2, <1>5

\* ... and so is any other.
LEMMA BytesOf ==
  ASSUME NEW f \in Seq(Lines), NEW g, Counts(g, f)
  PROVE  Bytes(f) = g[Len(f)] /\ Bytes(f) \in Nat
<1>1. PICK h : Counts(h, f) /\ Bytes(f) = h[Len(f)]
  BY BytesCount
<1>2. h = [i \in 0..Len(f) |-> IF i = 0 THEN 0 ELSE h[i - 1] + f[i].bytes]
  BY <1>1 DEF Counts
<1>3. h = g
  BY <1>2, CountsUnique
<1>4. Len(f) \in 0..Len(f)
  OBVIOUS
<1> QED
  BY <1>1, <1>3, <1>4 DEF Counts

-----------------------------------------------------------------------------
(* Ends of a file.                                                         *)

\* A suffix of a sequence, as a sequence.
LEMMA LastOf ==
  ASSUME NEW S, NEW f \in Seq(S), NEW n \in 0..Len(f)
  PROVE  /\ Last(f, n) \in Seq(S)
         /\ Len(Last(f, n)) = n
         /\ \A i \in 1..n : Last(f, n)[i] = f[Len(f) - n + i]
<1>1. Len(f) \in Nat /\ \A i \in (Len(f) - n + 1)..Len(f) : f[i] \in S
  OBVIOUS
<1> QED
  BY <1>1, SubSeqProperties DEF Last

\* A set of numbers up to n has at most n of them.
LEMMA CountUpTo ==
  ASSUME NEW n \in Nat, NEW T \in SUBSET (1..n)
  PROVE  Cardinality(T) \in 0..n
<1>1. IsFiniteSet(1..n) /\ Cardinality(1..n) = n
  BY FS_Interval
<1>2. IsFiniteSet(T) /\ Cardinality(T) <= n
  BY <1>1, FS_Subset
<1> QED
  BY <1>2, FS_CardinalityType

\* What ReadLastNLines returns is a suffix of the file.
LEMMA TailIsLast ==
  ASSUME NEW f \in Seq(Lines), NEW n \in Nat
  PROVE  \E k \in 0..Len(f) : ReadLastNLines(f, n) = Last(f, k)
<1> DEFINE m == Cardinality(InWindow(f))
<1>1. Len(f) \in Nat /\ InWindow(f) \subseteq 1..Len(f)
  BY DEF InWindow
<1>2. m \in 0..Len(f)
  BY <1>1, CountUpTo
<1>3. (IF m <= n THEN m ELSE n) \in 0..Len(f)
  BY <1>1, <1>2
<1>4. ReadLastNLines(f, n) = Last(f, IF m <= n THEN m ELSE n)
  BY DEF ReadLastNLines
<1> QED
  BY <1>3, <1>4

\* A tail is a sequence of lines.
LEMMA TailType ==
  ASSUME NEW f \in Seq(Lines), NEW n \in Nat
  PROVE  ReadLastNLines(f, n) \in Seq(Lines)
<1>1. PICK k \in 0..Len(f) : ReadLastNLines(f, n) = Last(f, k)
  BY TailIsLast
<1> QED
  BY <1>1, LastOf

\* So is the reference.
LEMMA WholeType ==
  ASSUME NEW f \in Seq(Lines), NEW n \in Nat
  PROVE  LastWhole(f, n) \in Seq(Lines)
<1> DEFINE m == Cardinality(WholeLines(f))
<1>1. Len(f) \in Nat /\ WholeLines(f) \subseteq 1..Len(f)
  BY DEF WholeLines
<1>2. m \in 0..Len(f)
  BY <1>1, CountUpTo
<1>3. (IF m <= n THEN m ELSE n) \in 0..Len(f)
  BY <1>1, <1>2
<1>4. LastWhole(f, n) = Last(f, IF m <= n THEN m ELSE n)
  BY DEF LastWhole
<1> QED
  BY <1>3, <1>4, LastOf

\* Each line counts for one byte or more.
LEMMA CountsGrow ==
  ASSUME NEW f \in Seq(Lines), NEW g, Counts(g, f)
  PROVE  \A i, j \in 0..Len(f) : i <= j => g[i] + (j - i) <= g[j]
<1> DEFINE S == {n \in Nat : \A i \in 0..Len(f) : i + n <= Len(f) => g[i] + n <= g[i + n]}
<1>0. Len(f) \in Nat /\ \A i \in 0..Len(f) : g[i] \in Nat
  BY CountsType
<1>1. 0 \in S
  BY <1>0
<1>2. ASSUME NEW n \in S PROVE n + 1 \in S
  <2>1. SUFFICES ASSUME NEW i \in 0..Len(f), i + (n + 1) <= Len(f)
                 PROVE  g[i] + (n + 1) <= g[i + (n + 1)]
    OBVIOUS
  <2>2. n \in Nat /\ g[i] + n <= g[i + n]
    BY <1>0, <2>1
  <2>3. PICK k \in 1..Len(f) : k = i + (n + 1) /\ k - 1 = i + n
    BY <1>0, <2>1, <2>2
  <2>4. g[k] = g[k - 1] + f[k].bytes /\ f[k].bytes \in Nat \ {0}
    BY <2>3, SizeType DEF Counts
  <2> HIDE DEF S
  <2>5. n \in Nat /\ g[i] \in Nat /\ g[k - 1] \in Nat /\ g[i] + n <= g[k - 1]
    <3>1. k - 1 \in 0..Len(f)
      BY <1>0, <2>3
    <3> QED
      BY <1>0, <2>2, <2>3, <3>1
  <2>6. \A a, b, c, d \in Nat : a + b <= c /\ d # 0 => a + (b + 1) <= c + d
    OBVIOUS
  <2>7. g[i] + (n + 1) <= g[k]
    BY <2>4, <2>5, <2>6
  <2> QED
    BY <2>3, <2>7
<1>3. S = Nat
  <2> HIDE DEF S
  <2>1. S \subseteq Nat
    BY DEF S
  <2> QED
    BY <1>1, <1>2, <2>1, SetInduction
<1>4. SUFFICES ASSUME NEW i \in 0..Len(f), NEW j \in 0..Len(f), i <= j
               PROVE  g[i] + (j - i) <= g[j]
  OBVIOUS
<1>5. PICK n \in Nat : n = j - i /\ i + n = j
  BY <1>0, <1>4
<1>6. n \in S
  BY <1>3
<1>7. g[i] + n <= g[i + n]
  BY <1>0, <1>5, <1>6
<1> QED
  BY <1>5, <1>7

LEMMA CountsMonotonic ==
  ASSUME NEW f \in Seq(Lines), NEW g, Counts(g, f)
  PROVE  \A i, j \in 0..Len(f) : i <= j => g[i] <= g[j]
<1> SUFFICES ASSUME NEW i \in 0..Len(f), NEW j \in 0..Len(f), i <= j
             PROVE  g[i] <= g[j]
  OBVIOUS
<1>1. g[i] \in Nat /\ g[j] \in Nat
  BY CountsType
<1>2. j - i \in Nat
  OBVIOUS
<1>3. g[i] + (j - i) <= g[j]
  BY CountsGrow
<1>4. \A a, b, c \in Nat : a + b <= c => a <= c
  OBVIOUS
<1> QED
  BY <1>1, <1>2, <1>3, <1>4

\* The bytes of a file from one of its lines on.
LEMMA BytesFrom ==
  ASSUME NEW f \in Seq(Lines), NEW g, Counts(g, f), NEW i \in 1..(Len(f) + 1)
  PROVE  Bytes(FromLine(f, i)) = g[Len(f)] - g[i - 1]
<1> DEFINE rest == FromLine(f, i)
           h == [j \in 0..(Len(f) - i + 1) |-> g[i - 1 + j] - g[i - 1]]
<1>0. Len(f) \in Nat /\ i - 1 \in 0..Len(f) /\ \A j \in 0..Len(f) : g[j] \in Nat
  BY CountsType
<1>1. /\ rest \in Seq(Lines) /\ Len(rest) = Len(f) - i + 1
      /\ \A j \in 1..Len(rest) : rest[j] = f[i - 1 + j]
  <2>1. \A j \in i..Len(f) : f[j] \in Lines
    OBVIOUS
  <2>2. IF i <= Len(f) THEN Len(SubSeq(f, i, Len(f))) = Len(f) - i + 1
                       ELSE Len(SubSeq(f, i, Len(f))) = 0
    BY <1>0, <2>1, SubSeqProperties
  <2> QED
    BY <1>0, <2>1, <2>2, SubSeqProperties DEF FromLine
<1> HIDE DEF rest
<1>2. \A j \in 0..Len(rest) : i - 1 + j \in 0..Len(f) /\ g[i - 1] <= g[i - 1 + j]
  <2>1. SUFFICES ASSUME NEW j \in 0..Len(rest)
                 PROVE  i - 1 + j \in 0..Len(f) /\ g[i - 1] <= g[i - 1 + j]
    OBVIOUS
  <2>2. i - 1 + j \in 0..Len(f) /\ i - 1 <= i - 1 + j
    BY <1>0, <1>1
  <2> QED
    BY <1>0, <2>2, CountsMonotonic
<1>3. h \in [0..Len(rest) -> Nat] /\ h[0] = 0
  <2>1. 0..Len(rest) = 0..(Len(f) - i + 1)
    BY <1>1
  <2>2. ASSUME NEW j \in 0..Len(rest) PROVE g[i - 1 + j] - g[i - 1] \in Nat
    <3>1. g[i - 1 + j] \in Nat /\ g[i - 1] \in Nat /\ g[i - 1] <= g[i - 1 + j]
      BY <1>0, <1>2
    <3> HIDE DEF h
    <3> QED
      BY <3>1
  <2>3. 0 \in 0..Len(rest) /\ i - 1 + 0 = i - 1 /\ g[i - 1] - g[i - 1] = 0
    BY <1>0, <1>1
  <2> QED
    BY <2>1, <2>2, <2>3
<1>4. ASSUME NEW j \in 1..Len(rest) PROVE h[j] = h[j - 1] + rest[j].bytes
  <2>1. PICK k \in 1..Len(f) : k = i - 1 + j /\ k - 1 = i - 1 + (j - 1)
    BY <1>0, <1>1
  <2>2. g[k] = g[k - 1] + f[k].bytes /\ f[k].bytes \in Nat
    BY <2>1, SizeType DEF Counts
  <2>3. j \in 0..(Len(f) - i + 1) /\ j - 1 \in 0..(Len(f) - i + 1)
    BY <1>0, <1>1
  <2>4. h[j] = g[k] - g[i - 1] /\ h[j - 1] = g[k - 1] - g[i - 1]
    BY <2>1, <2>3
  <2>5. g[k - 1] \in Nat /\ g[i - 1] \in Nat
    <3>1. k - 1 \in 0..Len(f)
      BY <1>0
    <3> QED
      BY <1>0, <3>1
  <2>6. rest[j] = f[k]
    BY <1>1, <2>1
  <2> HIDE DEF h
  <2>7. \A a, b, c \in Nat : (a + b) - c = (a - c) + b
    OBVIOUS
  <2>8. (g[k - 1] + f[k].bytes) - g[i - 1] = (g[k - 1] - g[i - 1]) + f[k].bytes
    BY <2>2, <2>5, <2>7
  <2> QED
    BY <2>2, <2>4, <2>6, <2>8
<1> HIDE DEF h
<1>5. Counts(h, rest)
  BY <1>3, <1>4 DEF Counts
<1>6. Bytes(rest) = h[Len(rest)]
  BY <1>1, <1>5, BytesOf
<1>7. Len(rest) \in 0..(Len(f) - i + 1) /\ i - 1 + Len(rest) = Len(f)
  BY <1>0, <1>1
<1> QED
  BY <1>6, <1>7 DEF h, rest

\* The bytes of a file with another last line.
LEMMA BytesWithLast ==
  ASSUME NEW f \in Seq(Lines), f # << >>, NEW l \in Lines
  PROVE  LET h == [f EXCEPT ![Len(f)] = l]
         IN  h \in Seq(Lines) /\ Bytes(h) = Bytes(f) - f[Len(f)].bytes + l.bytes
<1> DEFINE h == [f EXCEPT ![Len(f)] = l]
<1>1. PICK g : Counts(g, f)
  BY CountsExist
<1>2. Len(f) \in 1..Len(f) /\ Len(f) \in Nat /\ Len(f) - 1 \in 0..Len(f)
  BY EmptySeq
<1>3. /\ h \in Seq(Lines) /\ Len(h) = Len(f) /\ h[Len(f)] = l
      /\ \A i \in 1..Len(f) : i # Len(f) => h[i] = f[i]
  BY <1>2
<1> HIDE DEF h
<1>4. \A i \in 0..Len(f) : g[i] \in Nat
  BY <1>1, CountsType
<1>5. l.bytes \in Nat
  BY DEF Lines
<1> DEFINE k == [i \in 0..Len(f) |-> IF i = Len(f) THEN g[Len(f) - 1] + l.bytes ELSE g[i]]
<1>6. k \in [0..Len(h) -> Nat] /\ k[0] = 0
  <2>1. ASSUME NEW i \in 0..Len(f)
        PROVE  (IF i = Len(f) THEN g[Len(f) - 1] + l.bytes ELSE g[i]) \in Nat
    BY <1>2, <1>4, <1>5
  <2>2. k[0] = g[0]
    BY <1>2
  <2> QED
    BY <1>1, <1>3, <2>1, <2>2 DEF Counts
<1>7. ASSUME NEW i \in 1..Len(h) PROVE k[i] = k[i - 1] + h[i].bytes
  <2>1. i \in 1..Len(f) /\ i - 1 \in 0..Len(f) /\ i - 1 # Len(f) /\ k[i - 1] = g[i - 1]
    BY <1>2, <1>3
  <2>2. CASE i = Len(f)
    BY <1>3, <2>1, <2>2
  <2>3. CASE i # Len(f)
    BY <1>1, <1>3, <2>1, <2>3 DEF Counts
  <2> QED
    BY <2>2, <2>3
<1>8. k[Len(h)] = g[Len(f) - 1] + l.bytes
  BY <1>2, <1>3
<1> HIDE DEF k
<1>9. Counts(k, h)
  BY <1>6, <1>7 DEF Counts
<1>10. Bytes(h) = g[Len(f) - 1] + l.bytes
  BY <1>3, <1>8, <1>9, BytesOf
<1>11. Bytes(f) = g[Len(f) - 1] + f[Len(f)].bytes /\ f[Len(f)].bytes \in Nat
  BY <1>1, <1>2, BytesOf, SizeType DEF Counts
<1>12. g[Len(f) - 1] \in Nat
  BY <1>2, <1>4
<1>13. Bytes(h) = Bytes(f) - f[Len(f)].bytes + l.bytes
  BY <1>5, <1>10, <1>11, <1>12
<1> QED
  BY <1>3, <1>13 DEF h

-----------------------------------------------------------------------------
(* The window.                                                             *)

\* A set of positions with everything after each of its members is the end of
\* the sequence.
LEMMA EndOf ==
  ASSUME NEW len \in Nat, NEW T \in SUBSET (1..len), \A i \in T : i..len \subseteq T
  PROVE  \E m \in 0..len : T = (len - m + 1)..len /\ Cardinality(T) = m
<1>1. CASE T = {}
  <2>1. Cardinality(T) = 0 /\ T = (len - 0 + 1)..len
    BY <1>1, FS_EmptySet
  <2> QED
    BY <2>1
<1>2. CASE T # {}
  <2>1. PICK i \in T : \A j \in T : i <= j
    BY <1>2, Least
  <2>2. T = i..len
    <3>1. i \in 1..len /\ i..len \subseteq T
      BY <2>1
    <3>2. ASSUME NEW j \in T PROVE j \in i..len
      BY <2>1, <3>2
    <3> QED
      BY <3>1, <3>2
  <2>3. Cardinality(T) = len - i + 1
    BY <2>1, <2>2, FS_Interval
  <2>4. len - i + 1 \in 0..len /\ len - (len - i + 1) + 1 = i
    BY <2>1
  <2> QED
    BY <2>2, <2>3, <2>4
<1> QED
  BY <1>1, <1>2

\* The lines left of the window, and the lines it holds, by the bytes before
\* them.
LEMMA WindowByCount ==
  ASSUME NEW f \in Seq(Lines), NEW g, Counts(g, f)
  PROVE  /\ InWindow(f) = {i \in 1..Len(f) :
                g[Len(f)] <= BufSize \/ g[Len(f)] - g[i - 1] < BufSize}
         /\ WholeLines(f) = {i \in 1..Len(f) : g[Len(f)] - g[i - 1] <= BufSize}
<1>1. Bytes(f) = g[Len(f)]
  BY BytesOf
<1>2. ASSUME NEW i \in 1..Len(f) PROVE Bytes(FromLine(f, i)) = g[Len(f)] - g[i - 1]
  <2>1. i \in 1..(Len(f) + 1)
    OBVIOUS
  <2> QED
    BY <2>1, BytesFrom
<1> QED
  BY <1>1, <1>2 DEF InWindow, WholeLines

\* What can be said of the numbers in g.
LEMMA CountFacts ==
  ASSUME NEW f \in Seq(Lines), NEW g, Counts(g, f)
  PROVE  /\ Len(f) \in Nat /\ BufSize \in Nat \ {0} /\ g[Len(f)] \in Nat
         /\ \A i \in 1..Len(f) : g[i - 1] \in Nat /\ g[i - 1] < g[Len(f)]
         /\ \A i, j \in 1..Len(f) : i < j => g[i - 1] < g[j - 1]
<1>1. Len(f) \in Nat /\ BufSize \in Nat \ {0} /\ \A i \in 0..Len(f) : g[i] \in Nat
  BY CountsType, TailAssumption
<1>2. ASSUME NEW a \in 0..Len(f), NEW b \in 0..Len(f), a < b PROVE g[a] < g[b]
  <2>1. g[a] + (b - a) <= g[b]
    BY <1>1, <1>2, CountsGrow
  <2> QED
    BY <1>1, <1>2, <2>1
<1>3. ASSUME NEW i \in 1..Len(f) PROVE i - 1 \in 0..Len(f) /\ i - 1 < Len(f)
  BY <1>1
<1>4. Len(f) \in 0..Len(f)
  BY <1>1
<1>5. ASSUME NEW i \in 1..Len(f), NEW j \in 1..Len(f), i < j PROVE g[i - 1] < g[j - 1]
  <2>1. i - 1 < j - 1
    BY <1>1, <1>5
  <2> QED
    BY <1>2, <1>3, <2>1
<1> QED
  BY <1>1, <1>2, <1>3, <1>4, <1>5

\* ReadLastNLines keeps the last lines of the window, as many as asked for.
LEMMA TailByCount ==
  ASSUME NEW f \in Seq(Lines), NEW n \in Nat
  PROVE  \E m \in 0..Len(f) :
           /\ InWindow(f) = (Len(f) - m + 1)..Len(f)
           /\ Cardinality(InWindow(f)) = m
           /\ ReadLastNLines(f, n) = Last(f, IF m <= n THEN m ELSE n)
<1>1. PICK g : Counts(g, f)
  BY CountsExist
<1>2. Len(f) \in Nat /\ InWindow(f) \in SUBSET (1..Len(f))
  BY DEF InWindow
<1>3. ASSUME NEW i \in InWindow(f) PROVE i..Len(f) \subseteq InWindow(f)
  <2>1. i \in 1..Len(f) /\ (g[Len(f)] <= BufSize \/ g[Len(f)] - g[i - 1] < BufSize)
    BY <1>1, WindowByCount
  <2>2. ASSUME NEW j \in i..Len(f) PROVE j \in InWindow(f)
    <3>1. j \in 1..Len(f) /\ (i = j \/ i < j)
      BY <1>2, <2>1
    <3>2. g[j - 1] \in Nat /\ g[i - 1] \in Nat /\ g[i - 1] <= g[j - 1]
      BY <1>1, <2>1, <3>1, CountFacts
    <3>3. g[Len(f)] \in Nat /\ BufSize \in Nat
      BY <1>1, CountFacts
    <3>4. g[Len(f)] <= BufSize \/ g[Len(f)] - g[j - 1] < BufSize
      BY <2>1, <3>2, <3>3
    <3> QED
      BY <1>1, <3>1, <3>4, WindowByCount
  <2> QED
    BY <2>2
<1>4. PICK m \in 0..Len(f) :
        InWindow(f) = (Len(f) - m + 1)..Len(f) /\ Cardinality(InWindow(f)) = m
  BY <1>2, <1>3, EndOf
<1> QED
  BY <1>4 DEF ReadLastNLines

\* A tail fits the window.
THEOREM TailFits ==
  ASSUME NEW f \in Seq(Lines), NEW n \in Nat
  PROVE  Bytes(ReadLastNLines(f, n)) \in 0..BufSize
<1>1. PICK g : Counts(g, f)
  BY CountsExist
<1>2. PICK m \in 0..Len(f) :
           /\ InWindow(f) = (Len(f) - m + 1)..Len(f)
           /\ ReadLastNLines(f, n) = Last(f, IF m <= n THEN m ELSE n)
  BY TailByCount
<1>3. PICK k \in 0..m : ReadLastNLines(f, n) = Last(f, k)
  BY <1>2
<1> DEFINE i == Len(f) - k + 1
<1>4. Last(f, k) = FromLine(f, i)
  BY DEF Last, FromLine
<1>5. i \in 1..(Len(f) + 1) /\ Len(f) \in Nat
  BY <1>2, <1>3
<1>6. Bytes(FromLine(f, i)) = g[Len(f)] - g[i - 1]
  BY <1>1, <1>5, BytesFrom
<1>7. CASE k = 0
  <2>1. i - 1 = Len(f)
    BY <1>5, <1>7
  <2>2. g[Len(f)] - g[Len(f)] = 0 /\ 0 \in 0..BufSize
    BY <1>1, CountFacts
  <2> QED
    BY <1>3, <1>4, <1>6, <2>1, <2>2
<1>8. CASE k # 0
  <2>1. i \in 1..Len(f) /\ i \in InWindow(f)
    BY <1>2, <1>3, <1>5, <1>8
  <2>2. g[Len(f)] <= BufSize \/ g[Len(f)] - g[i - 1] < BufSize
    BY <1>1, <2>1, WindowByCount
  <2>3. g[i - 1] \in Nat /\ g[i - 1] < g[Len(f)] /\ g[Len(f)] \in Nat /\ BufSize \in Nat
    BY <1>1, <2>1, CountFacts
  <2>4. g[Len(f)] - g[i - 1] \in 0..BufSize
    BY <2>2, <2>3
  <2> QED
    BY <1>3, <1>4, <1>6, <2>4
<1> QED
  BY <1>7, <1>8

\* The end of an end of a sequence.
LEMMA LastOfLast ==
  ASSUME NEW S, NEW f \in Seq(S), NEW n \in 0..Len(f), NEW k \in 0..n
  PROVE  Last(Last(f, n), k) = Last(f, k)
<1>0. Len(f) \in Nat /\ n \in 0..Len(f) /\ k \in 0..Len(f)
  OBVIOUS
<1>1. /\ Last(f, n) \in Seq(S) /\ Len(Last(f, n)) = n
      /\ \A i \in 1..n : Last(f, n)[i] = f[Len(f) - n + i]
  BY LastOf
<1>2. /\ Last(f, k) \in Seq(S) /\ Len(Last(f, k)) = k
      /\ \A i \in 1..k : Last(f, k)[i] = f[Len(f) - k + i]
  BY <1>0, LastOf
<1>3. /\ Last(Last(f, n), k) \in Seq(S) /\ Len(Last(Last(f, n), k)) = k
      /\ \A i \in 1..k : Last(Last(f, n), k)[i] = Last(f, n)[n - k + i]
  <2> DEFINE end == Last(f, n)
  <2> HIDE DEF end
  <2>1. end \in Seq(S) /\ k \in 0..Len(end) /\ Len(end) = n
    BY <1>1 DEF end
  <2>2. /\ Last(end, k) \in Seq(S) /\ Len(Last(end, k)) = k
        /\ \A i \in 1..k : Last(end, k)[i] = end[n - k + i]
    BY <2>1, LastOf
  <2> QED
    BY <2>2 DEF end
<1>4. ASSUME NEW i \in 1..k PROVE Last(Last(f, n), k)[i] = Last(f, k)[i]
  <2>1. n - k + i \in 1..n /\ Len(f) - n + (n - k + i) = Len(f) - k + i
    BY <1>0
  <2> QED
    BY <1>1, <1>2, <1>3, <2>1
<1> QED
  BY <1>2, <1>3, <1>4, SeqEqual

\* The tail is the reference's, or a longer file has a line that starts with the
\* window, and the tail is what follows it.
LEMMA TailOrNext ==
  ASSUME NEW f \in Seq(Lines), NEW n \in Nat
  PROVE  \/ ReadLastNLines(f, n) = LastWhole(f, n)
         \/ /\ WindowOnLine(f)
            /\ LastWhole(f, n) # << >>
            /\ ReadLastNLines(f, n) = Last(LastWhole(f, n), Len(LastWhole(f, n)) - 1)
<1>1. PICK g : Counts(g, f)
  BY CountsExist
<1> DEFINE len == Len(f)
           bytes == g[len]
<1>2. len \in Nat /\ bytes \in Nat /\ BufSize \in Nat \ {0} /\ Bytes(f) = bytes
  BY <1>1, CountFacts, BytesOf
<1>3. \A i \in 1..len : g[i - 1] \in Nat /\ g[i - 1] < bytes
  BY <1>1, CountFacts
<1>4. /\ InWindow(f) = {i \in 1..len : bytes <= BufSize \/ bytes - g[i - 1] < BufSize}
      /\ WholeLines(f) = {i \in 1..len : bytes - g[i - 1] <= BufSize}
  BY <1>1, WindowByCount
<1> HIDE DEF bytes
<1>5. CASE InWindow(f) = WholeLines(f)
  BY <1>5 DEF ReadLastNLines, LastWhole
<1>6. CASE InWindow(f) # WholeLines(f)
  <2>1. bytes > BufSize
    <3>1. SUFFICES ASSUME bytes <= BufSize PROVE InWindow(f) = WholeLines(f)
      BY <1>2, <1>6
    <3>2. \A i \in 1..len : bytes - g[i - 1] <= BufSize
      BY <1>2, <1>3, <3>1
    <3> QED
      BY <1>4, <3>1, <3>2
  <2>2. PICK i \in 1..len : bytes - g[i - 1] = BufSize
    <3>1. SUFFICES ASSUME \A i \in 1..len : bytes - g[i - 1] # BufSize
                   PROVE  InWindow(f) = WholeLines(f)
      BY <1>6
    <3>2. ASSUME NEW i \in 1..len
          PROVE  bytes - g[i - 1] < BufSize <=> bytes - g[i - 1] <= BufSize
      <4>1. g[i - 1] \in Nat /\ bytes - g[i - 1] # BufSize
        BY <1>3, <3>1
      <4> QED
        BY <1>2, <4>1
    <3>3. ~ (bytes <= BufSize)
      BY <1>2, <2>1
    <3> QED
      BY <1>4, <3>2, <3>3
  <2>3. Bytes(FromLine(f, i)) = BufSize
    <3>1. i \in 1..(len + 1)
      BY <1>2
    <3> QED
      BY <1>1, <2>2, <3>1, BytesFrom DEF bytes
  <2>4. \A j \in 1..len : /\ bytes - g[j - 1] < BufSize <=> i < j
                          /\ bytes - g[j - 1] <= BufSize <=> i <= j
    <3>1. ASSUME NEW j \in 1..len
          PROVE  /\ bytes - g[j - 1] < BufSize <=> i < j
                 /\ bytes - g[j - 1] <= BufSize <=> i <= j
      <4>1. i < j \/ i = j \/ j < i
        BY <1>2
      <4>2. i < j => g[i - 1] < g[j - 1]
        BY <1>1, CountFacts
      <4>3. j < i => g[j - 1] < g[i - 1]
        BY <1>1, CountFacts
      <4>4. g[i - 1] \in Nat /\ g[j - 1] \in Nat
        BY <1>3
      <4>5. CASE i < j
        BY <1>2, <2>2, <4>2, <4>4, <4>5
      <4>6. CASE i = j
        BY <1>2, <2>2, <4>6
      <4>7. CASE j < i
        BY <1>2, <2>2, <4>3, <4>4, <4>7
      <4> QED
        BY <4>1, <4>5, <4>6, <4>7
    <3> QED
      BY <3>1
  <2>5. InWindow(f) = (i + 1)..len /\ WholeLines(f) = i..len
    <3>1. InWindow(f) = {j \in 1..len : i < j} /\ WholeLines(f) = {j \in 1..len : i <= j}
      BY <1>2, <1>4, <2>1, <2>4
    <3> QED
      BY <1>2, <3>1
  <2> DEFINE m == len - i
  <2>6. Cardinality(InWindow(f)) = m /\ Cardinality(WholeLines(f)) = m + 1
    BY <1>2, <2>5, FS_Interval
  <2>7. m \in Nat /\ m + 1 \in 0..len
    BY <1>2
  <2> HIDE DEF m
  <2>8. CASE n <= m
    <3>1. ReadLastNLines(f, n) = Last(f, n) /\ LastWhole(f, n) = Last(f, n)
      BY <2>6, <2>7, <2>8 DEF ReadLastNLines, LastWhole
    <3> QED
      BY <3>1
  <2>9. CASE n > m
    <3>1. ReadLastNLines(f, n) = Last(f, m) /\ LastWhole(f, n) = Last(f, m + 1)
      BY <2>6, <2>7, <2>9 DEF ReadLastNLines, LastWhole
    <3>2. Len(Last(f, m + 1)) = m + 1 /\ Last(Last(f, m + 1), m) = Last(f, m)
      BY <2>7, LastOf, LastOfLast
    <3>3. Last(f, m + 1) # << >> /\ Len(Last(f, m + 1)) - 1 = m
      BY <2>7, <3>2
    <3> QED
      BY <1>2, <2>1, <2>3, <3>1, <3>2, <3>3 DEF WindowOnLine
  <2> QED
    BY <2>7, <2>8, <2>9
<1> QED
  BY <1>5, <1>6

\* For every file and every number of lines the tail is the reference's, unless
\* the window starts exactly with a line.
THEOREM TailIsReference ==
  ASSUME NEW f \in Seq(Lines), NEW n \in Nat, ~WindowOnLine(f)
  PROVE  ReadLastNLines(f, n) = LastWhole(f, n)
  BY TailOrNext

\* Where the tail is not the reference's, the oldest of its lines is missing and
\* no other.
THEOREM OneLineMissed ==
  ASSUME NEW f \in Seq(Lines), NEW n \in Nat, ReadLastNLines(f, n) # LastWhole(f, n)
  PROVE  LastWhole(f, n) # << >> /\ ReadLastNLines(f, n) = Tail(LastWhole(f, n))
<1>1. /\ LastWhole(f, n) # << >>
      /\ ReadLastNLines(f, n) = Last(LastWhole(f, n), Len(LastWhole(f, n)) - 1)
  BY TailOrNext
<1>2. LastWhole(f, n) \in Seq(Lines)
  BY WholeType
<1> DEFINE whole == LastWhole(f, n)
<1> HIDE DEF whole
<1>3. ASSUME whole \in Seq(Lines), whole # << >>
      PROVE  Last(whole, Len(whole) - 1) = Tail(whole)
  <2>1. Len(whole) \in Nat \ {0}
    BY <1>3, EmptySeq
  <2>2. Len(whole) - (Len(whole) - 1) + 1 = 2
    BY <2>1
  <2> QED
    BY <2>2 DEF Last
<1> QED
  BY <1>1, <1>2, <1>3 DEF whole
=============================================================================
