--------------------------- MODULE LedgerSyncProofs ---------------------------
(* Theorems about LedgerSync, for trees of every depth, every size of the    *)
(* batches of accounts and every set of ledgers.                             *)
EXTENDS LedgerSync, TLAPS, FunctionTheorems, FiniteSetTheorems, WellFoundedInduction,
        SequenceTheorems

-----------------------------------------------------------------------------
(* Arithmetic.                                                               *)

(* Induction, by the least number there is.                                  *)
LEMMA LeastNat ==
  ASSUME NEW S, S \subseteq Nat, S # {}
  PROVE  \E x \in S : \A y \in S : x <= y
<1>1. PICK x \in S : \A y \in S : ~ (<<y, x>> \in OpToRel(<, Nat))
  BY WFMin, NatLessThanWellFounded, Zenon
<1>2. ASSUME NEW y \in S PROVE x <= y
  <2>1. ~ (<<y, x>> \in OpToRel(<, Nat)) BY <1>1
  <2>2. ~ (y < x) BY <2>1 DEF OpToRel
  <2> QED BY <2>2
<1> QED BY <1>2

LEMMA Induced ==
  ASSUME NEW S, 0 \in S, \A n \in Nat : n \in S => n + 1 \in S
  PROVE  Nat \subseteq S
<1> SUFFICES ASSUME Nat \ S # {} PROVE FALSE
  OBVIOUS
<1>1. PICK x \in Nat \ S : \A y \in Nat \ S : x <= y
  <2> DEFINE T == Nat \ S
  <2>1. T \subseteq Nat /\ T # {} OBVIOUS
  <2> HIDE DEF T
  <2>2. \E x \in T : \A y \in T : x <= y BY <2>1, LeastNat
  <2> QED BY <2>2 DEF T
<1>2. x # 0 /\ x - 1 \in Nat /\ x - 1 \in S
  <2>1. x # 0 OBVIOUS
  <2>2. x - 1 \in Nat BY <2>1
  <2>3. x - 1 \notin Nat \ S BY <1>1, <2>2
  <2> QED BY <2>1, <2>2, <2>3
<1>3. (x - 1) + 1 = x OBVIOUS
<1> QED BY <1>2, <1>3

(* Powers of two, by the subsets of 1..n.                                    *)
LEMMA PowerStep ==
  /\ 2 ^ 0 = 1
  /\ \A n \in Nat : 2 ^ n \in Nat /\ 2 ^ (n + 1) = 2 * 2 ^ n
<1>1. \A n \in Nat : IsFiniteSet(1..n) /\ Cardinality(1..n) = n
  BY FS_Interval
<1>2. \A n \in Nat : IsFiniteSet(SUBSET (1..n)) /\ Cardinality(SUBSET (1..n)) = 2 ^ n
  BY <1>1, FS_SUBSET
<1>3. 2 ^ 0 = 1
  <2>1. SUBSET (1..0) = {{}} OBVIOUS
  <2>2. Cardinality({{}}) = 1 BY FS_Singleton
  <2> QED BY <1>2, <2>1, <2>2
<1>4. ASSUME NEW n \in Nat PROVE 2 ^ n \in Nat /\ 2 ^ (n + 1) = 2 * 2 ^ n
  <2> DEFINE A == SUBSET (1..n)
             C == {T \cup {n + 1} : T \in A}
  <2>1. SUBSET (1..(n + 1)) = A \cup C
    <3>1. ASSUME NEW T \in SUBSET (1..(n + 1)), n + 1 \in T PROVE T \in C
      <4>1. T \ {n + 1} \in A BY <3>1
      <4>2. T = (T \ {n + 1}) \cup {n + 1} BY <3>1
      <4> QED BY <4>1, <4>2
    <3>2. ASSUME NEW T \in SUBSET (1..(n + 1)), n + 1 \notin T PROVE T \in A
      BY <3>2
    <3>3. A \subseteq SUBSET (1..(n + 1)) OBVIOUS
    <3>4. C \subseteq SUBSET (1..(n + 1))
      <4>1. ASSUME NEW T \in A PROVE T \cup {n + 1} \in SUBSET (1..(n + 1)) OBVIOUS
      <4> HIDE DEF A
      <4> QED BY <4>1
    <3> HIDE DEF A, C
    <3> QED BY <3>1, <3>2, <3>3, <3>4
  <2>2. IsFiniteSet(A) /\ Cardinality(A) = 2 ^ n BY <1>2
  <2>3. [T \in A |-> T \cup {n + 1}] \in Bijection(A, C)
    <3> DEFINE f == [T \in A |-> T \cup {n + 1}]
    <3>1. f \in [A -> C] OBVIOUS
    <3>2. ASSUME NEW T \in A, NEW U \in A, f[T] = f[U] PROVE T = U
      <4>1. n + 1 \notin T /\ n + 1 \notin U OBVIOUS
      <4>2. T \cup {n + 1} = U \cup {n + 1} BY <3>2
      <4> QED BY <4>1, <4>2
    <3>3. \A c \in C : \E T \in A : f[T] = c OBVIOUS
    <3> HIDE DEF f, A, C
    <3>4. f \in Bijection(A, C) BY <3>1, <3>2, <3>3, Fun_IsBij
    <3> QED BY <3>4 DEF f
  <2>4. IsFiniteSet(C) /\ Cardinality(C) = Cardinality(A)
    <3> HIDE DEF A, C
    <3>1. ExistsBijection(A, C) BY <2>3 DEF ExistsBijection
    <3> QED BY <2>2, <3>1, FS_Bijection
  <2>5. A \cap C = {}
    <3>1. \A T \in A : n + 1 \notin T OBVIOUS
    <3>2. \A T \in C : n + 1 \in T OBVIOUS
    <3> HIDE DEF A, C
    <3> QED BY <3>1, <3>2
  <2>6. Cardinality(A \cup C) = Cardinality(A) + Cardinality(C)
    <3> HIDE DEF A, C
    <3>1. Cardinality(A \cap C) = 0 BY <2>5, FS_EmptySet
    <3>2. Cardinality(A) \in Nat BY <2>2, FS_CardinalityType
    <3>3. Cardinality(A \cup C) = Cardinality(A) + Cardinality(C) - Cardinality(A \cap C)
      BY <2>2, <2>4, FS_Union, Zenon
    <3> QED BY <2>4, <3>1, <3>2, <3>3
  <2>7. Cardinality(A) \in Nat
    <3> HIDE DEF A, C
    <3> QED BY <2>2, FS_CardinalityType
  <2>8. Cardinality(SUBSET (1..(n + 1))) = 2 ^ (n + 1)
    <3>1. n + 1 \in Nat OBVIOUS
    <3> QED BY <3>1, <1>2
  <2> DEFINE k == Cardinality(A)
  <2> HIDE DEF A, C
  <2>9. 2 ^ n = k /\ k \in Nat BY <2>2, <2>7
  <2>10. 2 ^ (n + 1) = Cardinality(A \cup C) BY <2>1, <2>8, Zenon
  <2>11. 2 ^ (n + 1) = k + k BY <2>4, <2>6, <2>10
  <2> HIDE DEF k
  <2>12. k + k = 2 * k BY <2>9
  <2>13. 2 ^ (n + 1) = 2 * k BY <2>11, <2>12, Zenon
  <2> QED BY <2>9, <2>13, Zenon
<1> QED BY <1>3, <1>4

LEMMA PowerSum ==
  \A m, n \in Nat : 2 ^ (m + n) = 2 ^ m * 2 ^ n
<1> SUFFICES ASSUME NEW m \in Nat PROVE \A n \in Nat : 2 ^ (m + n) = 2 ^ m * 2 ^ n
  OBVIOUS
<1> DEFINE S == {n \in Nat : 2 ^ (m + n) = 2 ^ m * 2 ^ n}
<1>1. 0 \in S
  <2>1. 2 ^ m \in Nat /\ 2 ^ 0 = 1 /\ m + 0 = m BY PowerStep
  <2> QED BY <2>1
<1>2. ASSUME NEW n \in Nat, n \in S PROVE n + 1 \in S
  <2> DEFINE a == 2 ^ m
             b == 2 ^ n
             c == 2 ^ (m + n)
             x == 2 ^ (n + 1)
             y == 2 ^ (m + (n + 1))
  <2>1. a \in Nat /\ b \in Nat /\ c \in Nat /\ c = a * b BY <1>2, PowerStep
  <2>2. x = 2 * b /\ y = 2 * c
    <3>1. m + n \in Nat /\ m + (n + 1) = (m + n) + 1 OBVIOUS
    <3> QED BY <3>1, PowerStep
  <2>3. y = a * x
    <3> HIDE DEF a, b, c, x, y
    <3>1. y = 2 * (a * b) /\ x = 2 * b BY <2>1, <2>2
    <3>2. a * (2 * b) = 2 * (a * b) BY <2>1
    <3> QED BY <3>1, <3>2
  <2> QED BY <2>3
<1>3. Nat \subseteq S
  <2> HIDE DEF S
  <2> QED BY <1>1, <1>2, Induced
<1> QED BY <1>3

(* Products and quotients.                                                   *)
LEMMA Mul ==
  /\ \A a, b \in Nat : a * b \in Nat /\ a * b = b * a
  /\ \A a, b, s \in Nat : a <= b => a * s <= b * s
  /\ \A a, s \in Nat : (a + 1) * s = a * s + s
<1>1. ASSUME NEW a \in Nat, NEW b \in Nat, NEW s \in Nat, a <= b PROVE a * s <= b * s
  <2>1. b - a \in Nat /\ b = a + (b - a) BY <1>1
  <2>2. b * s = a * s + (b - a) * s BY <2>1
  <2>3. (b - a) * s >= 0 BY <2>1
  <2>4. a * s \in Int /\ b * s \in Int /\ (b - a) * s \in Int BY <2>1
  <2> QED BY <2>2, <2>3, <2>4
<1> QED BY <1>1

LEMMA DivMod ==
  ASSUME NEW s \in Nat \ {0}, NEW i \in Nat
  PROVE  /\ i \div s \in Nat
         /\ (i \div s) * s <= i /\ i < (i \div s + 1) * s
<1>1. i \div s \in Int /\ i % s \in 0..(s - 1) /\ i = s * (i \div s) + (i % s) OBVIOUS
<1>2. i \div s >= 0 BY <1>1
<1> QED BY <1>1, <1>2

LEMMA DivIs ==
  ASSUME NEW s \in Nat \ {0}, NEW i \in Nat, NEW p \in Nat
  PROVE  i \div s = p <=> p * s <= i /\ i < (p + 1) * s
<1> DEFINE q == i \div s
<1>1. q \in Nat /\ q * s <= i /\ i < (q + 1) * s BY DivMod
<1> HIDE DEF q
<1>2. ASSUME p * s <= i, i < (p + 1) * s, p < q PROVE FALSE
  <2>1. (p + 1) * s <= q * s BY <1>1, <1>2, Mul
  <2> QED BY <1>1, <1>2, <2>1
<1>3. ASSUME p * s <= i, i < (p + 1) * s, q < p PROVE FALSE
  <2>1. (q + 1) * s <= p * s BY <1>1, <1>3, Mul
  <2> QED BY <1>1, <1>3, <2>1
<1>4. q = p <=> p * s <= i /\ i < (p + 1) * s BY <1>1, <1>2, <1>3
<1> QED BY <1>4 DEF q

LEMMA DivMul ==
  ASSUME NEW s \in Nat \ {0}, NEW p \in Nat
  PROVE  (p * s) \div s = p
<1>1. p * s \in Nat /\ (p + 1) * s = p * s + s BY Mul
<1>2. p * s < (p + 1) * s BY <1>1
<1> QED BY <1>1, <1>2, DivIs

LEMMA PowerPositive == \A n \in Nat : 2 ^ n \in Nat \ {0}
<1> DEFINE S == {n \in Nat : 2 ^ n \in Nat \ {0}}
<1>1. 0 \in S BY PowerStep
<1>2. ASSUME NEW n \in Nat, n \in S PROVE n + 1 \in S
  <2> DEFINE a == 2 ^ n
             b == 2 ^ (n + 1)
  <2>1. a \in Nat \ {0} /\ b = 2 * a BY <1>2, PowerStep
  <2>2. b \in Nat \ {0}
    <3> HIDE DEF a, b
    <3> QED BY <2>1
  <2> QED BY <2>2
<1>3. Nat \subseteq S
  <2> HIDE DEF S
  <2> QED BY <1>1, <1>2, Induced
<1> QED BY <1>3

-----------------------------------------------------------------------------
(* Trees.                                                                    *)

LEMMA Spans ==
  /\ \A d \in 0..Depth : /\ Span(d) \in Nat \ {0} /\ 2 ^ d \in Nat \ {0}
                         /\ 2 ^ d * Span(d) = Span(0)
  /\ \A d \in 0..(Depth - 1) : Span(d) = 2 * Span(d + 1) /\ 2 ^ (d + 1) = 2 * 2 ^ d
  /\ Span(Depth) = Batch /\ 2 ^ Depth <= Span(0)
<1>0. Depth \in Nat \ {0} /\ Batch \in Nat \ {0} BY LedgerSyncAssumption
<1>1. ASSUME NEW d \in 0..Depth
      PROVE  /\ Span(d) \in Nat \ {0} /\ 2 ^ d \in Nat \ {0}
             /\ 2 ^ d * Span(d) = Span(0)
  <2> DEFINE a == 2 ^ (Depth - d)
             b == 2 ^ d
             c == 2 ^ (Depth - 0)
  <2>0. d \in Nat /\ Depth - d \in Nat /\ d + (Depth - d) = Depth - 0 /\ Depth - 0 \in Nat
    BY <1>0
  <2>1. a \in Nat \ {0} /\ b \in Nat \ {0} /\ c \in Nat \ {0}
    BY <2>0, PowerPositive
  <2>2. c = b * a
    <3>1. 2 ^ (d + (Depth - d)) = 2 ^ d * 2 ^ (Depth - d) BY <2>0, PowerSum
    <3> QED BY <2>0, <3>1
  <2>3. Span(d) = a * Batch /\ Span(0) = c * Batch BY DEF Span
  <2> HIDE DEF a, b, c
  <2>4. a * Batch \in Nat \ {0} BY <1>0, <2>1
  <2>5. b * (a * Batch) = (b * a) * Batch BY <1>0, <2>1
  <2>6. Span(d) \in Nat \ {0} /\ b * Span(d) = Span(0) BY <2>2, <2>3, <2>4, <2>5
  <2> QED BY <2>1, <2>6 DEF b
<1>2. ASSUME NEW d \in 0..(Depth - 1)
      PROVE  Span(d) = 2 * Span(d + 1) /\ 2 ^ (d + 1) = 2 * 2 ^ d
  <2> DEFINE a == 2 ^ (Depth - d)
             b == 2 ^ (Depth - (d + 1))
  <2>1. Depth - (d + 1) \in Nat /\ Depth - d = (Depth - (d + 1)) + 1 /\ d \in Nat BY <1>0
  <2>2. a = 2 * b /\ b \in Nat BY <2>1, PowerStep
  <2>3. Span(d) = a * Batch /\ Span(d + 1) = b * Batch BY DEF Span
  <2>4. 2 ^ (d + 1) = 2 * 2 ^ d BY <2>1, PowerStep
  <2> HIDE DEF a, b
  <2>5. (2 * b) * Batch = 2 * (b * Batch) BY <1>0, <2>2
  <2>6. Span(d) = 2 * Span(d + 1) BY <2>2, <2>3, <2>5
  <2> QED BY <2>4, <2>6
<1>3. Span(Depth) = Batch
  <2>1. Depth - Depth = 0 /\ 2 ^ 0 = 1 BY <1>0, PowerStep
  <2> QED BY <1>0, <2>1 DEF Span
<1>4. 2 ^ Depth <= Span(0)
  <2>1. 2 ^ Depth \in Nat \ {0} /\ Depth - 0 = Depth BY <1>0, PowerPositive
  <2> DEFINE a == 2 ^ Depth
  <2>2. Span(0) = a * Batch BY <2>1 DEF Span
  <2> HIDE DEF a
  <2>3. a \in Nat /\ 1 * a <= Batch * a /\ a * Batch = Batch * a
    BY <1>0, <2>1, Mul DEF a
  <2>4. a <= Span(0) BY <2>2, <2>3
  <2> QED BY <2>4 DEF a
<1> QED BY <1>1, <1>2, <1>3, <1>4

(* The positions below a node.                                               *)
LEMMA Region ==
  ASSUME NEW d \in 0..Depth, NEW p \in 0..(2 ^ d - 1)
  PROVE  /\ p \in Nat
         /\ \A i \in 0..(Span(d) - 1) :
              p * Span(d) + i \in Positions /\ (p * Span(d) + i) \div Span(d) = p
         /\ \A i \in Positions : i \div Span(d) = p => i - p * Span(d) \in 0..(Span(d) - 1)
<1> DEFINE s == Span(d)
           m == 2 ^ d
<1>1. s \in Nat \ {0} /\ m \in Nat \ {0} /\ m * s = Span(0) /\ Span(0) \in Nat BY Spans
<1>2. p \in Nat /\ p + 1 <= m BY <1>1
<1> HIDE DEF s, m
<1>3. p * s \in Nat /\ (p + 1) * s = p * s + s /\ (p + 1) * s <= Span(0)
  BY <1>1, <1>2, Mul
<1>4. ASSUME NEW i \in 0..(s - 1)
      PROVE  p * s + i \in Positions /\ (p * s + i) \div s = p
  <2>1. p * s + i \in 0..(Span(0) - 1) /\ p * s + i \in Nat BY <1>1, <1>3
  <2>2. p * s <= p * s + i /\ p * s + i < (p + 1) * s BY <1>1, <1>3
  <2>3. (p * s + i) \div s = p BY <1>1, <1>2, <2>1, <2>2, DivIs
  <2> QED BY <2>1, <2>3 DEF Positions
<1>5. ASSUME NEW i \in Positions, i \div s = p PROVE i - p * s \in 0..(s - 1)
  <2>1. i \in Nat BY <1>1 DEF Positions
  <2>2. p * s <= i /\ i < (p + 1) * s BY <1>1, <1>2, <1>5, <2>1, DivIs
  <2> QED BY <1>1, <1>3, <2>1, <2>2
<1> QED BY <1>2, <1>4, <1>5 DEF s

(* There are no collisions: a hash tells the accounts below a node.          *)
LEMMA SameHash ==
  ASSUME NEW d \in 0..Depth, NEW p \in 0..(2 ^ d - 1), NEW t, NEW u
  PROVE  InnerHash(t, d, p) = InnerHash(u, d, p)
           <=> \A i \in Positions : i \div Span(d) = p => t[i] = u[i]
<1> DEFINE s == Span(d)
<1>1. s \in Nat \ {0} /\ Span(0) \in Nat BY Spans
<1>2. /\ p \in Nat
      /\ \A i \in 0..(s - 1) : p * s + i \in Positions /\ (p * s + i) \div s = p
      /\ \A i \in Positions : i \div s = p => i - p * s \in 0..(s - 1)
  BY Region
<1>3. /\ InnerHash(t, d, p) = [i \in 0..(s - 1) |-> t[p * s + i]]
      /\ InnerHash(u, d, p) = [i \in 0..(s - 1) |-> u[p * s + i]]
  BY DEF InnerHash
<1> HIDE DEF s
<1>4. ASSUME InnerHash(t, d, p) = InnerHash(u, d, p), NEW i \in Positions, i \div s = p
      PROVE  t[i] = u[i]
  <2> DEFINE j == i - p * s
  <2>1. j \in 0..(s - 1) BY <1>2, <1>4
  <2>2. p * s + j = i
    <3>1. p * s \in Nat /\ i \in Nat BY <1>1, <1>2, Mul DEF Positions
    <3> QED BY <3>1
  <2>3. t[p * s + j] = u[p * s + j] BY <1>3, <1>4, <2>1
  <2> QED BY <2>2, <2>3
<1>5. ASSUME \A i \in Positions : i \div s = p => t[i] = u[i]
      PROVE  InnerHash(t, d, p) = InnerHash(u, d, p)
  <2>1. \A i \in 0..(s - 1) : t[p * s + i] = u[p * s + i] BY <1>2, <1>5
  <2> QED BY <1>3, <2>1
<1> QED BY <1>4, <1>5 DEF s

(* A node covers what its children do.                                       *)
LEMMA Halves ==
  ASSUME NEW d \in 0..(Depth - 1), NEW p \in Nat, NEW i \in Nat
  PROVE  /\ i \div Span(d) = p
              <=> i \div Span(d + 1) = 2 * p \/ i \div Span(d + 1) = 2 * p + 1
<1> DEFINE s == Span(d)
           h == Span(d + 1)
<1>1. s \in Nat \ {0} /\ h \in Nat \ {0} /\ s = 2 * h
  <2>1. d \in 0..Depth /\ d + 1 \in 0..Depth BY LedgerSyncAssumption
  <2> QED BY <2>1, Spans
<1> HIDE DEF s, h
<1>2. i \div s = p <=> p * s <= i /\ i < (p + 1) * s BY <1>1, DivIs
<1>3. i \div h = 2 * p <=> (2 * p) * h <= i /\ i < (2 * p + 1) * h
  <2>1. 2 * p \in Nat OBVIOUS
  <2> QED BY <1>1, <2>1, DivIs
<1>4. i \div h = 2 * p + 1 <=> (2 * p + 1) * h <= i /\ i < ((2 * p + 1) + 1) * h
  <2>1. 2 * p + 1 \in Nat OBVIOUS
  <2> QED BY <1>1, <2>1, DivIs
<1>5. p * s = (2 * p) * h /\ (p + 1) * s = ((2 * p + 1) + 1) * h
  <2>1. p * (2 * h) = (2 * p) * h BY <1>1
  <2>2. (p + 1) * (2 * h) = ((2 * p + 1) + 1) * h BY <1>1
  <2> QED BY <1>1, <2>1, <2>2
<1>6. /\ (2 * p) * h \in Nat /\ (2 * p + 1) * h = (2 * p) * h + h
      /\ ((2 * p + 1) + 1) * h = (2 * p) * h + h + h
  BY <1>1
<1> QED BY <1>1, <1>2, <1>3, <1>4, <1>5, <1>6 DEF s, h

-----------------------------------------------------------------------------
(* Queries.                                                                  *)

(* The bytes sent for a depth hold its bits, and no more than a u32 does.    *)
LEMMA Bits ==
  ASSUME NEW d \in 0..Depth
  PROVE  /\ BytesOf(d) * ByteBits \in Nat
         /\ d <= BytesOf(d) * ByteBits /\ BytesOf(d) * ByteBits <= Depth
<1> DEFINE b == ByteBits
           k == (d + b - 1) \div b
           m == Depth \div b
<1>0. /\ Depth \in Nat \ {0} /\ b \in Nat \ {0} /\ b <= Depth /\ Depth % b = 0
      /\ d \in Nat /\ d <= Depth
  BY LedgerSyncAssumption
<1>1. BytesOf(d) = k BY DEF BytesOf
<1>2. d + b - 1 \in Nat /\ Depth \in Nat BY <1>0
<1>3. k \in Nat /\ k * b <= d + b - 1 /\ d + b - 1 < (k + 1) * b
  BY <1>0, <1>2, DivMod
<1>4. m \in Nat /\ m * b = Depth
  <2>1. m \in Nat BY <1>0, <1>2, DivMod
  <2>2. Depth = b * m + (Depth % b) BY <1>0
  <2> HIDE DEF m
  <2> QED BY <1>0, <2>1, <2>2
<1> HIDE DEF b, k, m
<1>5. k * b \in Nat /\ (k + 1) * b = k * b + b BY <1>0, <1>3, Mul
<1>6. d <= k * b BY <1>0, <1>3, <1>5
<1>7. k <= m
  <2> SUFFICES ASSUME m + 1 <= k PROVE FALSE
    BY <1>3, <1>4
  <2>1. (m + 1) * b <= k * b /\ (m + 1) * b = m * b + b BY <1>0, <1>3, <1>4, Mul
  <2> QED BY <1>0, <1>3, <1>4, <1>5, <2>1
<1>8. k * b <= Depth
  <2>1. k * b <= m * b BY <1>0, <1>3, <1>4, <1>7, Mul
  <2> QED BY <1>4, <2>1
<1> QED BY <1>1, <1>5, <1>6, <1>8 DEF b

(* Both ends of a query mean the same node (snarked_ledger.rs:262-288).      *)
LEMMA Decoded ==
  ASSUME NEW d \in 0..Depth, NEW p \in 0..(2 ^ d - 1)
  PROVE  Address(d, p).depth = d /\ PosOf(Address(d, p)) = p
<1> DEFINE bits == BytesOf(d) * ByteBits
           all == 2 ^ Depth
           f == 2 ^ (bits - d)
           e == 2 ^ (Depth - bits)
           sh == Shifted(d, p)
<1>0. Depth \in Nat \ {0} /\ d \in Nat /\ d <= Depth /\ bits \in Nat /\ d <= bits /\ bits <= Depth
  BY LedgerSyncAssumption, Bits
<1>1. Address(d, p).depth = d /\ Address(d, p).bytes = sh \div e
  BY DEF Address
<1>2. PosOf(Address(d, p)) = (sh \div e) \div f
  BY <1>0, <1>1 DEF PosOf
<1>3. /\ f \in Nat \ {0} /\ e \in Nat \ {0} /\ all \in Nat \ {0}
  <2>1. bits - d \in Nat /\ Depth - bits \in Nat BY <1>0
  <2> QED BY <1>0, <2>1, PowerPositive
<1>4. p \in Nat BY Region
<1>5. sh = (p * f) * e
  <2>1. CASE d = 0
    <3>1. p = 0 BY <2>1, PowerStep
    <3>2. sh = (0 * 2 ^ ((Depth - 0) % Depth)) % all BY <2>1, <3>1 DEF Shifted
    <3>3. (Depth - 0) % Depth = 0 BY <1>0
    <3>4. 0 * 2 ^ ((Depth - 0) % Depth) = 0 BY <3>3, PowerStep
    <3>5. 0 % all = 0
      <4> HIDE DEF all
      <4> QED BY <1>3
    <3>6. (p * f) * e = 0
      <4> HIDE DEF f, e
      <4> QED BY <1>3, <3>1
    <3>7. sh = 0 BY <3>2, <3>4, <3>5, Zenon
    <3> QED BY <3>6, <3>7
  <2>2. CASE d # 0
    <3> DEFINE r == 2 ^ (Depth - d)
               m == 2 ^ d
    <3>0. Depth - d \in Nat /\ (Depth - d) % Depth = Depth - d
      <4> DEFINE x == Depth - d
      <4>1. x \in Nat /\ x < Depth BY <1>0, <2>2
      <4> HIDE DEF x
      <4>2. x % Depth = x BY <1>0, <4>1
      <4> QED BY <4>1, <4>2 DEF x
    <3>1. sh = (p * r) % all BY <3>0 DEF Shifted
    <3>2. r = f * e
      <4>1. bits - d \in Nat /\ Depth - bits \in Nat /\ Depth - d = (bits - d) + (Depth - bits)
        BY <1>0
      <4>2. 2 ^ ((bits - d) + (Depth - bits)) = f * e BY <4>1, PowerSum
      <4> QED BY <4>1, <4>2
    <3>3. all = m * r
      <4>1. 2 ^ (d + (Depth - d)) = m * r BY <1>0, <3>0, PowerSum
      <4>2. d + (Depth - d) = Depth BY <1>0
      <4> QED BY <4>1, <4>2
    <3>4. r \in Nat \ {0} /\ m \in Nat \ {0} BY <1>0, <3>0, PowerPositive
    <3>5. p + 1 <= m BY <1>4, <3>4
    <3> HIDE DEF r, m, f, e, all, sh
    <3>6. p * r \in Nat /\ p * r < all
      <4>1. (p + 1) * r <= m * r /\ (p + 1) * r = p * r + r /\ p * r \in Nat
        BY <1>4, <3>4, <3>5, Mul
      <4>2. m * r \in Nat BY <3>4, Mul
      <4> QED BY <3>3, <3>4, <4>1, <4>2
    <3>7. (p * r) % all = p * r BY <1>3, <3>6
    <3>8. p * (f * e) = (p * f) * e BY <1>3, <1>4
    <3> QED BY <3>1, <3>2, <3>7, <3>8
  <2> QED BY <2>1, <2>2
<1> HIDE DEF f, e, sh, all
<1>6. p * f \in Nat BY <1>3, <1>4, Mul
<1>7. sh \div e = p * f BY <1>3, <1>5, <1>6, DivMul
<1>8. (p * f) \div f = p BY <1>3, <1>4, DivMul
<1> QED BY <1>1, <1>2, <1>7, <1>8

-----------------------------------------------------------------------------
(* Ledgers as trees.                                                         *)

Known == Ledgers \cup {<<>>}

LEMMA KnownIs ==
  ASSUME NEW l \in Known
  PROVE  /\ Len(l) \in Nat /\ Len(l) < 2 ^ Depth /\ Len(l) < Span(0)
         /\ l \in Seq(ToSet(l)) /\ DOMAIN l = 1..Len(l)
         /\ \A i \in 1..Len(l) : l[i] # None
<1>0. 2 ^ Depth \in Nat \ {0} /\ 2 ^ Depth <= Span(0) /\ Span(0) \in Nat
  BY Spans, LedgerSyncAssumption
<1>1. l \in Seq(ToSet(l)) /\ Len(l) < 2 ^ Depth /\ None \notin ToSet(l)
  <2>1. CASE l \in Ledgers BY <2>1, LedgerSyncAssumption
  <2>2. CASE l = <<>> BY <1>0, <2>2, EmptySeq DEF ToSet
  <2> QED BY <2>1, <2>2 DEF Known
<1>2. Len(l) \in Nat /\ DOMAIN l = 1..Len(l) BY <1>1, LenProperties
<1>3. \A i \in 1..Len(l) : l[i] # None BY <1>1, <1>2 DEF ToSet
<1>4. Len(l) < Span(0)
  <2> DEFINE a == 2 ^ Depth
  <2>1. a \in Nat /\ a <= Span(0) /\ Len(l) < a BY <1>0, <1>1
  <2> HIDE DEF a
  <2> QED BY <1>0, <1>2, <2>1
<1> QED BY <1>1, <1>2, <1>3, <1>4

LEMMA TreeIs ==
  ASSUME NEW l \in Known
  PROVE  /\ DOMAIN TreeOf(l) = Positions
         /\ {i \in Positions : TreeOf(l)[i] # None} = 0..(Len(l) - 1)
         /\ \A i \in 0..(Len(l) - 1) : TreeOf(l)[i] = l[i + 1]
         /\ \A i \in Positions : i >= Len(l) => TreeOf(l)[i] = None
<1>1. Len(l) \in Nat /\ Len(l) < Span(0) /\ Span(0) \in Nat BY KnownIs, Spans, LedgerSyncAssumption
<1>2. 0..(Len(l) - 1) \subseteq Positions BY <1>1 DEF Positions
<1>3. \A i \in Positions : TreeOf(l)[i] = IF i < Len(l) THEN l[i + 1] ELSE None
  BY DEF TreeOf
<1>4. ASSUME NEW i \in Positions PROVE i < Len(l) <=> i \in 0..(Len(l) - 1)
  BY <1>1 DEF Positions
<1>5. ASSUME NEW i \in 0..(Len(l) - 1) PROVE l[i + 1] # None
  <2>1. i + 1 \in 1..Len(l) BY <1>1
  <2> QED BY <2>1, KnownIs
<1>6. \A i \in Positions : i >= Len(l) => ~(i < Len(l)) BY <1>1 DEF Positions
<1>7. DOMAIN TreeOf(l) = Positions BY DEF TreeOf
<1>8. ASSUME NEW i PROVE i \in Positions /\ TreeOf(l)[i] # None <=> i \in 0..(Len(l) - 1)
  BY <1>2, <1>3, <1>4, <1>5
<1> QED BY <1>2, <1>3, <1>4, <1>6, <1>7, <1>8

(* What is stored of a ledger, and its number of accounts, are those it has  *)
(* (snarked_ledger.rs:20-45).                                                *)
LEMMA Counted ==
  ASSUME NEW l \in Known
  PROVE  NumAccounts(TreeOf(l)) = Len(l) /\ Stored(TreeOf(l)) = l
<1> DEFINE t == TreeOf(l)
           n == Len(l)
           there == {i \in Positions : t[i] # None}
           nth(k) == CHOOSE i \in there : Cardinality({j \in there : j < i}) = k - 1
<1>1. n \in Nat BY KnownIs
<1>2. there = 0..(n - 1) /\ \A i \in 0..(n - 1) : t[i] = l[i + 1] BY TreeIs
<1>3. \A m \in Nat : Cardinality(0..(m - 1)) = m
  BY FS_Interval
<1>4. NumAccounts(t) = n BY <1>1, <1>2, <1>3 DEF NumAccounts
<1>5. ASSUME NEW i \in there PROVE Cardinality({j \in there : j < i}) = i
  <2>1. i \in Nat /\ i <= n - 1 BY <1>1, <1>2, <1>5
  <2>2. {j \in 0..(n - 1) : j < i} = 0..(i - 1) BY <1>1, <2>1
  <2>3. {j \in there : j < i} = 0..(i - 1) BY <1>2, <2>2
  <2> QED BY <1>3, <2>1, <2>3
<1> HIDE DEF there
<1>6. ASSUME NEW k \in 1..n PROVE nth(k) = k - 1
  <2>1. k - 1 \in there BY <1>1, <1>2
  <2>2. Cardinality({j \in there : j < k - 1}) = k - 1 BY <1>5, <2>1
  <2>3. nth(k) \in there /\ Cardinality({j \in there : j < nth(k)}) = k - 1
    BY <2>1, <2>2
  <2> QED BY <1>5, <2>3
<1>7. Stored(t) = [k \in 1..n |-> t[nth(k)]]
  <2>1. Cardinality(there) = n BY <1>1, <1>2, <1>3
  <2> QED BY <2>1 DEF Stored, there
<1> HIDE DEF nth, t
<1>8. \A k \in 1..n : t[nth(k)] = l[k]
  <2> SUFFICES ASSUME NEW k \in 1..n PROVE t[nth(k)] = l[k]
    OBVIOUS
  <2>1. k - 1 \in 0..(n - 1) /\ (k - 1) + 1 = k BY <1>1
  <2> QED BY <1>2, <1>6, <2>1
<1>9. Stored(t) = [k \in 1..n |-> l[k]] BY <1>7, <1>8
<1>10. l = [k \in 1..n |-> l[k]]
  <2>1. l \in Seq(ToSet(l)) /\ DOMAIN l = 1..n BY KnownIs
  <2>2. l \in [1..n -> ToSet(l)] BY <2>1
  <2> QED BY <2>2
<1> QED BY <1>4, <1>9, <1>10 DEF t

LEMMA MostIs ==
  ASSUME NEW b \in Nat, NEW S, S \subseteq 0..b, S # {}
  PROVE  Max(S) \in S /\ \A k \in S : k <= Max(S)
<1> DEFINE T == {b - k : k \in S}
<1>0. \A k \in S : k \in Nat /\ k <= b OBVIOUS
<1>1. T \subseteq Nat /\ T # {}
  <2>1. \A k \in S : b - k \in Nat BY <1>0
  <2>2. PICK k \in S : TRUE OBVIOUS
  <2>3. b - k \in T BY <2>2
  <2> QED BY <2>1, <2>3
<1>2. \E x \in T : \A y \in T : x <= y
  <2> HIDE DEF T
  <2> QED BY <1>1, LeastNat
<1>3. PICK x \in T : \A y \in T : x <= y BY <1>2
<1>4. PICK m \in S : x = b - m OBVIOUS
<1>5. ASSUME NEW k \in S PROVE k <= m
  <2>1. b - k \in T OBVIOUS
  <2>2. b - m <= b - k BY <1>3, <1>4, <2>1
  <2> QED BY <2>2
<1>6. \A k \in S : m >= k BY <1>0, <1>5
<1>7. Max(S) \in S /\ \A k \in S : Max(S) >= k BY <1>6 DEF Max
<1> QED BY <1>0, <1>7

(* The accounts answered are those below the node, as far as the ledger goes *)
(* (snarked_ledger.rs:318-340).                                              *)
LEMMA ContentsIs ==
  ASSUME NEW l \in Ledgers, remote = Loaded(l, TopHash(l)), NEW p \in 0..(2 ^ Depth - 1)
  PROVE  LET c == Contents(Address(Depth, p))
             first == p * Batch
         IN  \E n \in 0..Batch :
               /\ DOMAIN c = 1..n
               /\ \A k \in 1..n : c[k] = TreeOf(l)[first + k - 1]
               /\ \A j \in first..(first + n - 1) : j < Len(l)
               /\ n = Batch \/ first + n >= Len(l)
<1> DEFINE c == Contents(Address(Depth, p))
           first == p * Batch
           K == {k \in 0..Batch : \A j \in first..(first + k - 1) :
                                    j # Len(l) /\ TreeOf(l)[j] # None}
           n == Max(K)
<1>0. Batch \in Nat \ {0} /\ Depth \in 0..Depth /\ l \in Known
  BY LedgerSyncAssumption DEF Known
<1>1. Span(Depth) = Batch BY Spans
<1>2. p \in Nat /\ \A i \in 0..(Batch - 1) : first + i \in Positions
  BY <1>0, <1>1, Region
<1>3. first \in Nat BY <1>0, <1>2, Mul
<1>4. remote.inner = TreeOf(l) /\ remote.num = Len(l) BY DEF Loaded
<1>5. /\ PosOf(Address(Depth, p)) * Span(Address(Depth, p).depth) = first
      /\ Span(Address(Depth, p).depth) = Batch
  BY <1>0, <1>1, Decoded
<1>6. c = [k \in 1..n |-> TreeOf(l)[first + k - 1]]
  BY <1>4, <1>5 DEF Contents
<1> HIDE DEF c, first
<1>7. n \in K /\ \A k \in K : k <= n
  <2>1. 0 \in K BY <1>0, <1>3
  <2>2. K \subseteq 0..Batch OBVIOUS
  <2> HIDE DEF K
  <2> QED BY <1>0, <2>1, <2>2, MostIs
<1> HIDE DEF n
<1>8. n \in 0..Batch /\ \A j \in first..(first + n - 1) : TreeOf(l)[j] # None
  BY <1>7
<1>9. /\ Len(l) \in Nat
      /\ \A i \in Positions : TreeOf(l)[i] # None <=> i \in 0..(Len(l) - 1)
  BY <1>0, KnownIs, TreeIs
<1>10. ASSUME NEW j \in first..(first + n - 1) PROVE j < Len(l)
  <2>1. j - first \in 0..(Batch - 1) /\ first + (j - first) = j BY <1>0, <1>3, <1>8
  <2>2. j \in Positions BY <1>2, <2>1
  <2>3. j \in 0..(Len(l) - 1) BY <1>8, <1>9, <2>2
  <2> QED BY <1>9, <2>3
<1>11. n = Batch \/ first + n >= Len(l)
  <2>0. CASE ~(n < Batch /\ first + n < Len(l)) BY <1>0, <1>3, <1>8, <1>9, <2>0
  <2> SUFFICES ASSUME n < Batch, first + n < Len(l) PROVE FALSE
    BY <2>0
  <2>1. ASSUME NEW j \in first..(first + (n + 1) - 1)
        PROVE  j # Len(l) /\ TreeOf(l)[j] # None
    <3>1. j <= first + n /\ j \in Nat BY <1>3, <1>8
    <3>2. j < Len(l) BY <1>3, <1>8, <1>9, <3>1
    <3>3. j - first \in 0..(Batch - 1) /\ first + (j - first) = j
      BY <1>0, <1>3, <1>8, <3>1
    <3>4. j \in Positions BY <1>2, <3>3
    <3>5. j \in 0..(Len(l) - 1) BY <1>9, <3>1, <3>2
    <3> QED BY <1>9, <3>2, <3>4, <3>5
  <2>2. n + 1 \in K BY <1>0, <1>8, <2>1
  <2>3. n + 1 <= n BY <1>7, <2>2
  <2> QED BY <1>8, <2>3
<1>12. DOMAIN c = 1..n /\ \A k \in 1..n : c[k] = TreeOf(l)[first + k - 1]
  BY <1>6
<1> QED BY <1>8, <1>10, <1>11, <1>12 DEF c, first

LEMMA SmallMod ==
  ASSUME NEW x \in Nat, NEW m \in Nat \ {0}, x < m
  PROVE  x % m = x
OBVIOUS

(* The accounts below the node become those of the ledger, and no other one  *)
(* changes (snarked_ledger.rs:155-172).                                      *)
LEMMA ContentsSet ==
  ASSUME NEW l \in Ledgers, remote = Loaded(l, TopHash(l)), NEW p \in 0..(2 ^ Depth - 1),
         \A i \in Positions : i >= Len(l) => inner[i] = None,
         NEW accounts, accounts = Contents(Address(Depth, p)),
         NEW first, first = (p * Batch) % 2 ^ Depth,
         inner' = [i \in Positions |-> IF i - first + 1 \in DOMAIN accounts
                                       THEN accounts[i - first + 1] ELSE inner[i]]
  PROVE  \A i \in Positions :
           inner'[i] = IF i \div Span(Depth) = p THEN TreeOf(l)[i] ELSE inner[i]
<1> DEFINE f == p * Batch
           all == 2 ^ Depth
<1>0. /\ Batch \in Nat \ {0} /\ Depth \in 0..Depth /\ l \in Known /\ all \in Nat \ {0}
      /\ Span(Depth) = Batch /\ Span(0) \in Nat
  <2>1. Batch \in Nat \ {0} /\ Depth \in 0..Depth BY LedgerSyncAssumption
  <2>2. l \in Known BY DEF Known
  <2>3. all \in Nat \ {0} BY <2>1, Spans
  <2>4. Span(Depth) = Batch /\ Span(0) \in Nat BY <2>1, Spans
  <2> QED BY <2>1, <2>2, <2>3, <2>4
<1>1. PICK n \in 0..Batch :
        /\ DOMAIN accounts = 1..n
        /\ \A k \in 1..n : accounts[k] = TreeOf(l)[f + k - 1]
        /\ \A j \in f..(f + n - 1) : j < Len(l)
        /\ n = Batch \/ f + n >= Len(l)
  BY ContentsIs
<1>2. /\ Len(l) \in Nat /\ Len(l) < all
      /\ \A i \in Positions : i >= Len(l) => TreeOf(l)[i] = None
  BY <1>0, KnownIs, TreeIs
<1>3. p \in Nat BY <1>0, Region
<1>4. f \in Nat /\ (p + 1) * Batch = f + Batch BY <1>0, <1>3, Mul
<1>5. ASSUME NEW i \in Positions
      PROVE  i \in Nat /\ (i \div Batch = p <=> f <= i /\ i < f + Batch)
  <2>1. i \in Nat BY <1>0 DEF Positions
  <2>2. i \div Batch = p <=> p * Batch <= i /\ i < (p + 1) * Batch
    BY <1>0, <1>3, <2>1, DivIs
  <2> QED BY <1>4, <2>1, <2>2
<1>6. n # 0 => first = f
  <2> SUFFICES ASSUME n # 0 PROVE first = f
    OBVIOUS
  <2>1. first = f % all OBVIOUS
  <2> HIDE DEF f, all
  <2>2. f \in f..(f + n - 1) BY <1>4
  <2>3. f < all BY <1>1, <1>2, <1>0, <1>4, <2>2
  <2>4. f % all = f BY <1>0, <1>4, <2>3, SmallMod
  <2> QED BY <2>1, <2>4
<1> SUFFICES ASSUME NEW i \in Positions
             PROVE  inner'[i] = IF i \div Batch = p THEN TreeOf(l)[i] ELSE inner[i]
  BY <1>0
<1>7. inner'[i] = IF i - first + 1 \in 1..n THEN accounts[i - first + 1] ELSE inner[i]
  BY <1>1
<1> HIDE DEF f, all
<1>8. CASE n = 0
  <2>1. inner'[i] = inner[i] BY <1>7, <1>8
  <2>2. f >= Len(l) BY <1>0, <1>1, <1>4, <1>8
  <2>3. i \div Batch = p => inner[i] = TreeOf(l)[i]
    <3> SUFFICES ASSUME i \div Batch = p PROVE inner[i] = TreeOf(l)[i]
      OBVIOUS
    <3>1. i >= Len(l) BY <1>2, <1>4, <1>5, <2>2
    <3> QED BY <1>2, <3>1
  <2> QED BY <2>1, <2>3
<1>9. CASE n # 0
  <2>1. first = f BY <1>6, <1>9
  <2>2. CASE i - f + 1 \in 1..n
    <3>0. i \in Nat /\ n <= Batch /\ n \in Nat BY <1>0, <1>1, <1>5
    <3>1. i \div Batch = p
      <4>1. f \in Nat /\ i - f + 1 \in Int /\ Batch \in Nat BY <1>0, <1>4, <3>0
      <4>2. 1 <= i - f + 1 /\ i - f + 1 <= n BY <2>2, <3>0
      <4>3. f <= i /\ i < f + Batch BY <3>0, <4>1, <4>2
      <4> QED BY <1>5, <4>3
    <3>2. f + (i - f + 1) - 1 = i BY <1>4, <3>0
    <3>3. accounts[i - f + 1] = TreeOf(l)[i] BY <1>1, <2>2, <3>2
    <3> QED BY <1>7, <2>1, <2>2, <3>1, <3>3
  <2>3. CASE i - f + 1 \notin 1..n
    <3>1. inner'[i] = inner[i] BY <1>7, <2>1, <2>3
    <3>2. ASSUME i \div Batch = p PROVE inner[i] = TreeOf(l)[i]
      <4>1. f <= i /\ i < f + Batch /\ i \in Nat BY <1>5, <3>2
      <4>2. i >= f + n BY <1>4, <2>3, <4>1
      <4>3. n # Batch BY <1>4, <4>1, <4>2
      <4>4. i >= Len(l) BY <1>1, <1>2, <1>4, <4>1, <4>2, <4>3
      <4> QED BY <1>2, <4>4
    <3> QED BY <3>1, <3>2
  <2> QED BY <2>2, <2>3
<1> QED BY <1>8, <1>9

-----------------------------------------------------------------------------
(* The calls under way.                                                      *)

Within(frame, i) == i \div Span(frame.depth) = frame.pos

HashOf(l, d, p) == IF d = 0 THEN TopHash(l) ELSE InnerHash(TreeOf(l), d, p)

Hashes(l) == {TopHash(l)} \cup {InnerHash(TreeOf(l), d, p) : d \in 0..Depth, p \in Nat}

(* The nodes of a ledger's tree, with the hashes they should have.           *)
Frames(l) ==
  {f \in [op : {"visit", "check"}, depth : 0..Depth, pos : Nat, hash : Hashes(l)] :
     f.pos \in 0..(2 ^ f.depth - 1) /\ f.hash = HashOf(l, f.depth, f.pos)}

(* A node still to visit has no account in common with one before it.        *)
Apart(s) ==
  \A j, k \in DOMAIN s :
    j < k /\ s[k].op = "visit" =>
      \A i \in Positions : ~ (Within(s[j], i) /\ Within(s[k], i))

Open(s, i) == \E k \in DOMAIN s : Covers(s[k], i)

LEMMA FrameOf ==
  ASSUME NEW l, NEW d \in 0..Depth, NEW p \in 0..(2 ^ d - 1)
  PROVE  /\ Visit(d, p, HashOf(l, d, p)) \in Frames(l)
         /\ Check(d, p, HashOf(l, d, p)) \in Frames(l)
<1>1. p \in Nat BY Region
<1>2. HashOf(l, d, p) \in Hashes(l) BY <1>1 DEF HashOf, Hashes
<1> HIDE DEF HashOf, Hashes
<1> QED BY <1>1, <1>2 DEF Visit, Check, Frames

LEMMA FrameHas ==
  ASSUME NEW l, NEW f \in Frames(l)
  PROVE  /\ f.op \in {"visit", "check"} /\ f.depth \in 0..Depth
         /\ f.pos \in 0..(2 ^ f.depth - 1) /\ f.pos \in Nat
         /\ f.hash = HashOf(l, f.depth, f.pos)
BY DEF Frames

(* One call is replaced by others, which run first.                          *)
LEMMA Replaced ==
  ASSUME NEW S, NEW u \in Seq(S), NEW s \in Seq(S), s # <<>>
  PROVE  /\ u \o Tail(s) \in Seq(S) /\ Head(s) = s[1] /\ 1 \in DOMAIN s
         /\ \A k \in DOMAIN u : k \in DOMAIN (u \o Tail(s)) /\ (u \o Tail(s))[k] = u[k]
         /\ \A k \in DOMAIN s : k # 1 =>
              /\ Len(u) + k - 1 \in DOMAIN (u \o Tail(s))
              /\ (u \o Tail(s))[Len(u) + k - 1] = s[k]
         /\ \A k \in DOMAIN (u \o Tail(s)) :
              /\ k \in Nat
              /\ k \in DOMAIN u \/ (k - Len(u) + 1 \in DOMAIN s \ {1} /\ k > Len(u))
<1>1. /\ Len(u) \in Nat /\ DOMAIN u = 1..Len(u)
      /\ Len(s) \in Nat \ {0} /\ DOMAIN s = 1..Len(s)
  BY LenProperties, EmptySeq
<1>2. /\ Tail(s) \in Seq(S) /\ Len(Tail(s)) = Len(s) - 1
      /\ \A i \in 1..(Len(s) - 1) : Tail(s)[i] = s[i + 1]
  BY HeadTailProperties
<1> DEFINE r == u \o Tail(s)
<1>3. /\ r \in Seq(S) /\ Len(r) = Len(u) + Len(s) - 1
      /\ \A i \in 1..(Len(u) + Len(s) - 1) :
           r[i] = IF i <= Len(u) THEN u[i] ELSE Tail(s)[i - Len(u)]
  <2>1. /\ r \in Seq(S) /\ Len(r) = Len(u) + Len(Tail(s))
        /\ \A i \in 1..(Len(u) + Len(Tail(s))) :
             r[i] = IF i <= Len(u) THEN u[i] ELSE Tail(s)[i - Len(u)]
    BY <1>2, ConcatProperties
  <2>2. Len(u) + Len(Tail(s)) = Len(u) + Len(s) - 1 BY <1>1, <1>2
  <2> QED BY <2>1, <2>2
<1>4. DOMAIN r = 1..(Len(u) + Len(s) - 1)
  <2>1. DOMAIN r = 1..Len(r) BY <1>3, LenProperties
  <2> QED BY <1>3, <2>1
<1>5. Head(s) = s[1] OBVIOUS
<1> HIDE DEF r
<1>6. ASSUME NEW k \in DOMAIN s, k # 1
      PROVE  Len(u) + k - 1 \in DOMAIN r /\ r[Len(u) + k - 1] = s[k]
  <2>1. k - 1 \in 1..(Len(s) - 1) /\ (k - 1) + 1 = k BY <1>1, <1>6
  <2>2. /\ Len(u) + k - 1 \in 1..(Len(u) + Len(s) - 1)
        /\ ~ (Len(u) + k - 1 <= Len(u)) /\ (Len(u) + k - 1) - Len(u) = k - 1
    BY <1>1, <2>1
  <2>3. r[Len(u) + k - 1] = Tail(s)[k - 1] BY <1>3, <2>2
  <2>4. Tail(s)[k - 1] = s[k] BY <1>2, <2>1
  <2> QED BY <1>4, <2>2, <2>3, <2>4
<1>7. ASSUME NEW k \in DOMAIN r
      PROVE  /\ k \in Nat
             /\ k \in DOMAIN u \/ (k - Len(u) + 1 \in DOMAIN s \ {1} /\ k > Len(u))
  BY <1>1, <1>4, <1>7
<1>8. ASSUME NEW k \in DOMAIN u PROVE k \in DOMAIN r /\ r[k] = u[k]
  <2>1. k \in 1..(Len(u) + Len(s) - 1) /\ k <= Len(u) BY <1>1
  <2> QED BY <1>3, <1>4, <2>1
<1> QED BY <1>1, <1>3, <1>5, <1>6, <1>7, <1>8 DEF r

LEMMA StaysApart ==
  ASSUME NEW S, NEW u \in Seq(S), NEW s \in Seq(S), s # <<>>,
         Apart(s), Apart(u),
         \A k \in DOMAIN u : \A i \in Positions : Within(u[k], i) => Within(Head(s), i)
  PROVE  Apart(u \o Tail(s))
<1> DEFINE r == u \o Tail(s)
           n == Len(u)
<1>1. /\ r \in Seq(S) /\ Head(s) = s[1] /\ 1 \in DOMAIN s
      /\ \A k \in DOMAIN u : k \in DOMAIN r /\ r[k] = u[k]
      /\ \A k \in DOMAIN s : k # 1 => n + k - 1 \in DOMAIN r /\ r[n + k - 1] = s[k]
      /\ \A k \in DOMAIN r :
           /\ k \in Nat
           /\ k \in DOMAIN u \/ (k - n + 1 \in DOMAIN s \ {1} /\ k > n)
  BY Replaced, Zenon
<1>2. n \in Nat /\ DOMAIN u = 1..n /\ Len(s) \in Nat /\ DOMAIN s = 1..Len(s)
  BY LenProperties
<1> HIDE DEF r, n
<1> SUFFICES ASSUME NEW j \in DOMAIN r, NEW k \in DOMAIN r, j < k, r[k].op = "visit",
                    NEW i \in Positions
             PROVE  ~ (Within(r[j], i) /\ Within(r[k], i))
  BY DEF Apart, r
<1>3. CASE k \in DOMAIN u
  <2>0. j \in Nat /\ k \in Nat BY <1>1
  <2>1. j \in DOMAIN u BY <1>1, <1>2, <1>3, <2>0
  <2>2. r[j] = u[j] /\ r[k] = u[k] BY <1>1, <1>3, <2>1
  <2> QED BY <1>3, <2>1, <2>2 DEF Apart
<1>4. CASE k \notin DOMAIN u
  <2> DEFINE k2 == k - n + 1
  <2>1. k2 \in DOMAIN s /\ k2 # 1 /\ k \in Int BY <1>1, <1>4
  <2>2. r[k] = s[k2]
    <3>1. n + k2 - 1 = k BY <1>2, <2>1
    <3> QED BY <1>1, <2>1, <3>1
  <2>3. CASE j \in DOMAIN u
    <3>1. r[j] = u[j] BY <1>1, <2>3
    <3>2. 1 < k2 BY <1>2, <2>1
    <3>3. ~ (Within(s[1], i) /\ Within(s[k2], i)) BY <1>1, <2>1, <2>2, <3>2 DEF Apart
    <3> QED BY <1>1, <2>2, <2>3, <3>1, <3>3
  <2>4. CASE j \notin DOMAIN u
    <3> DEFINE j2 == j - n + 1
    <3>1. j2 \in DOMAIN s /\ j2 # 1 /\ j \in Int BY <1>1, <2>4
    <3>2. n + j2 - 1 = j /\ j2 < k2 BY <1>2, <2>1, <3>1
    <3>3. r[j] = s[j2] BY <1>1, <3>1, <3>2
    <3> QED BY <2>1, <2>2, <3>1, <3>2, <3>3 DEF Apart
  <2> QED BY <2>3, <2>4
<1> QED BY <1>3, <1>4

LEMMA StaysOpen ==
  ASSUME NEW S, NEW u \in Seq(S), NEW s \in Seq(S), s # <<>>,
         NEW i, Open(s, i)
  PROVE  Open(u \o Tail(s), i) \/ Covers(Head(s), i)
<1>1. /\ Head(s) = s[1]
      /\ \A k \in DOMAIN s : k # 1 =>
           /\ Len(u) + k - 1 \in DOMAIN (u \o Tail(s))
           /\ (u \o Tail(s))[Len(u) + k - 1] = s[k]
  BY Replaced
<1>2. PICK k \in DOMAIN s : Covers(s[k], i) BY DEF Open
<1>3. CASE k = 1 BY <1>1, <1>2, <1>3
<1>4. CASE k # 1 BY <1>1, <1>2, <1>4 DEF Open
<1> QED BY <1>3, <1>4

LEMMA OpensFirst ==
  ASSUME NEW S, NEW u \in Seq(S), NEW s \in Seq(S), s # <<>>,
         NEW i, Open(u, i)
  PROVE  Open(u \o Tail(s), i)
BY Replaced DEF Open

(* The children of a node, and the node after them (snarked_ledger.rs:117). *)
LEMMA ChildrenAre ==
  ASSUME NEW l \in Ledgers, remote = Loaded(l, TopHash(l)),
         NEW f \in Frames(l), f.depth < Depth,
         NEW u, u = Children(f, Address(f.depth, f.pos)) \o <<Check(f.depth, f.pos, f.hash)>>
  PROVE  /\ u \in Seq(Frames(l)) /\ Apart(u)
         /\ \A k \in DOMAIN u : \A i \in Positions : Within(u[k], i) => Within(f, i)
         /\ \A i \in Positions : Within(f, i) => Open(u, i)
<1> DEFINE d == f.depth
           p == f.pos
           v(s) == Visit(d + 1, 2 * p + s, HashOf(l, d + 1, 2 * p + s))
           c == Check(d, p, f.hash)
           w == Children(f, Address(f.depth, f.pos))
<1>1. /\ d \in 0..Depth /\ d \in 0..(Depth - 1) /\ p \in 0..(2 ^ d - 1) /\ p \in Nat
      /\ d + 1 \in 0..Depth /\ d + 1 # 0 /\ f.hash = HashOf(l, d, p)
  <2>1. d \in 0..Depth /\ p \in 0..(2 ^ d - 1) /\ p \in Nat /\ f.hash = HashOf(l, d, p)
    BY FrameHas
  <2>2. d < Depth /\ Depth \in Nat BY LedgerSyncAssumption
  <2> HIDE DEF d, p
  <2>3. d \in 0..(Depth - 1) /\ d + 1 \in 0..Depth /\ d + 1 # 0 BY <2>1, <2>2
  <2> QED BY <2>1, <2>3
<1>2. Address(d, p).depth = d /\ PosOf(Address(d, p)) = p BY <1>1, Decoded
<1>3. ASSUME NEW s \in 0..1 PROVE 2 * p + s \in 0..(2 ^ (d + 1) - 1)
  <2> DEFINE a == 2 ^ d
             b == 2 ^ (d + 1)
  <2>1. b = 2 * a /\ a \in Nat BY <1>1, Spans
  <2>2. p <= a - 1 BY <1>1
  <2>3. p \in Nat /\ s \in 0..1 BY <1>1
  <2> HIDE DEF a, b, p
  <2>4. 2 * p + s \in 0..(b - 1) BY <2>1, <2>2, <2>3
  <2> QED BY <2>4 DEF b, p
<1>4. ASSUME NEW s \in 0..1 PROVE v(s) \in Frames(l)
  BY <1>1, <1>3, FrameOf
<1>5. c \in Frames(l) BY <1>1, FrameOf
<1>6. ASSUME NEW s \in 1..2 PROVE w[s] = v(s - 1)
  <2>1. ChildHash(Address(d, p), s - 1) = InnerHash(TreeOf(l), d + 1, 2 * p + (s - 1))
    BY <1>2 DEF ChildHash, Loaded
  <2>2. ChildHash(Address(d, p), s - 1) = HashOf(l, d + 1, 2 * p + (s - 1))
    BY <1>1, <2>1 DEF HashOf
  <2>3. w[s] = Visit(d + 1, 2 * p + s - 1, ChildHash(Address(d, p), s - 1))
    BY DEF Children
  <2>4. 2 * p + s - 1 = 2 * p + (s - 1) BY <1>1
  <2> QED BY <2>2, <2>3, <2>4
<1>7. DOMAIN w = 1..2 BY DEF Children
<1>8. /\ \A s \in 0..1 : v(s).depth = d + 1 /\ v(s).pos = 2 * p + s /\ v(s).op = "visit"
      /\ c.depth = d /\ c.pos = p /\ c.op = "check"
  BY DEF Visit, Check
<1>9. w \in Seq(Frames(l)) /\ Len(w) = 2
  <2>1. w = [s \in 1..2 |-> w[s]] BY DEF Children
  <2> HIDE DEF v, w
  <2>2. \A s \in 1..2 : w[s] \in Frames(l)
    <3>1. \A s \in 1..2 : s - 1 \in 0..1 OBVIOUS
    <3> QED BY <1>4, <1>6, <3>1
  <2> DEFINE F == Frames(l)
  <2> HIDE DEF F
  <2>3. w \in [1..2 -> F] BY <2>1, <2>2 DEF F
  <2>4. w \in Seq(F)
    <3>1. w \in UNION {[1..n -> F] : n \in Nat} BY <2>3
    <3> QED BY <3>1, SeqDef, Zenon
  <2>5. Len(w) = 2 BY <2>4, <1>7, LenProperties
  <2> QED BY <2>4, <2>5 DEF F
<1> HIDE DEF v, w, c
<1>10. /\ u \in Seq(Frames(l)) /\ DOMAIN u = 1..3
       /\ u[1] = v(0) /\ u[2] = v(1) /\ u[3] = c
  <2> DEFINE F == Frames(l)
  <2> HIDE DEF F
  <2>1. w \in Seq(F) /\ Len(w) = 2 /\ c \in F BY <1>5, <1>9 DEF F
  <2>2. <<c>> \in Seq(F) /\ Len(<<c>>) = 1 /\ <<c>>[1] = c BY <2>1
  <2>3. u = w \o <<c>> BY DEF w, c
  <2> DEFINE o == <<c>>
  <2> HIDE DEF o
  <2>4. o \in Seq(F) /\ Len(o) = 1 /\ o[1] = c /\ u = w \o o BY <2>2, <2>3 DEF o
  <2>5. /\ u \in Seq(F) /\ Len(u) = 3
        /\ \A i \in 1..3 : u[i] = IF i <= 2 THEN w[i] ELSE o[i - 2]
    <3>1. /\ w \o o \in Seq(F) /\ Len(w \o o) = Len(w) + Len(o)
          /\ \A i \in 1..(Len(w) + Len(o)) :
               (w \o o)[i] = IF i <= Len(w) THEN w[i] ELSE o[i - Len(w)]
      BY <2>1, <2>4, ConcatProperties, Zenon
    <3>2. Len(w) = 2 /\ Len(o) = 1 /\ Len(w) + Len(o) = 3 BY <2>1, <2>4
    <3>3. u = w \o o BY <2>4
    <3> DEFINE x == w \o o
    <3> HIDE DEF x
    <3>4. /\ x \in Seq(F) /\ Len(x) = Len(w) + Len(o)
          /\ \A i \in 1..(Len(w) + Len(o)) :
               x[i] = IF i <= Len(w) THEN w[i] ELSE o[i - Len(w)]
      BY <3>1 DEF x
    <3>5. u = x BY <3>3 DEF x
    <3> QED BY <3>2, <3>4, <3>5
  <2>6. DOMAIN u = 1..3 BY <2>5, LenProperties
  <2>7. u[1] = w[1] /\ u[2] = w[2] /\ u[3] = o[1] BY <2>5
  <2>8. w[1] = v(0) /\ w[2] = v(1) BY <1>6
  <2> QED BY <2>4, <2>5, <2>6, <2>7, <2>8 DEF F
<1>11. ASSUME NEW i \in Positions
       PROVE  /\ Within(f, i) <=> Within(v(0), i) \/ Within(v(1), i)
              /\ ~ (Within(v(0), i) /\ Within(v(1), i))
              /\ Within(c, i) <=> Within(f, i)
  <2>1. i \in Nat BY Spans, LedgerSyncAssumption DEF Positions
  <2>2. i \div Span(d) = p
          <=> i \div Span(d + 1) = 2 * p \/ i \div Span(d + 1) = 2 * p + 1
    BY <1>1, <2>1, Halves
  <2>3. v(0).depth = d + 1 /\ v(0).pos = 2 * p /\ v(1).depth = d + 1 /\ v(1).pos = 2 * p + 1
    BY <1>1, <1>8
  <2>4. 2 * p # 2 * p + 1 BY <1>1
  <2>5. Within(v(0), i) <=> i \div Span(d + 1) = 2 * p BY <2>3 DEF Within
  <2>6. Within(v(1), i) <=> i \div Span(d + 1) = 2 * p + 1 BY <2>3 DEF Within
  <2>7. Within(c, i) <=> Within(f, i) BY <1>8 DEF Within
  <2>8. Within(f, i) <=> i \div Span(d) = p BY DEF Within
  <2> QED BY <2>2, <2>4, <2>5, <2>6, <2>7, <2>8
<1>12. Apart(u)
  <2> SUFFICES ASSUME NEW j \in DOMAIN u, NEW k \in DOMAIN u, j < k, u[k].op = "visit",
                      NEW i \in Positions
               PROVE  ~ (Within(u[j], i) /\ Within(u[k], i))
    BY DEF Apart
  <2>1. k # 3 BY <1>8, <1>10
  <2>2. j = 1 /\ k = 2 BY <1>10, <2>1
  <2> QED BY <1>10, <1>11, <2>2
<1>13. ASSUME NEW k \in DOMAIN u, NEW i \in Positions, Within(u[k], i) PROVE Within(f, i)
  <2>1. k = 1 \/ k = 2 \/ k = 3 BY <1>10
  <2> QED BY <1>10, <1>11, <1>13, <2>1
<1>14. ASSUME NEW i \in Positions, Within(f, i) PROVE Open(u, i)
  <2>1. \A k \in 1..2 : Within(u[k], i) => Covers(u[k], i)
    <3>1. \A k \in 1..2 : u[k].op = "visit" BY <1>8, <1>10
    <3> QED BY <3>1 DEF Within, Covers
  <2>2. Within(u[1], i) \/ Within(u[2], i) BY <1>10, <1>11, <1>14
  <2> QED BY <1>10, <2>1, <2>2 DEF Open
<1> QED BY <1>10, <1>12, <1>13, <1>14

-----------------------------------------------------------------------------
(* The invariant.                                                            *)

Goal ==
  /\ wanted \in Ledgers
  /\ root = MerkleRoot(TreeOf(wanted))
  /\ remote = Loaded(wanted, TopHash(wanted))
  /\ inner = [i \in Positions |-> inner[i]]

OldLedger == phase = "idle" => \E l \in Known : inner = TreeOf(l)

Fetching ==
  phase = "syncs" =>
    /\ num = Len(wanted) /\ top_hash = TopHash(wanted)
    /\ \A i \in Positions : i >= Len(wanted) => inner[i] = None
    /\ stack \in Seq(Frames(wanted)) /\ Apart(stack)

SyncInv == Goal /\ OldLedger /\ Fetching /\ OthersFetched /\ SyncedIsWanted /\ NoPanic

(* The hashes are compared where the accounts are                            *)
(* (snarked_ledger.rs:124-128, 173-175).                                     *)
LEMMA MatchIs ==
  ASSUME Goal, NEW f \in Frames(wanted)
  PROVE  Matches(f)
           <=> \A i \in Positions : Within(f, i) => inner[i] = TreeOf(wanted)[i]
<1> DEFINE d == f.depth
           p == f.pos
           T == TreeOf(wanted)
<1>1. d \in 0..Depth /\ p \in 0..(2 ^ d - 1) /\ p \in Nat /\ f.hash = HashOf(wanted, d, p)
  BY FrameHas
<1>2. (IF d = 0 THEN root ELSE f.hash) = InnerHash(T, d, p)
  <2>1. CASE d = 0
    <3>1. p = 0 BY <1>1, <2>1, PowerStep
    <3> QED BY <2>1, <3>1 DEF Goal, MerkleRoot
  <2>2. CASE d # 0 BY <1>1, <2>2 DEF HashOf
  <2> QED BY <2>1, <2>2
<1>3. Matches(f) <=> InnerHash(inner, d, p) = InnerHash(T, d, p)
  BY <1>2 DEF Matches
<1> HIDE DEF T
<1>4. InnerHash(inner, d, p) = InnerHash(T, d, p)
        <=> \A i \in Positions : i \div Span(d) = p => inner[i] = T[i]
  BY <1>1, SameHash
<1> QED BY <1>3, <1>4 DEF T, Within

(* The hash asked for is that of no other ledger.                            *)
LEMMA RootIs ==
  ASSUME Goal
  PROVE  /\ MerkleRoot(inner) = root
              <=> \A i \in Positions : inner[i] = TreeOf(wanted)[i]
         /\ MerkleRoot(inner) = root => inner = TreeOf(wanted)
<1> DEFINE T == TreeOf(wanted)
<1>1. 0 \in 0..Depth /\ 0 \in 0..(2 ^ 0 - 1)
  BY LedgerSyncAssumption, PowerStep
<1>2. \A i \in Positions : i \div Span(0) = 0
  <2>1. Span(0) \in Nat \ {0} BY <1>1, Spans
  <2>2. ASSUME NEW i \in 0..(Span(0) - 1) PROVE i \div Span(0) = 0
    <3>1. i \in Nat /\ 0 * Span(0) <= i /\ i < (0 + 1) * Span(0) BY <2>1
    <3> QED BY <2>1, <3>1, DivIs
  <2> QED BY <2>2 DEF Positions
<1>3. T = [i \in Positions |-> T[i]] BY DEF TreeOf
<1> HIDE DEF T
<1>4. InnerHash(inner, 0, 0) = InnerHash(T, 0, 0)
        <=> \A i \in Positions : i \div Span(0) = 0 => inner[i] = T[i]
  <2>1. \A d \in 0..Depth : \A p \in 0..(2 ^ d - 1) :
          InnerHash(inner, d, p) = InnerHash(T, d, p)
            <=> \A i \in Positions : i \div Span(d) = p => inner[i] = T[i]
    BY SameHash
  <2> QED BY <1>1, <2>1, Zenon
<1>5. MerkleRoot(inner) = root <=> \A i \in Positions : inner[i] = T[i]
  BY <1>2, <1>4 DEF Goal, MerkleRoot, T
<1>6. (\A i \in Positions : inner[i] = T[i]) => inner = T
  BY <1>3 DEF Goal
<1> QED BY <1>5, <1>6 DEF T

(* A call under way is replaced by the calls `u` of the same node, and the   *)
(* accounts no call will fetch are those wanted.                             *)
LEMMA Stepped ==
  ASSUME SyncInv, phase = "syncs", stack # <<>>,
         NEW u \in Seq(Frames(wanted)), Apart(u),
         \A k \in DOMAIN u : \A i \in Positions : Within(u[k], i) => Within(Now, i),
         stack' = u \o Tail(stack), phase' = phase,
         UNCHANGED <<top_hash, num, remote, root, wanted>>,
         inner' = [i \in Positions |-> inner'[i]],
         \A i \in Positions : inner'[i] = inner[i] \/ inner'[i] = TreeOf(wanted)[i],
         ~denied' =>
           /\ ~denied
           /\ \A i \in Positions : Covers(Now, i) =>
                inner'[i] = TreeOf(wanted)[i] \/ Open(u, i)
  PROVE  SyncInv'
<1> DEFINE T == TreeOf(wanted)
           F == Frames(wanted)
           P == Positions
<1>0. wanted \in Known /\ (P)' = P /\ (T)' = T /\ (F)' = F
  BY DEF SyncInv, Goal, Known
<1>1. stack \in Seq(F) /\ Apart(stack) BY DEF SyncInv, Fetching
<1>2. Goal' BY DEF SyncInv, Goal
<1>3. \A i \in P : i >= Len(wanted) => inner'[i] = None
  <2>1. \A i \in P : i >= Len(wanted) => inner[i] = None /\ T[i] = None
    BY <1>0, TreeIs DEF SyncInv, Fetching
  <2> HIDE DEF T, P
  <2> QED BY <2>1 DEF T, P
<1> HIDE DEF F
<1>4. u \o Tail(stack) \in Seq(F) BY <1>1, Replaced DEF F
<1>5. Apart(u \o Tail(stack))
  BY <1>1, StaysApart DEF Now, F
<1>6. Fetching'
  <2>1. stack' \in Seq(F) /\ Apart(stack)'
    <3> DEFINE r == u \o Tail(stack)
    <3>1. stack' = r /\ r \in Seq(F) /\ Apart(r) BY <1>4, <1>5
    <3> HIDE DEF r
    <3> QED BY <3>1 DEF Apart
  <2> QED BY <1>3, <2>1 DEF Fetching, SyncInv, F
<1>7. OthersFetched'
  <2> SUFFICES ASSUME ~denied', NEW i \in P
               PROVE  inner'[i] = T[i] \/ Open(u \o Tail(stack), i)
    BY DEF OthersFetched, Open
  <2>1. inner[i] = T[i] \/ Open(stack, i) BY DEF SyncInv, OthersFetched, Open
  <2>2. CASE inner[i] = T[i] BY <2>2
  <2>3. CASE Open(stack, i)
    <3>1. Open(u \o Tail(stack), i) \/ Covers(Now, i)
      BY <1>1, <2>3, StaysOpen DEF Now, F
    <3>2. Open(u, i) => Open(u \o Tail(stack), i)
      BY <1>1, OpensFirst DEF F
    <3> QED BY <3>1, <3>2
  <2> QED BY <2>1, <2>2, <2>3
<1>8. OldLedger' /\ SyncedIsWanted' /\ NoPanic'
  BY DEF OldLedger, SyncedIsWanted, NoPanic
<1> QED BY <1>2, <1>6, <1>7, <1>8 DEF SyncInv

LEMMA NowIs ==
  ASSUME SyncInv, phase = "syncs", stack # <<>>
  PROVE  Now \in Frames(wanted) /\ Now = stack[1] /\ 1 \in DOMAIN stack
<1>1. stack \in Seq(Frames(wanted)) BY DEF SyncInv, Fetching
<1> DEFINE F == Frames(wanted)
<1> HIDE DEF F
<1>2. stack \in Seq(F) BY <1>1 DEF F
<1>3. Now \in F /\ Now = stack[1] BY <1>2, HeadTailProperties DEF Now
<1>4. 1 \in DOMAIN stack BY <1>2, EmptySeq, LenProperties
<1> QED BY <1>3, <1>4 DEF F

LEMMA InitSync == Init => SyncInv
<1> SUFFICES ASSUME Init PROVE SyncInv
  OBVIOUS
<1>1. PICK old \in OldLedgers : Begins(old) BY DEF Init
<1>2. \E l \in Known : inner = TreeOf(l)
  BY <1>1 DEF OldLedgers, Begins, Loaded, NoAccounts, Known
<1>3. inner = [i \in Positions |-> inner[i]] BY <1>2 DEF TreeOf
<1> QED BY <1>2, <1>3 DEF Init, SyncInv, Goal, OldLedger, Fetching, OthersFetched,
                          SyncedIsWanted, NoPanic

LEMMA SyncNewStep == SyncInv /\ SyncNew => SyncInv'
<1> SUFFICES ASSUME SyncInv, SyncNew PROVE SyncInv'
  OBVIOUS
<1> DEFINE n == Len(wanted)
           f == Visit(0, 0, TopHash(wanted))
<1>1. /\ remote.num = n /\ remote.top_hash = TopHash(wanted)
      /\ phase = "idle" /\ phase' = "syncs" /\ wanted' = wanted /\ root' = root
      /\ wanted \in Known /\ remote' = remote
  BY DEF SyncInv, Goal, Loaded, SyncNew, Known
<1>2. inner' = Kept(n) /\ num' = n /\ top_hash' = TopHash(wanted) /\ stack' = <<f>>
  BY <1>1 DEF SyncNew, NewTop
<1>3. PICK l \in Known : inner = TreeOf(l) BY <1>1 DEF SyncInv, OldLedger
<1>4. PICK m \in Known : inner' = TreeOf(m) /\ Len(m) <= n
  <2>1. NumAccounts(inner) = Len(l) /\ Len(l) \in Nat /\ n \in Nat
    BY <1>1, <1>3, Counted, KnownIs
  <2>2. CASE Len(l) > n
    <3>1. inner' = TreeOf(<<>>) BY <1>2, <2>1, <2>2 DEF Kept, NoAccounts
    <3>2. <<>> \in Known /\ Len(<<>>) <= n BY <2>1 DEF Known
    <3> QED BY <3>1, <3>2
  <2>3. CASE ~ (Len(l) > n) BY <1>2, <1>3, <2>1, <2>3 DEF Kept
  <2> QED BY <2>2, <2>3
<1>5. ASSUME NEW i \in Positions, i >= n PROVE inner'[i] = None
  <2>1. i \in Nat /\ Len(m) \in Nat /\ n \in Nat
    BY <1>1, KnownIs, Spans, LedgerSyncAssumption DEF Positions
  <2>2. i >= Len(m) BY <1>4, <1>5, <2>1
  <2> QED BY <1>4, <2>2, TreeIs
<1>6. Goal'
  <2>1. inner' = [i \in Positions |-> inner'[i]] BY <1>4 DEF TreeOf
  <2> QED BY <1>1, <2>1 DEF Goal, SyncInv
<1>7. f \in Frames(wanted)
  <2>1. 0 \in 0..Depth /\ 0 \in 0..(2 ^ 0 - 1) BY LedgerSyncAssumption, PowerStep
  <2>2. HashOf(wanted, 0, 0) = TopHash(wanted) BY DEF HashOf
  <2> QED BY <2>1, <2>2, FrameOf
<1>8. stack' \in Seq(Frames(wanted)) /\ DOMAIN stack' = 1..1 /\ stack'[1] = f
  BY <1>2, <1>7
<1>9. Apart(stack)'
  <2>1. \A j, k \in DOMAIN stack' : ~ (j < k) BY <1>8
  <2> QED BY <2>1 DEF Apart
<1>10. Fetching' BY <1>1, <1>2, <1>5, <1>8, <1>9 DEF Fetching
<1>11. \A i \in Positions : Covers(f, i)
  <2>1. Span(0) \in Nat \ {0} BY LedgerSyncAssumption, Spans
  <2>2. ASSUME NEW i \in 0..(Span(0) - 1) PROVE i \div Span(0) = 0
    <3>1. i \in Nat /\ 0 * Span(0) <= i /\ i < (0 + 1) * Span(0) BY <2>1
    <3> QED BY <2>1, <3>1, DivIs
  <2>3. f.op = "visit" /\ f.depth = 0 /\ f.pos = 0 BY DEF Visit
  <2> QED BY <2>2, <2>3 DEF Positions, Covers
<1>12. OthersFetched' 
  <2>1. ASSUME NEW i \in Positions PROVE Open(stack', i)
    BY <1>8, <1>11 DEF Open
  <2> QED BY <2>1 DEF OthersFetched, Open
<1>13. OldLedger' /\ SyncedIsWanted' /\ NoPanic'
  BY <1>1 DEF OldLedger, SyncedIsWanted, NoPanic
<1> QED BY <1>6, <1>10, <1>12, <1>13 DEF SyncInv

LEMMA HaveStep == SyncInv /\ Have => SyncInv'
<1> SUFFICES ASSUME SyncInv, Have PROVE SyncInv'
  OBVIOUS
<1>1. phase = "syncs" /\ stack # <<>> /\ Matches(Now) BY DEF Have, Running
<1>2. Now \in Frames(wanted) BY <1>1, NowIs
<1> DEFINE T == TreeOf(wanted)
           F == Frames(wanted)
           u == <<>>
<1>3. \A i \in Positions : Covers(Now, i) => inner[i] = T[i]
  BY <1>1, <1>2, MatchIs DEF Covers, Within, SyncInv
<1>4. stack' = u \o Tail(stack)
  <2>1. stack \in Seq(F) BY <1>1 DEF SyncInv, Fetching
  <2> HIDE DEF F
  <2>2. Tail(stack) \in Seq(F) BY <1>1, <2>1, HeadTailProperties
  <2>3. <<>> \o Tail(stack) = Tail(stack) BY <2>2, ConcatEmptySeq
  <2> QED BY <2>3 DEF Have
<1>5. /\ UNCHANGED <<top_hash, num, remote, root, wanted, inner, phase, denied>>
      /\ inner = [i \in Positions |-> inner[i]]
  BY DEF Have, ledger, SyncInv, Goal
<1>6. u \in Seq(F) /\ DOMAIN u = {} OBVIOUS
<1> HIDE DEF u
<1>7. Apart(u) BY <1>6 DEF Apart
<1> QED BY <1>1, <1>3, <1>4, <1>5, <1>6, <1>7, Stepped

LEMMA AskChildrenStep == SyncInv /\ AskChildren => SyncInv'
<1> SUFFICES ASSUME SyncInv, AskChildren PROVE SyncInv'
  OBVIOUS
<1>1. phase = "syncs" /\ stack # <<>> /\ Now.depth < Depth BY DEF AskChildren, Running
<1>2. Now \in Frames(wanted) BY <1>1, NowIs
<1>3. wanted \in Ledgers /\ remote = Loaded(wanted, TopHash(wanted))
  BY DEF SyncInv, Goal
<1> DEFINE F == Frames(wanted)
           u == Children(Now, Address(Now.depth, Now.pos))
                  \o <<Check(Now.depth, Now.pos, Now.hash)>>
<1>4. stack' = u \o Tail(stack) BY DEF AskChildren
<1>5. /\ UNCHANGED <<top_hash, num, remote, root, wanted, inner, phase, denied>>
      /\ inner = [i \in Positions |-> inner[i]]
  BY DEF AskChildren, ledger, SyncInv, Goal
<1>6. /\ u \in Seq(F) /\ Apart(u)
      /\ \A k \in DOMAIN u : \A i \in Positions : Within(u[k], i) => Within(Now, i)
      /\ \A i \in Positions : Within(Now, i) => Open(u, i)
  BY <1>1, <1>2, <1>3, ChildrenAre
<1> HIDE DEF u
<1>7. \A i \in Positions : Covers(Now, i) => Open(u, i)
  BY <1>6 DEF Covers, Within
<1> QED BY <1>1, <1>4, <1>5, <1>6, <1>7, Stepped

(* A node whose accounts were asked for is only compared again.              *)
LEMMA Checked ==
  ASSUME SyncInv, phase = "syncs", stack # <<>>, NEW u,
         u = <<Check(Now.depth, Now.pos, Now.hash)>>
  PROVE  /\ u \in Seq(Frames(wanted)) /\ Apart(u)
         /\ \A k \in DOMAIN u : \A i \in Positions : Within(u[k], i) => Within(Now, i)
<1> DEFINE c == Check(Now.depth, Now.pos, Now.hash)
<1>1. /\ Now.depth \in 0..Depth /\ Now.pos \in 0..(2 ^ Now.depth - 1)
      /\ Now.hash = HashOf(wanted, Now.depth, Now.pos)
  BY NowIs, FrameHas
<1>2. c \in Frames(wanted) BY <1>1, FrameOf
<1>3. c.depth = Now.depth /\ c.pos = Now.pos BY DEF Check
<1> HIDE DEF c
<1>4. u \in Seq(Frames(wanted)) /\ DOMAIN u = 1..1 /\ u[1] = c BY <1>2 DEF c
<1>5. Apart(u)
  <2>1. \A j, k \in DOMAIN u : ~ (j < k) BY <1>4
  <2> QED BY <2>1 DEF Apart
<1>6. ASSUME NEW k \in DOMAIN u, NEW i \in Positions, Within(u[k], i)
      PROVE  Within(Now, i)
  <2>1. u[k] = c BY <1>4
  <2> QED BY <1>3, <1>6, <2>1 DEF Within
<1> QED BY <1>4, <1>5, <1>6

LEMMA AskContentsStep == SyncInv /\ AskContents => SyncInv'
<1> SUFFICES ASSUME SyncInv, AskContents PROVE SyncInv'
  OBVIOUS
<1>1. phase = "syncs" /\ stack # <<>> /\ Now.depth = Depth BY DEF AskContents, Running
<1>2. Now \in Frames(wanted) BY <1>1, NowIs
<1>3. wanted \in Ledgers /\ remote = Loaded(wanted, TopHash(wanted))
  BY DEF SyncInv, Goal
<1> DEFINE T == TreeOf(wanted)
           p == Now.pos
           u == <<Check(Now.depth, Now.pos, Now.hash)>>
           accounts == Contents(Address(Depth, Now.pos))
           first == (Now.pos * Batch) % 2 ^ Depth
<1>4. p \in 0..(2 ^ Depth - 1) BY <1>1, <1>2, FrameHas
<1>5. inner' = [i \in Positions |-> IF i - first + 1 \in DOMAIN accounts
                                    THEN accounts[i - first + 1] ELSE inner[i]]
  BY DEF AskContents
<1>6. \A i \in Positions : i >= Len(wanted) => inner[i] = None
  BY <1>1 DEF SyncInv, Fetching
<1>7. inner' = [i \in Positions |-> inner'[i]] BY <1>5
<1>8. stack' = u \o Tail(stack) BY <1>1 DEF AskContents
<1>9. UNCHANGED <<top_hash, num, remote, root, wanted, phase, denied>>
  BY DEF AskContents
<1>10. \A i \in Positions :
         inner'[i] = IF i \div Span(Depth) = p THEN T[i] ELSE inner[i]
  <2> HIDE DEF accounts, first, p, T
  <2> QED BY <1>3, <1>4, <1>5, <1>6, ContentsSet DEF accounts, first, p, T
<1>11. \A i \in Positions : inner'[i] = inner[i] \/ inner'[i] = T[i] BY <1>10
<1>12. \A i \in Positions : Covers(Now, i) => inner'[i] = T[i]
  BY <1>1, <1>10 DEF Covers
<1> HIDE DEF u
<1>13. /\ u \in Seq(Frames(wanted)) /\ Apart(u)
       /\ \A k \in DOMAIN u : \A i \in Positions : Within(u[k], i) => Within(Now, i)
  BY <1>1, Checked DEF u
<1> QED BY <1>1, <1>7, <1>8, <1>9, <1>11, <1>12, <1>13, Stepped

LEMMA CouldNotConstructStep == SyncInv /\ CouldNotConstruct => SyncInv'
<1> SUFFICES ASSUME SyncInv, CouldNotConstruct PROVE SyncInv'
  OBVIOUS
<1> DEFINE u == <<Check(Now.depth, Now.pos, Now.hash)>>
<1>1. phase = "syncs" /\ stack # <<>> /\ Now.depth = Depth
  BY DEF CouldNotConstruct, Running
<1>2. stack' = u \o Tail(stack) BY <1>1 DEF CouldNotConstruct
<1>3. /\ UNCHANGED <<top_hash, num, remote, root, wanted, inner, phase>>
      /\ denied' /\ inner = [i \in Positions |-> inner[i]]
  BY DEF CouldNotConstruct, ledger, SyncInv, Goal
<1> HIDE DEF u
<1>4. /\ u \in Seq(Frames(wanted)) /\ Apart(u)
      /\ \A k \in DOMAIN u : \A i \in Positions : Within(u[k], i) => Within(Now, i)
  BY <1>1, Checked DEF u
<1> QED BY <1>1, <1>2, <1>3, <1>4, Stepped

LEMMA DeniedStep == SyncInv /\ Denied => SyncInv'
<1> SUFFICES ASSUME SyncInv, Denied PROVE SyncInv'
  OBVIOUS
<1>1. phase' = "panicked" /\ denied' /\ UNCHANGED <<ledger, remote, root, wanted>>
  BY DEF Denied
<1>2. Goal' BY <1>1 DEF SyncInv, Goal, ledger
<1> QED BY <1>1, <1>2 DEF SyncInv, OldLedger, Fetching, OthersFetched, SyncedIsWanted,
                          NoPanic

(* No assertion fails unless a query was answered with an error: no call     *)
(* that is still to come has an account of the node in its subtree.          *)
LEMMA AssertEqStep == SyncInv /\ AssertEq => SyncInv'
<1> SUFFICES ASSUME SyncInv, AssertEq PROVE SyncInv'
  OBVIOUS
<1> DEFINE T == TreeOf(wanted)
           F == Frames(wanted)
           u == <<>>
<1>1. phase = "syncs" /\ stack # <<>> /\ Now.op = "check" BY DEF AssertEq, Running
<1>2. Now \in F /\ Now = stack[1] /\ 1 \in DOMAIN stack BY <1>1, NowIs
<1>3. /\ UNCHANGED <<top_hash, num, remote, root, wanted, inner, denied>>
      /\ inner = [i \in Positions |-> inner[i]]
  BY DEF AssertEq, ledger, SyncInv, Goal
<1>4. CASE Matches(Now)
  <2>1. stack' = u \o Tail(stack)
    <3>1. stack \in Seq(F) BY <1>1 DEF SyncInv, Fetching
    <3> HIDE DEF F
    <3>2. Tail(stack) \in Seq(F) BY <1>1, <3>1, HeadTailProperties
    <3>3. <<>> \o Tail(stack) = Tail(stack) BY <3>2, ConcatEmptySeq
    <3> QED BY <1>4, <3>3 DEF AssertEq
  <2>2. \A i \in Positions : ~ Covers(Now, i) BY <1>1 DEF Covers
  <2>3. phase' = phase BY <1>4 DEF AssertEq
  <2>4. u \in Seq(F) /\ DOMAIN u = {} OBVIOUS
  <2> HIDE DEF u
  <2>5. Apart(u) BY <2>4 DEF Apart
  <2> QED BY <1>1, <1>3, <2>1, <2>2, <2>3, <2>4, <2>5, Stepped
<1>5. CASE ~ Matches(Now)
  <2>1. phase' = "panicked" /\ stack' = stack BY <1>5 DEF AssertEq
  <2>2. denied
    <3> SUFFICES ASSUME ~denied PROVE FALSE
      OBVIOUS
    <3>1. PICK i \in Positions : Within(Now, i) /\ inner[i] # T[i]
      BY <1>2, <1>5, MatchIs DEF SyncInv
    <3>2. PICK k \in DOMAIN stack : Covers(stack[k], i)
      BY <1>1, <3>1 DEF SyncInv, OthersFetched
    <3>3. stack[k].op = "visit" /\ Within(stack[k], i) BY <3>2 DEF Covers, Within
    <3>4. k # 1 BY <1>1, <1>2, <3>3
    <3>5. 1 < k
      <4>1. stack \in Seq(F) BY <1>1 DEF SyncInv, Fetching
      <4> HIDE DEF F
      <4>2. k \in 1..Len(stack) BY <4>1, LenProperties
      <4>3. Len(stack) \in Nat BY <4>1, LenProperties
      <4> QED BY <3>4, <4>2, <4>3
    <3>6. Apart(stack) BY <1>1 DEF SyncInv, Fetching
    <3> QED BY <1>2, <3>1, <3>3, <3>5, <3>6 DEF Apart
  <2>3. Goal' BY <1>3 DEF SyncInv, Goal
  <2> QED BY <1>3, <2>1, <2>2, <2>3 DEF SyncInv, OldLedger, Fetching, OthersFetched,
                                        SyncedIsWanted, NoPanic
<1> QED BY <1>4, <1>5

LEMMA FinishStep == SyncInv /\ Finish => SyncInv'
<1> SUFFICES ASSUME SyncInv, Finish PROVE SyncInv'
  OBVIOUS
<1>1. /\ phase = "syncs" /\ stack = <<>>
      /\ UNCHANGED <<inner, top_hash, num, remote, root, stack, denied, wanted>>
      /\ phase' = IF MerkleRoot(inner) = root THEN "synced" ELSE "panicked"
  BY DEF Finish, ledger
<1>2. Goal' BY <1>1 DEF SyncInv, Goal
<1>3. Goal BY DEF SyncInv
<1>4. MerkleRoot(inner) = root => inner = TreeOf(wanted) BY <1>3, RootIs
<1>5. ~denied => MerkleRoot(inner) = root
  <2> SUFFICES ASSUME ~denied PROVE MerkleRoot(inner) = root
    OBVIOUS
  <2>1. DOMAIN stack = {} BY <1>1
  <2>2. \A i \in Positions : inner[i] = TreeOf(wanted)[i]
    BY <1>1, <2>1 DEF SyncInv, OthersFetched
  <2> QED BY <1>3, <2>2, RootIs
<1>6. num = Len(wanted) /\ top_hash = TopHash(wanted) BY <1>1 DEF SyncInv, Fetching
<1>7. SyncedIsWanted' BY <1>1, <1>4, <1>6 DEF SyncedIsWanted
<1>8. NoPanic' BY <1>1, <1>5 DEF NoPanic
<1> QED BY <1>1, <1>2, <1>7, <1>8 DEF SyncInv, OldLedger, Fetching, OthersFetched

LEMMA RelayStep == SyncInv /\ Relay => SyncInv'
<1> SUFFICES ASSUME SyncInv, Relay PROVE SyncInv'
  OBVIOUS
<1>1. phase = "synced" /\ phase' = "idle" /\ UNCHANGED <<root, stack, denied, wanted>>
  BY DEF Relay
<1>2. inner = TreeOf(wanted) /\ top_hash = TopHash(wanted) /\ wanted \in Known
  BY <1>1 DEF SyncInv, SyncedIsWanted, Goal, Known
<1>3. remote' = Loaded(wanted, TopHash(wanted))
  <2>1. Stored(inner) = wanted BY <1>2, Counted
  <2> QED BY <1>2, <2>1 DEF Relay
<1>4. PICK old \in OldLedgers : inner' = old.inner BY DEF Relay
<1>5. PICK l \in Known : inner' = TreeOf(l)
  BY <1>4 DEF OldLedgers, Loaded, NoAccounts, Known
<1>6. inner' = [i \in Positions |-> inner'[i]] BY <1>5 DEF TreeOf
<1>7. Goal' BY <1>1, <1>3, <1>6 DEF SyncInv, Goal
<1> QED BY <1>1, <1>5, <1>7 DEF SyncInv, OldLedger, Fetching, OthersFetched,
                                SyncedIsWanted, NoPanic

LEMMA NextSync == SyncInv /\ [Next]_vars => SyncInv'
<1> SUFFICES ASSUME SyncInv, [Next]_vars PROVE SyncInv'
  OBVIOUS
<1>1. CASE SyncNew BY <1>1, SyncNewStep
<1>2. CASE Have BY <1>2, HaveStep
<1>3. CASE AskChildren BY <1>3, AskChildrenStep
<1>4. CASE AskContents BY <1>4, AskContentsStep
<1>5. CASE CouldNotConstruct BY <1>5, CouldNotConstructStep
<1>6. CASE Denied BY <1>6, DeniedStep
<1>7. CASE AssertEq BY <1>7, AssertEqStep
<1>8. CASE Finish BY <1>8, FinishStep
<1>9. CASE Relay BY <1>9, RelayStep
<1>10. CASE UNCHANGED vars
  BY <1>10 DEF vars, ledger, SyncInv, Goal, OldLedger, Fetching, OthersFetched,
               SyncedIsWanted, NoPanic, Apart
<1> QED
  BY <1>1, <1>2, <1>3, <1>4, <1>5, <1>6, <1>7, <1>8, <1>9, <1>10 DEF Next

LEMMA SyncInvariant == Spec => []SyncInv
<1> QED BY InitSync, NextSync, PTL DEF Spec

-----------------------------------------------------------------------------
(* While a ledger is fetched, the accounts in no subtree still to visit are  *)
(* those wanted, whatever ledger there was before.                           *)
THEOREM Fetched == Spec => []OthersFetched
<1>1. SyncInv => OthersFetched BY DEF SyncInv
<1> QED BY <1>1, SyncInvariant, PTL

(* A synced ledger is the one with the hash asked for, with its number of    *)
(* accounts and its other hash, through any number of clients served by a    *)
(* ledger that was recorded.                                                 *)
THEOREM SyncedWanted == Spec => []SyncedIsWanted
<1>1. SyncInv => SyncedIsWanted BY DEF SyncInv
<1> QED BY <1>1, SyncInvariant, PTL

(* No sync is given up, and no assertion fails, unless the remote answered a *)
(* query with an error.                                                      *)
THEOREM Unpanicked == Spec => []NoPanic
<1>1. SyncInv => NoPanic BY DEF SyncInv
<1> QED BY <1>1, SyncInvariant, PTL
=============================================================================
