---------------------------- MODULE RecorderLemmas ----------------------------
(***************************************************************************)
(* Proofs about KrpCodec, for every capacity, threshold and set of cells:  *)
(* what the compressor packs is what the parser unpacks.  Then what the    *)
(* proofs about the invariant of Recorder rest on: the types, what each    *)
(* signal does to the files, and which signals of a slot can be queued     *)
(* after which others.                                                     *)
(***************************************************************************)
EXTENDS Recorder, FiniteSetTheorems, SequenceTheorems, WellFoundedInduction, TLAPS

-----------------------------------------------------------------------------
\* A set of numbers has a least one.
LEMMA LeastNat ==
  ASSUME NEW S, S \subseteq Nat, S # {}
  PROVE  \E x \in S : \A y \in S : x <= y
<1>1. PICK x \in S : \A y \in S : <<y, x>> \notin OpToRel(<, Nat)
  BY WFMin, NatLessThanWellFounded, Zenon
<1>2. \A y \in S : <<y, x>> \in Nat \X Nat => ~ (<<y, x>>[1] < <<y, x>>[2])
  BY <1>1, Zenon DEF OpToRel
<1>3. ASSUME NEW y \in S PROVE x <= y
  <2>1. y \in Nat /\ x \in Nat
    OBVIOUS
  <2>2. <<y, x>> \in Nat \X Nat /\ <<y, x>>[1] = y /\ <<y, x>>[2] = x
    BY <2>1
  <2>3. ~ (<<y, x>>[1] < <<y, x>>[2])
    BY <2>2, <1>2, Zenon
  <2> QED BY <2>1, <2>2, <2>3
<1> QED BY <1>3

\* Induction on the numbers, for a set of them.
LEMMA NatInSet ==
  ASSUME NEW S, 0 \in S, \A n \in Nat : n \in S => n + 1 \in S
  PROVE  Nat \subseteq S
<1> SUFFICES ASSUME Nat \ S # {} PROVE FALSE
  OBVIOUS
<1>1. PICK x \in Nat \ S : \A y \in Nat \ S : x <= y
  BY LeastNat
<1>2. x - 1 \in Nat /\ x - 1 \in S
  BY <1>1
<1> QED BY <1>1, <1>2

\* The same up to a bound.
LEMMA UpToInSet ==
  ASSUME NEW N \in Nat, NEW S, 0 \in S, \A n \in 1 .. N : n - 1 \in S => n \in S
  PROVE  0 .. N \subseteq S
<1> DEFINE T == {n \in Nat : n <= N => n \in S}
<1>1. 0 \in T
  OBVIOUS
<1>2. ASSUME NEW n \in Nat, n \in T PROVE n + 1 \in T
  <2>1. CASE n + 1 <= N
    <3>1. n + 1 \in 1 .. N /\ (n + 1) - 1 = n /\ n <= N
      BY <2>1
    <3> QED BY <3>1, <1>2
  <2> QED BY <2>1
<1>3. Nat \subseteq T
  <2> HIDE DEF T
  <2> QED BY <1>1, <1>2, NatInSet
<1> QED BY <1>3

(***************************************************************************)
(* What a recursive function over 0..N computes, from a value and a        *)
(* function that gives each value from the one before: there is one.       *)
(***************************************************************************)
Steps(S, N) == [S \X (1 .. N) -> S]

Follows(f, N, S, base, step) ==
  /\ f \in [0 .. N -> S]
  /\ f[0] = base
  /\ \A n \in 1 .. N : f[n] = step[<<f[n - 1], n>>]

\* A recursive function over 0..N is the one function that follows its step.
LEMMA Recursion ==
  ASSUME NEW N \in Nat, NEW S, NEW base \in S, NEW step \in Steps(S, N)
  PROVE  \E f : Follows(f, N, S, base, step)
<1>0. step \in [S \X (1 .. N) -> S]
  BY DEF Steps
<1> DEFINE Good(f, m) == /\ f \in [0 .. m -> S]
                         /\ f[0] = base
                         /\ \A n \in 1 .. m : f[n] = step[<<f[n - 1], n>>]
           T == {m \in 0 .. N : \E f : Good(f, m)}
<1>1. 0 \in T
  <2> DEFINE f == [n \in 0 .. 0 |-> base]
  <2>1. Good(f, 0)
    OBVIOUS
  <2> HIDE DEF f
  <2> QED BY <2>1
<1>2. ASSUME NEW m \in 1 .. N, m - 1 \in T PROVE m \in T
  <2>1. PICK g : Good(g, m - 1)
    BY <1>2
  <2> DEFINE f == [n \in 0 .. m |-> IF n = m THEN step[<<g[m - 1], m>>] ELSE g[n]]
  <2>2. /\ m - 1 \in 0 .. m - 1 /\ m \in 0 .. m /\ 0 \in 0 .. m /\ 0 # m /\ m \in Nat
        /\ \A n \in 0 .. m : n # m => n \in 0 .. m - 1
    OBVIOUS
  <2>3. <<g[m - 1], m>> \in S \X (1 .. N)
    BY <2>1, <2>2
  <2>4. step[<<g[m - 1], m>>] \in S
    BY <1>0, <2>3
  <2>5. f \in [0 .. m -> S]
    BY <2>1, <2>2, <2>4
  <2>6. /\ f[m] = step[<<g[m - 1], m>>]
        /\ \A n \in 0 .. m : n # m => f[n] = g[n]
    BY <2>2
  <2> HIDE DEF f
  <2>7. ASSUME NEW n \in 1 .. m PROVE f[n] = step[<<f[n - 1], n>>]
    <3>1. n - 1 \in 0 .. m /\ n - 1 # m
      BY <2>2
    <3>2. f[n - 1] = g[n - 1]
      BY <3>1, <2>6
    <3>3. CASE n = m
      BY <3>2, <3>3, <2>6
    <3>4. CASE n # m
      <4>1. n \in 1 .. m - 1 /\ n \in 0 .. m
        BY <3>4, <2>2
      <4> QED BY <4>1, <3>2, <3>4, <2>6, <2>1
    <3> QED BY <3>3, <3>4
  <2>8. f[0] = base
    BY <2>1, <2>2, <2>6
  <2>9. Good(f, m)
    BY <2>5, <2>7, <2>8
  <2>10. m \in 0 .. N
    OBVIOUS
  <2> HIDE DEF Good
  <2> QED BY <2>9, <2>10
<1>3. N \in T
  <2> HIDE DEF T
  <2>1. 0 .. N \subseteq T
    BY <1>1, <1>2, UpToInSet
  <2> QED BY <2>1
<1> QED BY <1>3 DEF Follows

-----------------------------------------------------------------------------
\* Counting in a set of numbers up to N.
LEMMA RankBounds ==
  ASSUME NEW N \in Nat, NEW S \in SUBSET (1 .. N)
  PROVE  /\ IsFiniteSet(S) /\ Cardinality(S) \in 0 .. N
         /\ \A n : IsFiniteSet({m \in S : m <= n}) /\ Rank(S, n) \in 0 .. Cardinality(S)
         /\ \A n \in Int : n >= N => Rank(S, n) = Cardinality(S)
<1>0. \A x \in S : x \in Nat /\ x >= 1 /\ x <= N
  OBVIOUS
<1>1. IsFiniteSet(1 .. N) /\ Cardinality(1 .. N) = N
  <2>1. 1 \in Int /\ N \in Int
    OBVIOUS
  <2>2. IsFiniteSet(1 .. N) /\ Cardinality(1 .. N) = IF 1 > N THEN 0 ELSE N - 1 + 1
    BY <2>1, FS_Interval
  <2> QED BY <2>2
<1>2. IsFiniteSet(S) /\ Cardinality(S) <= N /\ Cardinality(S) \in Nat
  BY <1>1, FS_Subset, FS_CardinalityType
<1>3. ASSUME NEW n
      PROVE  IsFiniteSet({m \in S : m <= n}) /\ Rank(S, n) \in 0 .. Cardinality(S)
  <2> DEFINE T == {m \in S : m <= n}
  <2>1. T \subseteq S
    OBVIOUS
  <2> HIDE DEF T
  <2>2. IsFiniteSet(T) /\ Cardinality(T) <= Cardinality(S) /\ Cardinality(T) \in Nat
    BY <1>2, <2>1, FS_Subset, FS_CardinalityType
  <2> QED BY <1>2, <2>2 DEF T, Rank
<1>4. ASSUME NEW n \in Int, n >= N PROVE Rank(S, n) = Cardinality(S)
  <2>1. \A m \in S : m <= n
    BY <1>0, <1>4
  <2>2. {m \in S : m <= n} = S
    BY <2>1
  <2> QED BY <2>2 DEF Rank
<1> QED BY <1>2, <1>3, <1>4

\* Rank grows strictly from one member to the next.
LEMMA RankGrows ==
  ASSUME NEW N \in Nat, NEW S \in SUBSET (1 .. N), NEW n \in S, NEW m \in Int, m < n
  PROVE  Rank(S, m) < Rank(S, n) /\ Rank(S, n) \in 1 .. Cardinality(S)
<1> DEFINE A == {k \in S : k <= m}
           B == {k \in S : k <= n}
<1>0. \A x \in S : x \in Nat /\ x >= 1 /\ x <= N
  OBVIOUS
<1>1. IsFiniteSet(A) /\ IsFiniteSet(B) /\ Rank(S, m) \in 0 .. Cardinality(S)
      /\ Rank(S, n) \in 0 .. Cardinality(S) /\ Cardinality(S) \in Nat
  BY RankBounds
<1>2. A \cup {n} \subseteq B /\ n \notin A
  <2>1. n <= n /\ ~ (n <= m)
    BY <1>0
  <2>2. \A k \in S : k <= m => k <= n
    BY <1>0
  <2> QED BY <2>1, <2>2
<1> HIDE DEF A, B
<1>3. IsFiniteSet(A \cup {n}) /\ Cardinality(A \cup {n}) = Cardinality(A) + 1
  BY <1>1, <1>2, FS_AddElement
<1>4. Cardinality(A \cup {n}) <= Cardinality(B)
  BY <1>1, <1>2, FS_Subset
<1>5. Cardinality(A) = Rank(S, m) /\ Cardinality(B) = Rank(S, n)
  BY DEF A, B, Rank
<1> QED BY <1>1, <1>3, <1>4, <1>5

\* The members of a set of numbers are numbered from 1 by their rank.
LEMMA NthOfRank ==
  ASSUME NEW N \in Nat, NEW S \in SUBSET (1 .. N)
  PROVE  /\ \A n \in S : Rank(S, n) \in 1 .. Cardinality(S) /\ Nth(S, Rank(S, n)) = n
         /\ \A i \in 1 .. Cardinality(S) : Nth(S, i) \in S /\ Rank(S, Nth(S, i)) = i
<1>0. \A x \in S : x \in Nat /\ x >= 1 /\ x <= N
  OBVIOUS
<1>1. \A n \in S : n \in Int
  BY <1>0
<1>2. ASSUME NEW n \in S PROVE Rank(S, n) \in 1 .. Cardinality(S)
  <2>1. n - 1 \in Int /\ n - 1 < n
    BY <1>1
  <2> QED BY <2>1, RankGrows
<1>3. ASSUME NEW m \in S, NEW n \in S, Rank(S, m) = Rank(S, n) PROVE m = n
  <2>1. Rank(S, m) \in Int
    BY <1>2
  <2>2. ASSUME m < n PROVE FALSE
    <3>1. Rank(S, m) < Rank(S, n)
      BY <1>1, <2>2, RankGrows
    <3> QED BY <3>1, <1>3, <2>1
  <2>3. ASSUME n < m PROVE FALSE
    <3>1. Rank(S, n) < Rank(S, m)
      BY <1>1, <2>3, RankGrows
    <3> QED BY <3>1, <1>3, <2>1
  <2> QED BY <1>1, <2>2, <2>3
<1>4. ASSUME NEW i \in 1 .. Cardinality(S) PROVE \E n \in S : Rank(S, n) = i
  <2> DEFINE T == {j \in 0 .. N : Rank(S, j) >= i}
  <2>0. i \in Nat /\ Cardinality(S) \in 0 .. N /\ i >= 1 /\ i <= Cardinality(S)
    BY RankBounds
  <2>1. Rank(S, N) = Cardinality(S) /\ \A j : Rank(S, j) \in Nat
    <3>1. N \in Int /\ N >= N
      OBVIOUS
    <3>2. \A j : Rank(S, j) \in 0 .. Cardinality(S)
      BY RankBounds
    <3> QED BY <3>1, <3>2, <2>0, RankBounds
  <2>2. N \in T
    BY <2>0, <2>1
  <2>3. PICK j \in T : \A k \in T : j <= k
    <3>1. T \subseteq Nat /\ T # {}
      BY <2>2
    <3> HIDE DEF T
    <3> QED BY <3>1, LeastNat
  <2>4. j \in 0 .. N /\ Rank(S, j) >= i
    BY <2>3
  <2>5. j # 0
    <3>1. {m \in S : m <= 0} = {}
      <4>1. \A m \in S : ~ (m <= 0)
        BY <1>0
      <4> QED BY <4>1
    <3>2. Rank(S, 0) = 0
      BY <3>1, FS_EmptySet DEF Rank
    <3> QED BY <2>4, <3>2, <2>0
  <2>6. j - 1 \in 0 .. N /\ j - 1 < j
    BY <2>4, <2>5
  <2>7. Rank(S, j - 1) < i
    <3>1. j - 1 \notin T
      BY <2>3, <2>6, <2>4
    <3> QED BY <3>1, <2>6, <2>1, <2>0
  <2>8. j \in S
    <3> SUFFICES ASSUME j \notin S PROVE FALSE
      OBVIOUS
    <3>1. {m \in S : m <= j} = {m \in S : m <= j - 1}
      <4>1. \A m \in S : m <= j <=> m <= j - 1
        BY <2>4, <1>0
      <4> QED BY <4>1
    <3> QED BY <3>1, <2>4, <2>7, <2>1, <2>0 DEF Rank
  <2>9. Rank(S, j) <= Rank(S, j - 1) + 1
    <3> DEFINE A == {m \in S : m <= j - 1}
    <3>1. {m \in S : m <= j} = A \cup {j}
      <4>1. \A m \in S : m <= j <=> m <= j - 1 \/ m = j
        BY <2>4, <1>0
      <4> QED BY <4>1, <2>8
    <3>2. IsFiniteSet(A) /\ j \notin A
      BY <2>4, RankBounds
    <3> HIDE DEF A
    <3>3. Cardinality(A \cup {j}) = Cardinality(A) + 1
      BY <3>2, FS_AddElement
    <3> QED BY <3>1, <3>3, <2>1 DEF Rank, A
  <2>10. Rank(S, j) = i
    BY <2>0, <2>1, <2>4, <2>7, <2>9
  <2> QED BY <2>8, <2>10
<1> QED BY <1>2, <1>3, <1>4 DEF Nth

\* A number above all the others changes none of their ranks.
LEMMA RankExtends ==
  ASSUME NEW N \in Nat, NEW S \in SUBSET (1 .. N)
  PROVE  /\ S \cup {N + 1} \in SUBSET (1 .. N + 1)
         /\ Cardinality(S \cup {N + 1}) = Cardinality(S) + 1
         /\ \A n \in 0 .. N : Rank(S \cup {N + 1}, n) = Rank(S, n)
         /\ Rank(S \cup {N + 1}, N + 1) = Cardinality(S) + 1
         /\ \A i \in 1 .. Cardinality(S) : Nth(S \cup {N + 1}, i) = Nth(S, i)
         /\ Nth(S \cup {N + 1}, Cardinality(S) + 1) = N + 1
<1> DEFINE T == S \cup {N + 1}
<1>0. \A x \in S : x \in Nat /\ x >= 1 /\ x <= N
  OBVIOUS
<1>1. T \in SUBSET (1 .. N + 1) /\ N + 1 \in Nat /\ N + 1 \notin S
  OBVIOUS
<1>2. Cardinality(T) = Cardinality(S) + 1 /\ Cardinality(S) \in Nat
  BY <1>1, RankBounds, FS_AddElement
<1>3. ASSUME NEW n \in 0 .. N PROVE Rank(T, n) = Rank(S, n)
  <2>1. {m \in T : m <= n} = {m \in S : m <= n}
    BY <1>0
  <2> QED BY <2>1 DEF Rank
<1>4. Rank(T, N + 1) = Cardinality(S) + 1
  <2> HIDE DEF T
  <2>1. N + 1 \in Int /\ N + 1 >= N + 1
    OBVIOUS
  <2> QED BY <2>1, <1>1, <1>2, RankBounds
<1>5. ASSUME NEW i \in 1 .. Cardinality(S) PROVE Nth(T, i) = Nth(S, i)
  <2>1. Nth(S, i) \in S /\ Rank(S, Nth(S, i)) = i
    BY NthOfRank
  <2>2. Nth(S, i) \in T /\ Nth(S, i) \in 0 .. N
    <3> DEFINE x == Nth(S, i)
    <3>1. x \in S
      BY <2>1
    <3> HIDE DEF x
    <3>2. x \in T /\ x \in 0 .. N
      BY <3>1, <1>0
    <3> QED BY <3>2 DEF x
  <2> HIDE DEF T
  <2>4. \A n \in T : Nth(T, Rank(T, n)) = n
    BY <1>1, NthOfRank
  <2>3. Rank(T, Nth(S, i)) = i
    BY <2>1, <2>2, <1>3
  <2> QED BY <2>2, <2>3, <2>4
<1>6. Nth(T, Cardinality(S) + 1) = N + 1
  <2>1. N + 1 \in T
    OBVIOUS
  <2> HIDE DEF T
  <2>2. Nth(T, Rank(T, N + 1)) = N + 1
    <3>1. PICK M \in Nat : M = N + 1
      BY <1>1
    <3>2. T \in SUBSET (1 .. M)
      BY <3>1, <1>1
    <3>3. \A n \in T : Nth(T, Rank(T, n)) = n
      BY <3>2, NthOfRank
    <3> QED BY <3>3, <2>1
  <2> QED BY <2>2, <1>4
<1> QED BY <1>1, <1>2, <1>3, <1>4, <1>5, <1>6

-----------------------------------------------------------------------------
\* A cell is a set of bits.
Cell == SUBSET Nat

\* What is left of a number by division, and how often it was divided.
LEMMA DivMod ==
  ASSUME NEW a \in Nat, NEW b \in Nat \ {0}
  PROVE  /\ a \div b \in Nat /\ a % b \in 0 .. b - 1
         /\ a = b * (a \div b) + (a % b)
  OBVIOUS

\* A byte has one bit in one block of the mask.
LEMMA BlockAndBit ==
  ASSUME NEW c \in Columns
  PROVE  /\ BlockOf(c) \in 1 .. MaskBlocks /\ BitOf(c) \in 0 .. BlockBits - 1
         /\ \A d \in Columns : BlockOf(c) = BlockOf(d) /\ BitOf(c) = BitOf(d) => c = d
<1>1. /\ FrameSize \in Nat /\ MaskBlocks \in Nat /\ BlockBits \in Nat \ {0}
      /\ FrameSize <= MaskBlocks * BlockBits
  BY CodecAssumption
<1>2. \A d \in Columns :
        /\ d - 1 \in Nat /\ d - 1 < MaskBlocks * BlockBits
        /\ (d - 1) \div BlockBits \in Nat
        /\ (d - 1) % BlockBits \in 0 .. BlockBits - 1
        /\ d - 1 = BlockBits * ((d - 1) \div BlockBits) + ((d - 1) % BlockBits)
  <2> TAKE d \in Columns
  <2>1. d - 1 \in Nat /\ d <= FrameSize
    BY <1>1 DEF Columns
  <2>2. MaskBlocks * BlockBits \in Nat
    BY <1>1
  <2>3. d - 1 < MaskBlocks * BlockBits
    BY <2>1, <2>2, <1>1 DEF Columns
  <2> DEFINE a == d - 1
  <2> HIDE DEF a
  <2>4. /\ a \div BlockBits \in Nat /\ a % BlockBits \in 0 .. BlockBits - 1
        /\ a = BlockBits * (a \div BlockBits) + (a % BlockBits)
    <3>1. a \in Nat
      BY <2>1 DEF a
    <3> QED BY <3>1, <1>1, DivMod
  <2> QED BY <2>1, <2>3, <2>4 DEF a
<1>3. (c - 1) \div BlockBits < MaskBlocks
  <2> DEFINE q == (c - 1) \div BlockBits
             r == (c - 1) % BlockBits
  <2>1. /\ q \in Nat /\ r \in Nat /\ BlockBits \in Nat /\ MaskBlocks \in Nat
        /\ BlockBits * q + r < MaskBlocks * BlockBits
    BY <1>1, <1>2
  <2> HIDE DEF q, r
  <2>2. ASSUME q >= MaskBlocks PROVE FALSE
    <3>1. PICK k \in Nat : q = MaskBlocks + k
      <4>1. q - MaskBlocks \in Nat /\ q = MaskBlocks + (q - MaskBlocks)
        BY <2>1, <2>2
      <4> QED BY <4>1
    <3>2. BlockBits * q = MaskBlocks * BlockBits + BlockBits * k
      BY <2>1, <3>1
    <3>3. BlockBits * k \in Nat /\ MaskBlocks * BlockBits \in Nat
      BY <2>1
    <3> QED BY <2>1, <3>2, <3>3
  <2> QED BY <2>1, <2>2 DEF q
<1>4. BlockOf(c) \in 1 .. MaskBlocks /\ BitOf(c) \in 0 .. BlockBits - 1
  BY <1>1, <1>2, <1>3 DEF BlockOf, BitOf
<1>5. ASSUME NEW d \in Columns, BlockOf(c) = BlockOf(d), BitOf(c) = BitOf(d) PROVE c = d
  <2>1. (c - 1) \div BlockBits = (d - 1) \div BlockBits
    <3>1. (c - 1) \div BlockBits \in Nat /\ (d - 1) \div BlockBits \in Nat
      BY <1>2
    <3> QED BY <1>5, <3>1 DEF BlockOf
  <2>2. (c - 1) % BlockBits = (d - 1) % BlockBits
    BY <1>5 DEF BitOf
  <2>3. c - 1 = d - 1
    BY <1>2, <2>1, <2>2
  <2>4. c \in Int /\ d \in Int
    BY <1>1 DEF Columns
  <2> QED BY <2>3, <2>4
<1> QED BY <1>4, <1>5

\* A mask has the columns it was made of; a key frame's has all.
LEMMA ColumnsOfMask ==
  ASSUME NEW cols \in SUBSET Columns
  PROVE  /\ MaskOf(cols) \in [1 .. MaskBlocks -> Cell]
         /\ ColumnsOf(MaskOf(cols)) = cols
<1>1. ASSUME NEW c \in Columns PROVE BitOf(c) \in Nat
  BY <1>1, BlockAndBit, CodecAssumption
<1>2. MaskOf(cols) \in [1 .. MaskBlocks -> Cell]
  BY <1>1 DEF MaskOf, Cell
<1>3. ASSUME NEW c \in Columns
      PROVE  BitOf(c) \in MaskOf(cols)[BlockOf(c)] <=> c \in cols
  <2>1. MaskOf(cols)[BlockOf(c)] = {BitOf(d) : d \in {e \in cols : BlockOf(e) = BlockOf(c)}}
    BY <1>3, BlockAndBit DEF MaskOf
  <2>2. ASSUME NEW d \in cols, BlockOf(d) = BlockOf(c), BitOf(c) = BitOf(d) PROVE c = d
    BY <1>3, <2>2, BlockAndBit
  <2> QED BY <2>1, <2>2
<1> QED BY <1>2, <1>3 DEF ColumnsOf

\* The mask of a key frame has every column.
LEMMA FullMask ==
  LET mask == [b \in 1 .. MaskBlocks |-> 0 .. BlockBits - 1]
  IN  mask \in [1 .. MaskBlocks -> Cell] /\ ColumnsOf(mask) = Columns
<1> DEFINE mask == [b \in 1 .. MaskBlocks |-> 0 .. BlockBits - 1]
<1>1. 0 .. BlockBits - 1 \in Cell
  BY CodecAssumption DEF Cell
<1>2. ASSUME NEW c \in Columns PROVE BitOf(c) \in mask[BlockOf(c)]
  BY <1>2, BlockAndBit
<1> QED BY <1>1, <1>2 DEF ColumnsOf

-----------------------------------------------------------------------------
(***************************************************************************)
(* Taking a file apart.  The records of a file, and a walk through it.     *)
(***************************************************************************)
Records == [types : Seq(Cell), flags : [1 .. MaskBlocks -> Seq(Cell)],
            data : [Columns -> Seq(Cell)], events : Seq(Cell)]

Walking == [err : {"ok", "truncated", "corrupt_sections"}, at : Nat, records : Records]

\* The mask of the record whose type is the cell at, its columns and bytes, and
\* where it ends.
MaskAt(cells, at) == [b \in 1 .. MaskBlocks |-> cells[at + b]]

ColsAt(cells, at) == ColumnsOf(MaskAt(cells, at))

BytesAt(cells, at) ==
  [c \in ColsAt(cells, at) |-> cells[at + MaskBlocks + Rank(ColsAt(cells, at), c)]]

EndsAt(cells, at) == at + MaskBlocks + Cardinality(ColsAt(cells, at))

\* The three types of a record are three cells.
LEMMA TypesDiffer ==
  /\ Types \subseteq Cell /\ EVENT \in Types /\ DELTA \in Types /\ KEYFRAME \in Types
  /\ EVENT # DELTA /\ EVENT # KEYFRAME /\ DELTA # KEYFRAME
  /\ \A t \in Types : t = EVENT \/ t = DELTA \/ t = KEYFRAME
<1>1. 0 \in Nat /\ 1 \in Nat /\ 0 # 1
  OBVIOUS
<1>2. EVENT # DELTA /\ EVENT # KEYFRAME /\ DELTA # KEYFRAME
  BY <1>1, Zenon DEF EVENT, DELTA, KEYFRAME
<1>3. Types \subseteq Cell
  BY <1>1 DEF Types, Cell, EVENT, DELTA, KEYFRAME
<1> QED BY <1>2, <1>3 DEF Types

\* The columns of a mask and the end of its record are numbers.
LEMMA RecordShape ==
  ASSUME NEW cells, NEW at \in Nat
  PROVE  /\ ColsAt(cells, at) \in SUBSET Columns
         /\ IsFiniteSet(ColsAt(cells, at)) /\ Cardinality(ColsAt(cells, at)) \in 0 .. FrameSize
         /\ \A c \in ColsAt(cells, at) :
              Rank(ColsAt(cells, at), c) \in 1 .. Cardinality(ColsAt(cells, at))
         /\ EndsAt(cells, at) \in Nat /\ EndsAt(cells, at) >= at + MaskBlocks
<1> DEFINE cols == ColsAt(cells, at)
<1>1. FrameSize \in Nat /\ MaskBlocks \in Nat
  BY CodecAssumption
<1>2. cols \in SUBSET (1 .. FrameSize)
  BY DEF ColsAt, ColumnsOf, Columns
<1> HIDE DEF cols
<1>3. IsFiniteSet(cols) /\ Cardinality(cols) \in 0 .. FrameSize
  BY <1>1, <1>2, RankBounds
<1>4. \A c \in cols : Rank(cols, c) \in 1 .. Cardinality(cols)
  BY <1>1, <1>2, NthOfRank
<1>5. /\ at + MaskBlocks + Cardinality(cols) \in Nat
      /\ at + MaskBlocks + Cardinality(cols) >= at + MaskBlocks
  BY <1>1, <1>3
<1> QED BY <1>2, <1>3, <1>4, <1>5 DEF cols, EndsAt, Columns

\* The three things that can come of taking a record.
LEMMA TakeCases ==
  ASSUME NEW cells, Len(cells) \in Nat, NEW w \in Walking
  PROVE  LET at == w.at + 1 IN
         /\ cells[at] = EVENT /\ at + 1 <= Len(cells) =>
              Take(cells, w) = [err |-> w.err, at |-> at + 1,
                                records |-> AddEvent(w.records, cells[at + 1])]
         /\ cells[at] \in {DELTA, KEYFRAME} /\ EndsAt(cells, at) <= Len(cells) =>
              Take(cells, w) =
                [err |-> w.err, at |-> EndsAt(cells, at),
                 records |-> AddFrame(w.records, cells[at], MaskAt(cells, at),
                                      BytesAt(cells, at))]
         /\ \/ cells[at] = EVENT /\ at + 1 <= Len(cells)
            \/ cells[at] \in {DELTA, KEYFRAME} /\ EndsAt(cells, at) <= Len(cells)
            \/ Take(cells, w).err # "ok"
<1> DEFINE at == w.at + 1
           cols == ColsAt(cells, at)
<1>1. w.at \in Nat /\ at \in Nat /\ w.err \in {"ok", "truncated", "corrupt_sections"} /\ w.records \in Records
      /\ w = [err |-> w.err, at |-> w.at, records |-> w.records]
  BY DEF Walking
<1>2. Take(cells, w) =
        IF cells[at] \notin Types THEN [w EXCEPT !.err = "corrupt_sections"]
        ELSE IF \/ at + (IF cells[at] = EVENT THEN 1 ELSE MaskBlocks) > Len(cells)
                \/ cells[at] # EVENT /\ EndsAt(cells, at) > Len(cells)
        THEN [w EXCEPT !.err = "truncated"]
        ELSE IF cells[at] = EVENT
        THEN [w EXCEPT !.at = at + 1, !.records = AddEvent(@, cells[at + 1])]
        ELSE [w EXCEPT !.at = EndsAt(cells, at),
                       !.records = AddFrame(@, cells[at], MaskAt(cells, at),
                                            BytesAt(cells, at))]
  BY DEF Take, EndsAt, ColsAt, MaskAt, BytesAt
<1>3. EndsAt(cells, at) \in Nat /\ EndsAt(cells, at) >= at + MaskBlocks /\ MaskBlocks \in Nat
  BY <1>1, RecordShape, CodecAssumption
<1> HIDE DEF at
<1>4. ASSUME cells[at] = EVENT, at + 1 <= Len(cells)
      PROVE  Take(cells, w) = [err |-> w.err, at |-> at + 1,
                               records |-> AddEvent(w.records, cells[at + 1])]
  <2>1. Take(cells, w) = [w EXCEPT !.at = at + 1, !.records = AddEvent(@, cells[at + 1])]
    BY <1>1, <1>2, <1>4, TypesDiffer
  <2> QED BY <2>1, <1>1
<1>5. ASSUME cells[at] \in {DELTA, KEYFRAME}, EndsAt(cells, at) <= Len(cells)
      PROVE  Take(cells, w) =
               [err |-> w.err, at |-> EndsAt(cells, at),
                records |-> AddFrame(w.records, cells[at], MaskAt(cells, at),
                                     BytesAt(cells, at))]
  <2>1. cells[at] \in Types /\ cells[at] # EVENT
    BY <1>5, TypesDiffer
  <2>2. ~ (at + MaskBlocks > Len(cells)) /\ ~ (EndsAt(cells, at) > Len(cells))
    BY <1>1, <1>3, <1>5
  <2>3. Take(cells, w) = [w EXCEPT !.at = EndsAt(cells, at),
                       !.records = AddFrame(@, cells[at], MaskAt(cells, at),
                                            BytesAt(cells, at))]
    BY <1>2, <2>1, <2>2
  <2> QED BY <2>3, <1>1
<1>6. ASSUME ~ (cells[at] = EVENT /\ at + 1 <= Len(cells)),
             ~ (cells[at] \in {DELTA, KEYFRAME} /\ EndsAt(cells, at) <= Len(cells))
      PROVE  Take(cells, w).err # "ok"
  <2>1. [w EXCEPT !.err = "corrupt_sections"].err # "ok"
        /\ [w EXCEPT !.err = "truncated"].err # "ok"
    BY <1>1
  <2>2. CASE cells[at] \notin Types
    BY <2>1, <2>2, <1>2
  <2>3. CASE cells[at] = EVENT
    <3>1. at + 1 > Len(cells)
      BY <2>3, <1>1, <1>6
    <3> QED BY <3>1, <2>1, <2>3, <1>2, TypesDiffer
  <2>4. CASE cells[at] \in {DELTA, KEYFRAME}
    <3>1. EndsAt(cells, at) > Len(cells)
      BY <2>4, <1>3, <1>6
    <3> QED BY <3>1, <2>1, <2>4, <1>2, TypesDiffer
  <2> QED BY <2>2, <2>3, <2>4, TypesDiffer
<1> QED BY <1>4, <1>5, <1>6 DEF at

\* What is added to records are records.
LEMMA AddTyped ==
  ASSUME NEW recs \in Records
  PROVE  /\ \A ev \in Cell : AddEvent(recs, ev) \in Records
         /\ \A type \in Types, mask \in [1 .. MaskBlocks -> Cell],
               cols \in SUBSET Columns : \A bytes \in [cols -> Cell] :
              AddFrame(recs, type, mask, bytes) \in Records
<1>0. /\ recs.types \in Seq(Cell) /\ recs.events \in Seq(Cell)
      /\ recs.flags \in [1 .. MaskBlocks -> Seq(Cell)]
      /\ recs.data \in [Columns -> Seq(Cell)]
      /\ recs = [types |-> recs.types, flags |-> recs.flags, data |-> recs.data,
                 events |-> recs.events]
  BY DEF Records
<1>1. ASSUME NEW ev \in Cell PROVE AddEvent(recs, ev) \in Records
  <2>1. Append(recs.types, EVENT) \in Seq(Cell) /\ Append(recs.events, ev) \in Seq(Cell)
    <3>1. EVENT \in Cell
      BY TypesDiffer
    <3> QED BY <1>0, <3>1, AppendProperties, Zenon
  <2>2. AddEvent(recs, ev) = [types |-> Append(recs.types, EVENT), flags |-> recs.flags,
                              data |-> recs.data, events |-> Append(recs.events, ev)]
    BY DEF AddEvent
  <2> QED BY <2>1, <2>2, <1>0 DEF Records
<1>2. ASSUME NEW type \in Types, NEW mask \in [1 .. MaskBlocks -> Cell],
             NEW cols \in SUBSET Columns, NEW bytes \in [cols -> Cell]
      PROVE  AddFrame(recs, type, mask, bytes) \in Records
  <2>1. Append(recs.types, type) \in Seq(Cell)
    <3>1. type \in Cell
      BY TypesDiffer
    <3> QED BY <1>0, <3>1, AppendProperties, Zenon
  <2>2. \A b \in 1 .. MaskBlocks : Append(recs.flags[b], mask[b]) \in Seq(Cell)
    <3> TAKE b \in 1 .. MaskBlocks
    <3>1. recs.flags[b] \in Seq(Cell) /\ mask[b] \in Cell
      BY <1>0
    <3> QED BY <3>1, AppendProperties, Zenon
  <2>3. \A c \in Columns :
          (IF c \in DOMAIN bytes THEN Append(recs.data[c], bytes[c]) ELSE recs.data[c])
            \in Seq(Cell)
    <3> TAKE c \in Columns
    <3>1. recs.data[c] \in Seq(Cell)
      BY <1>0
    <3>2. c \in DOMAIN bytes => bytes[c] \in Cell
      BY <1>2
    <3>3. c \in DOMAIN bytes => Append(recs.data[c], bytes[c]) \in Seq(Cell)
      BY <3>1, <3>2, AppendProperties, Zenon
    <3> QED BY <3>1, <3>3
  <2> DEFINE flags == [b \in 1 .. MaskBlocks |-> Append(recs.flags[b], mask[b])]
             data == [c \in Columns |-> IF c \in DOMAIN bytes
                                        THEN Append(recs.data[c], bytes[c]) ELSE recs.data[c]]
  <2>4. flags \in [1 .. MaskBlocks -> Seq(Cell)] /\ data \in [Columns -> Seq(Cell)]
    BY <2>2, <2>3
  <2>5. AddFrame(recs, type, mask, bytes) =
          [types |-> Append(recs.types, type), flags |-> flags, data |-> data,
           events |-> recs.events]
    BY DEF AddFrame
  <2> HIDE DEF flags, data
  <2> QED BY <2>1, <2>4, <2>5, <1>0 DEF Records
<1> QED BY <1>1, <1>2

\* A record that is taken is taken from the file, and something of it.
LEMMA TakeTyped ==
  ASSUME NEW cells \in Seq(Cell), NEW w \in Walking, w.at < Len(cells),
         Take(cells, w).err = "ok"
  PROVE  /\ Take(cells, w) \in Walking /\ w.err = "ok"
         /\ Take(cells, w).at \in w.at + 1 .. Len(cells)
<1> DEFINE at == w.at + 1
<1>0. Len(cells) \in Nat /\ w.at \in Nat /\ at \in 1 .. Len(cells) /\ w.records \in Records
      /\ w.err \in {"ok", "truncated", "corrupt_sections"} /\ at \in Nat
  BY DEF Walking
<1>1. \A k \in 1 .. Len(cells) : cells[k] \in Cell
  BY ElementOfSeq
<1>2. CASE cells[at] = EVENT /\ at + 1 <= Len(cells)
  <2>1. Take(cells, w) = [err |-> w.err, at |-> at + 1,
                          records |-> AddEvent(w.records, cells[at + 1])]
    BY <1>0, <1>2, TakeCases
  <2>2. cells[at + 1] \in Cell /\ at + 1 \in w.at + 1 .. Len(cells) /\ at + 1 \in Nat
    BY <1>0, <1>1, <1>2
  <2>3. AddEvent(w.records, cells[at + 1]) \in Records
    BY <1>0, <2>2, AddTyped
  <2> QED BY <2>1, <2>2, <2>3, <1>0 DEF Walking
<1>3. CASE cells[at] \in {DELTA, KEYFRAME} /\ EndsAt(cells, at) <= Len(cells)
  <2>1. Take(cells, w) =
                [err |-> w.err, at |-> EndsAt(cells, at),
                 records |-> AddFrame(w.records, cells[at], MaskAt(cells, at),
                                      BytesAt(cells, at))]
    BY <1>0, <1>3, TakeCases
  <2>2. /\ ColsAt(cells, at) \in SUBSET Columns
        /\ Cardinality(ColsAt(cells, at)) \in Nat
        /\ \A c \in ColsAt(cells, at) :
              Rank(ColsAt(cells, at), c) \in 1 .. Cardinality(ColsAt(cells, at))
        /\ EndsAt(cells, at) \in Nat /\ EndsAt(cells, at) >= at + MaskBlocks
        /\ MaskBlocks \in Nat /\ MaskBlocks >= 1
    BY <1>0, RecordShape, CodecAssumption
  <2>3. EndsAt(cells, at) \in w.at + 1 .. Len(cells) 
    BY <1>0, <1>3, <2>2
  <2>4. MaskAt(cells, at) \in [1 .. MaskBlocks -> Cell]
    <3>1. \A b \in 1 .. MaskBlocks : cells[at + b] \in Cell
      BY <1>0, <1>1, <1>3, <2>2, SMTT(30)
    <3> QED BY <3>1 DEF MaskAt
  <2>5. BytesAt(cells, at) \in [ColsAt(cells, at) -> Cell]
    <3> DEFINE cols == ColsAt(cells, at)
               card == Cardinality(cols)
    <3>1. \A c \in cols : at + MaskBlocks + Rank(cols, c) \in 1 .. Len(cells)
      <4> TAKE c \in cols
      <4>1. /\ Rank(cols, c) \in 1 .. card /\ card \in Nat
            /\ at + MaskBlocks + card <= Len(cells)
        BY <2>2, <1>3 DEF EndsAt
      <4> HIDE DEF cols, card, at
      <4>2. at \in Nat /\ Len(cells) \in Nat
        BY <1>0 DEF at
      <4> QED BY <4>1, <4>2, <2>2
    <3>2. \A c \in cols : cells[at + MaskBlocks + Rank(cols, c)] \in Cell
      BY <3>1, <1>1
    <3> QED BY <3>2 DEF BytesAt
  <2>6. cells[at] \in Types
    BY <1>3, TypesDiffer
  <2>7. AddFrame(w.records, cells[at], MaskAt(cells, at), BytesAt(cells, at)) \in Records
    BY <1>0, <2>2, <2>4, <2>5, <2>6, AddTyped
  <2> QED BY <2>1, <2>2, <2>3, <2>7, <1>0 DEF Walking
<1>4. Take(cells, w).err = "ok"
  OBVIOUS
<1>5. \/ cells[at] = EVENT /\ at + 1 <= Len(cells)
      \/ cells[at] \in {DELTA, KEYFRAME} /\ EndsAt(cells, at) <= Len(cells)
  BY <1>0, <1>4, TakeCases
<1> QED BY <1>2, <1>3, <1>5

\* What follows a record does not change what is taken.
LEMMA TakePrefix ==
  ASSUME NEW cells \in Seq(Cell), NEW more \in Seq(Cell), NEW w \in Walking,
         w.at < Len(cells), Take(cells, w).err = "ok"
  PROVE  Take(cells \o more, w) = Take(cells, w)
<1> DEFINE at == w.at + 1
           all == cells \o more
<1>0. Len(cells) \in Nat /\ w.at \in Nat /\ at \in 1 .. Len(cells) /\ at \in Nat
  BY DEF Walking
<1>1. all \in Seq(Cell) /\ Len(all) \in Nat /\ Len(all) >= Len(cells)
      /\ \A k \in 1 .. Len(cells) : all[k] = cells[k]
  BY ConcatProperties
<1> HIDE DEF all
<1>2. CASE cells[at] = EVENT /\ at + 1 <= Len(cells)
  <2>1. at + 1 \in 1 .. Len(cells) /\ at + 1 <= Len(all)
    BY <1>0, <1>1, <1>2
  <2>2. all[at + 1] = cells[at + 1] /\ all[at] = EVENT
    BY <1>0, <1>1, <1>2, <2>1
  <2> QED BY <1>0, <1>1, <1>2, <2>1, <2>2, TakeCases DEF all
<1>3. CASE cells[at] \in {DELTA, KEYFRAME} /\ EndsAt(cells, at) <= Len(cells)
  <2>1. EndsAt(cells, at) \in Nat /\ EndsAt(cells, at) >= at + MaskBlocks /\ MaskBlocks \in Nat
    BY <1>0, RecordShape, CodecAssumption
  <2>2. \A b \in 1 .. MaskBlocks : all[at + b] = cells[at + b]
    <3> TAKE b \in 1 .. MaskBlocks
    <3>1. at + b \in 1 .. Len(cells)
      <4> HIDE DEF at
      <4> QED BY <1>0, <1>3, <2>1
    <3> QED BY <3>1, <1>1
  <2>3. MaskAt(all, at) = MaskAt(cells, at)
    BY <2>2 DEF MaskAt
  <2>4. ColsAt(all, at) = ColsAt(cells, at) /\ EndsAt(all, at) = EndsAt(cells, at)
    BY <2>3 DEF ColsAt, EndsAt
  <2> DEFINE cols == ColsAt(cells, at)
             card == Cardinality(cols)
  <2>5. \A c \in cols : at + MaskBlocks + Rank(cols, c) \in 1 .. Len(cells)
    <3> TAKE c \in cols
    <3>1. /\ Rank(cols, c) \in 1 .. card /\ card \in Nat
          /\ at + MaskBlocks + card <= Len(cells)
      BY <1>0, <1>3, RecordShape DEF EndsAt
    <3> HIDE DEF cols, card, at
    <3>2. at \in Nat /\ Len(cells) \in Nat
      BY <1>0 DEF at
    <3> QED BY <3>1, <3>2, <2>1
  <2>6. \A c \in cols : all[at + MaskBlocks + Rank(cols, c)] = cells[at + MaskBlocks + Rank(cols, c)]
    BY <2>5, <1>1
  <2>7. BytesAt(all, at) = BytesAt(cells, at)
    BY <2>4, <2>6 DEF BytesAt
  <2>8. all[at] = cells[at] /\ EndsAt(all, at) <= Len(all)
    BY <1>0, <1>1, <1>3, <2>1, <2>4, SMTT(30)
  <2> QED BY <1>0, <1>1, <1>3, <2>3, <2>4, <2>7, <2>8, TakeCases DEF all
<1>5. \/ cells[at] = EVENT /\ at + 1 <= Len(cells)
      \/ cells[at] \in {DELTA, KEYFRAME} /\ EndsAt(cells, at) <= Len(cells)
  BY <1>0, TakeCases
<1> QED BY <1>2, <1>3, <1>5

\* When no record is taken, the walk stays where it is.
LEMMA TakeFails ==
  ASSUME NEW cells, NEW w \in Walking, w.err = "ok", Take(cells, w).err # "ok"
  PROVE  Take(cells, w) \in Walking
<1> DEFINE at == w.at + 1
<1>1. w.at \in Nat /\ w.records \in Records
      /\ w = [err |-> w.err, at |-> w.at, records |-> w.records]
  BY DEF Walking
<1>2. Take(cells, w) =
        IF cells[at] \notin Types THEN [w EXCEPT !.err = "corrupt_sections"]
        ELSE IF \/ at + (IF cells[at] = EVENT THEN 1 ELSE MaskBlocks) > Len(cells)
                \/ cells[at] # EVENT /\ EndsAt(cells, at) > Len(cells)
        THEN [w EXCEPT !.err = "truncated"]
        ELSE IF cells[at] = EVENT
        THEN [w EXCEPT !.at = at + 1, !.records = AddEvent(@, cells[at + 1])]
        ELSE [w EXCEPT !.at = EndsAt(cells, at),
                       !.records = AddFrame(@, cells[at], MaskAt(cells, at),
                                            BytesAt(cells, at))]
  BY DEF Take, EndsAt, ColsAt, MaskAt, BytesAt
<1> HIDE DEF at
<1>3. /\ [w EXCEPT !.err = "corrupt_sections"] \in Walking
      /\ [w EXCEPT !.err = "truncated"] \in Walking
  BY DEF Walking
<1>4. /\ [w EXCEPT !.at = at + 1, !.records = AddEvent(@, cells[at + 1])].err = "ok"
      /\ [w EXCEPT !.at = EndsAt(cells, at),
                   !.records = AddFrame(@, cells[at], MaskAt(cells, at),
                                        BytesAt(cells, at))].err = "ok"
  BY <1>1
<1> QED BY <1>2, <1>3, <1>4

\* Where a walk begins, and a step of it.
Beginning == [err |-> "ok", at |-> 0, records |-> NoRecords]

Step(cells, w) == IF w.err # "ok" \/ w.at = Len(cells) THEN w ELSE Take(cells, w)

IsWalk(cells, f) ==
  /\ f \in [0 .. Len(cells) -> Walking]
  /\ f[0] = Beginning
  /\ \A n \in 1 .. Len(cells) : f[n] = Step(cells, f[n - 1])
  /\ \A n \in 0 .. Len(cells) : f[n].err = "ok" => f[n].at <= Len(cells)

\* Nothing has been taken apart before the first record.
LEMMA BeginningTyped ==
  Beginning \in Walking
<1>1. NoRecords \in Records
  <2>1. <<>> \in Seq(Cell)
    OBVIOUS
  <2>2. [b \in 1 .. MaskBlocks |-> <<>>] \in [1 .. MaskBlocks -> Seq(Cell)]
        /\ [c \in Columns |-> <<>>] \in [Columns -> Seq(Cell)]
    BY <2>1
  <2> QED BY <2>1, <2>2 DEF NoRecords, Records
<1> QED BY <1>1 DEF Beginning, Walking

\* A file has a walk, which gives what Split gives.
LEMMA WalkExists ==
  ASSUME NEW cells \in Seq(Cell)
  PROVE  \E f : IsWalk(cells, f) /\ Split(cells) = f[Len(cells)]
<1> DEFINE N == Len(cells)
           go == [x \in Walking \X (1 .. N) |->
                      IF x[1].at <= N /\ x[1].err = "ok" THEN Step(cells, x[1]) ELSE x[1]]
           Rec(f) == [n \in 0 .. N |->
                        IF n = 0 THEN Beginning ELSE Step(cells, f[n - 1])]
<1>0. N \in Nat
  BY LenProperties
<1>1. ASSUME NEW w \in Walking, w.err = "ok", w.at <= N
      PROVE  Step(cells, w) \in Walking /\ (Step(cells, w).err = "ok" => Step(cells, w).at <= N)
  <2>0. w.at \in Nat
    BY DEF Walking
  <2>1. CASE w.at = N
    BY <1>1, <2>1 DEF Step
  <2>2. CASE w.at # N
    <3>1. Step(cells, w) = Take(cells, w) /\ w.at < N
      BY <1>0, <1>1, <2>0, <2>2 DEF Step
    <3>2. CASE Take(cells, w).err = "ok"
      <4>1. Take(cells, w) \in Walking /\ Take(cells, w).at \in w.at + 1 .. N
        BY <3>1, <3>2, TakeTyped
      <4> QED BY <4>1, <3>1, <1>0, <2>0
    <3>3. CASE Take(cells, w).err # "ok"
      BY <1>1, <3>1, <3>3, TakeFails
    <3> QED BY <3>2, <3>3
  <2> QED BY <2>1, <2>2
<1>2. go \in [Walking \X (1 .. N) -> Walking]
  <2>1. \A x \in Walking \X (1 .. N) : x[1] \in Walking
    OBVIOUS
  <2> HIDE DEF N
  <2> QED BY <2>1, <1>1
<1>3. PICK f : /\ f \in [0 .. N -> Walking]
               /\ f[0] = Beginning
               /\ \A n \in 1 .. N : f[n] = go[<<f[n - 1], n>>]
  <2>1. Beginning \in Walking
    BY BeginningTyped
  <2> HIDE DEF N, go, Rec
  <2>2. go \in Steps(Walking, N)
    BY <1>2 DEF Steps
  <2> QED BY <1>0, <2>1, <2>2, Recursion, SMTT(30) DEF Follows
<1>4. \A n \in 1 .. N : /\ n - 1 \in 0 .. N /\ f[n - 1] \in Walking
                        /\ f[n] = IF f[n - 1].at <= N /\ f[n - 1].err = "ok"
                                  THEN Step(cells, f[n - 1]) ELSE f[n - 1]
  <2> TAKE n \in 1 .. N
  <2>1. n - 1 \in 0 .. N
    BY <1>0
  <2>2. f[n - 1] \in Walking /\ f[n] = go[<<f[n - 1], n>>]
    BY <1>3, <2>1
  <2>3. <<f[n - 1], n>> \in Walking \X (1 .. N) /\ <<f[n - 1], n>>[1] = f[n - 1]
    BY <2>2
  <2> HIDE DEF N
  <2> QED BY <2>1, <2>2, <2>3
<1> HIDE DEF go
<1>5. \A n \in 0 .. N : f[n].err = "ok" => f[n].at <= N
  <2> DEFINE S == {n \in 0 .. N : f[n].err = "ok" => f[n].at <= N}
  <2>1. 0 \in S
    BY <1>0, <1>3 DEF Beginning
  <2>2. ASSUME NEW n \in 1 .. N, n - 1 \in S PROVE n \in S
    <3>1. n \in 0 .. N
      BY <1>0
    <3> HIDE DEF N
    <3>2. f[n].err = "ok" => f[n].at <= N
      BY <2>2, <1>1, <1>4
    <3> QED BY <3>1, <3>2
  <2>3. 0 .. N \subseteq S
    <3> HIDE DEF S, N
    <3> QED BY <2>1, <2>2, <1>0, UpToInSet
  <2> QED BY <2>3
<1>6. \A n \in 1 .. N : f[n] = Step(cells, f[n - 1])
  <2> TAKE n \in 1 .. N
  <2>1. CASE f[n - 1].err = "ok"
    BY <1>4, <1>5, <2>1
  <2>2. CASE f[n - 1].err # "ok"
    <3>1. f[n] = f[n - 1]
      BY <1>4, <2>2
    <3> QED BY <3>1, <2>2 DEF Step
  <2> QED BY <2>1, <2>2
<1>7. IsWalk(cells, f)
  BY <1>3, <1>5, <1>6 DEF IsWalk
<1>8. f = Rec(f)
  <2>1. \A n \in 0 .. N : n # 0 => n \in 1 .. N
    BY <1>0
  <2>2. \A n \in 0 .. N : f[n] = IF n = 0 THEN Beginning ELSE Step(cells, f[n - 1])
    BY <2>1, <1>3, <1>6
  <2> HIDE DEF N
  <2> QED BY <2>2, <1>3
<1>9. Split(cells) = (CHOOSE g : g = Rec(g))[N]
  BY Zenon DEF Split, Beginning, Step
<1>10. ASSUME NEW g, g = Rec(g) PROVE g[N] = f[N]
  <2> DEFINE S == {n \in 0 .. N : g[n] = f[n]}
  <2>0. \A n \in 0 .. N : g[n] = IF n = 0 THEN Beginning ELSE Step(cells, g[n - 1])
    <3> HIDE DEF N
    <3> QED BY <1>10
  <2>1. 0 \in S
    BY <1>0, <1>3, <2>0
  <2>2. ASSUME NEW n \in 1 .. N, n - 1 \in S PROVE n \in S
    <3>1. n \in 0 .. N /\ n # 0
      BY <1>0
    <3> HIDE DEF N
    <3>2. g[n] = f[n]
      BY <3>1, <2>0, <2>2, <1>6
    <3> QED BY <3>1, <3>2
  <2>3. 0 .. N \subseteq S
    <3> HIDE DEF S, N
    <3> QED BY <2>1, <2>2, <1>0, UpToInSet
  <2>4. N \in 0 .. N
    BY <1>0
  <2> QED BY <2>3, <2>4
<1>11. Split(cells) = f[N]
  <2> DEFINE h == CHOOSE g : g = Rec(g)
  <2>1. h = Rec(h)
    <3> HIDE DEF Rec
    <3> QED BY <1>8
  <2> HIDE DEF h
  <2>2. h[N] = f[N]
    <3> HIDE DEF Rec, N
    <3> QED BY <2>1, <1>10
  <2> QED BY <2>2, <1>9 DEF h
<1> QED BY <1>7, <1>11

\* A walk that has failed, or is at the end of the file, stays there.
LEMMA WalkStays ==
  ASSUME NEW cells \in Seq(Cell), NEW f, IsWalk(cells, f),
         NEW k \in 0 .. Len(cells), f[k].err # "ok" \/ f[k].at = Len(cells)
  PROVE  f[Len(cells)] = f[k]
<1> DEFINE N == Len(cells)
           S == {n \in 0 .. N : n >= k => f[n] = f[k]}
<1>0. N \in Nat /\ k \in 0 .. N
  BY LenProperties
<1>1. 0 \in S
  BY <1>0
<1>2. ASSUME NEW n \in 1 .. N, n - 1 \in S PROVE n \in S
  <2>1. n \in 0 .. N
    BY <1>0
  <2>2. CASE n > k
    <3>1. n - 1 >= k
      BY <1>0, <2>2
    <3>2. f[n - 1] = f[k]
      BY <1>2, <3>1
    <3>3. f[n] = Step(cells, f[n - 1])
      BY DEF IsWalk
    <3> QED BY <2>1, <3>2, <3>3 DEF Step
  <2>3. CASE ~ (n > k)
    BY <1>0, <2>1, <2>3
  <2> QED BY <2>2, <2>3
<1>3. 0 .. N \subseteq S
  <2> HIDE DEF S, N
  <2> QED BY <1>0, <1>1, <1>2, UpToInSet
<1>4. N \in 0 .. N /\ N >= k
  BY <1>0
<1> QED BY <1>3, <1>4

(***************************************************************************)
(* A walk that does not fail comes to the end of the file: every step of   *)
(* it takes a record of the file, until there is none.                     *)
(***************************************************************************)
LEMMA WalkEnds ==
  ASSUME NEW cells \in Seq(Cell), NEW f, IsWalk(cells, f), f[Len(cells)].err = "ok"
  PROVE  \E k \in 0 .. Len(cells) :
           /\ f[k] = f[Len(cells)] /\ f[k].at = Len(cells)
           /\ \A n \in 1 .. k : /\ f[n - 1] \in Walking /\ f[n - 1].at < Len(cells)
                                /\ f[n] = Take(cells, f[n - 1])
                                /\ f[n].err = "ok"
<1> DEFINE N == Len(cells)
           S == {n \in 0 .. N : f[n].at >= n \/ f[n].at = N}
<1>0. N \in Nat
  BY LenProperties
<1>1. \A n \in 0 .. N : /\ f[n] \in Walking /\ f[n].err = "ok"
                        /\ f[n].at \in 0 .. N
  <2> TAKE n \in 0 .. N
  <2>1. f[n].err = "ok"
    BY WalkStays
  <2>2. f[n] \in Walking /\ f[n].at <= N
    BY <2>1 DEF IsWalk
  <2>3. f[n].at \in Nat
    BY <2>2 DEF Walking
  <2> HIDE DEF N
  <2> QED BY <1>0, <2>1, <2>2, <2>3
<1>2. \A n \in 1 .. N :
        /\ n - 1 \in 0 .. N /\ n \in 0 .. N
        /\ f[n - 1].at # N => f[n - 1].at < N /\ f[n] = Take(cells, f[n - 1])
        /\ f[n - 1].at = N => f[n] = f[n - 1]
  <2> TAKE n \in 1 .. N
  <2>1. n - 1 \in 0 .. N /\ n \in 0 .. N
    BY <1>0
  <2>2. f[n] = Step(cells, f[n - 1])
    BY DEF IsWalk
  <2>3. f[n - 1].err = "ok" /\ f[n - 1].at \in 0 .. N
    BY <1>1, <2>1
  <2> QED BY <1>0, <2>1, <2>2, <2>3 DEF Step
<1>3. 0 \in S
  BY <1>0, <1>1
<1>4. ASSUME NEW n \in 1 .. N, n - 1 \in S PROVE n \in S
  <2>1. n \in 0 .. N /\ n - 1 \in 0 .. N
    BY <1>2
  <2>2. CASE f[n - 1].at = N
    <3>1. f[n] = f[n - 1]
      BY <1>2, <2>2
    <3> QED BY <2>1, <2>2, <3>1
  <2>3. CASE f[n - 1].at # N
    <3>1. f[n - 1].at < N /\ f[n] = Take(cells, f[n - 1])
      BY <1>2, <2>3
    <3>2. f[n].at \in f[n - 1].at + 1 .. N
      BY <1>1, <2>1, <3>1, TakeTyped
    <3>3. f[n - 1].at >= n - 1
      BY <1>4, <2>3
    <3>4. f[n].at >= n
      <4> HIDE DEF N, S
      <4> QED BY <3>2, <3>3, <1>0, <1>1, <2>1
    <3> QED BY <2>1, <3>4
  <2> QED BY <2>2, <2>3
<1>5. 0 .. N \subseteq S
  <2> HIDE DEF S, N
  <2> QED BY <1>0, <1>3, <1>4, UpToInSet
<1>6. N \in 0 .. N /\ f[N].at = N
  <2>1. N \in 0 .. N
    BY <1>0
  <2>2. f[N].at >= N \/ f[N].at = N
    BY <1>5, <2>1
  <2>3. f[N].at \in 0 .. N
    BY <1>1, <2>1
  <2> HIDE DEF N, S
  <2> QED BY <2>1, <2>2, <2>3, <1>0
<1> DEFINE T == {n \in 0 .. N : f[n].at = N}
<1>7. PICK k \in T : \A n \in T : k <= n
  <2>1. T \subseteq Nat /\ N \in T
    BY <1>0, <1>6
  <2> HIDE DEF T
  <2> QED BY <2>1, LeastNat
<1>8. k \in 0 .. N /\ f[k].at = N
  BY <1>7
<1>9. f[k] = f[N]
  BY <1>8, WalkStays
<1>10. ASSUME NEW n \in 1 .. k
       PROVE  /\ f[n - 1] \in Walking /\ f[n - 1].at < N
              /\ f[n] = Take(cells, f[n - 1]) /\ f[n].err = "ok"
  <2>1. n \in 1 .. N /\ n - 1 \in 0 .. N /\ n \in 0 .. N /\ ~ (k <= n - 1)
    BY <1>0, <1>8
  <2>2. f[n - 1].at # N
    BY <2>1, <1>7
  <2> QED BY <2>1, <2>2, <1>1, <1>2
<1> QED BY <1>8, <1>9, <1>10

(***************************************************************************)
(* A file that can be taken apart, and a record behind it: the file and    *)
(* the record can be taken apart, and the record comes last.               *)
(***************************************************************************)
LEMMA SplitAppend ==
  ASSUME NEW cells \in Seq(Cell), NEW more \in Seq(Cell), Len(more) > 0,
         Split(cells).err = "ok"
  PROVE  /\ Split(cells) \in Walking /\ Split(cells).at = Len(cells)
         /\ LET w == Take(cells \o more, Split(cells)) IN
            w.err = "ok" /\ w.at = Len(cells \o more) => Split(cells \o more) = w
<1> DEFINE all == cells \o more
           N == Len(cells)
           M == Len(all)
<1>0. /\ all \in Seq(Cell) /\ N \in Nat /\ M \in Nat /\ M > N /\ N \in 0 .. N
  <2>1. Len(more) \in Nat /\ N \in Nat /\ all \in Seq(Cell) /\ M = N + Len(more)
    BY ConcatProperties, LenProperties
  <2> HIDE DEF N, M, all
  <2> QED BY <2>1
<1>1. PICK f : IsWalk(cells, f) /\ Split(cells) = f[N]
  BY WalkExists
<1>2. PICK g : IsWalk(all, g) /\ Split(all) = g[M]
  BY <1>0, WalkExists
<1>3. PICK k \in 0 .. N :
           /\ f[k] = f[N] /\ f[k].at = N
           /\ \A n \in 1 .. k : /\ f[n - 1] \in Walking /\ f[n - 1].at < N
                                /\ f[n] = Take(cells, f[n - 1])
                                /\ f[n].err = "ok"
  BY <1>1, WalkEnds
<1>4. f[N] \in Walking /\ f[N].err = "ok"
  BY <1>0, <1>1 DEF IsWalk
<1> DEFINE S == {n \in 0 .. k : g[n] = f[n]}
<1>5. 0 \in S
  BY <1>0, <1>1, <1>2, <1>3 DEF IsWalk
<1>6. ASSUME NEW n \in 1 .. k, n - 1 \in S PROVE n \in S
  <2>1. n \in 0 .. k /\ n \in 1 .. N /\ n \in 1 .. M /\ n - 1 \in 0 .. k
    <3> HIDE DEF N, M, S
    <3> QED BY <1>0, <1>3
  <2>2. /\ f[n - 1] \in Walking /\ f[n - 1].at < N
        /\ f[n] = Take(cells, f[n - 1]) /\ f[n].err = "ok"
    BY <1>3
  <2>3. g[n - 1] = f[n - 1]
    BY <1>6
  <2>4. f[n - 1].err = "ok"
    BY <2>2, TakeTyped
  <2>5. f[n - 1].at \in Nat
    BY <2>2 DEF Walking
  <2>6. f[n - 1].at # M
    <3> HIDE DEF N, M, S
    <3> QED BY <1>0, <2>2, <2>5
  <2>7. g[n] = Step(all, g[n - 1])
    BY <1>2, <2>1 DEF IsWalk
  <2>8. g[n] = Take(all, f[n - 1])
    BY <2>3, <2>4, <2>6, <2>7 DEF Step
  <2>9. Take(all, f[n - 1]) = Take(cells, f[n - 1])
    BY <2>2, TakePrefix
  <2> QED BY <2>1, <2>2, <2>8, <2>9
<1>7. g[k] = f[N]
  <2>1. 0 .. k \subseteq S
    <3>1. k \in Nat
      BY <1>0, <1>3
    <3> HIDE DEF S
    <3> QED BY <3>1, <1>5, <1>6, UpToInSet
  <2>2. k \in 0 .. k
    BY <1>0, <1>3
  <2> QED BY <2>1, <2>2, <1>3
<1>8. k + 1 \in 1 .. M /\ k + 1 \in 0 .. M /\ (k + 1) - 1 = k
  <2> HIDE DEF N, M, S
  <2> QED BY <1>0, <1>3
<1>9. g[k + 1] = Take(all, f[N])
  <2>1. g[k + 1] = Step(all, f[N])
    BY <1>2, <1>7, <1>8 DEF IsWalk
  <2>2. f[N].at # M
    <3> HIDE DEF N, M, S
    <3> QED BY <1>0, <1>3
  <2> QED BY <2>1, <2>2, <1>4 DEF Step
<1>10. ASSUME Take(all, f[N]).err = "ok", Take(all, f[N]).at = M
       PROVE  Split(all) = Take(all, f[N])
  <2>1. g[k + 1].at = M
    BY <1>9, <1>10
  <2>2. g[M] = g[k + 1]
    <3> DEFINE j == k + 1
    <3>1. j \in 0 .. M /\ g[j].at = M
      BY <1>8, <2>1
    <3> HIDE DEF all, j, N
    <3>2. g[M] = g[j]
      BY <1>0, <1>2, <3>1, WalkStays
    <3> QED BY <3>2 DEF j
  <2> QED BY <1>2, <1>9, <2>2
<1> QED BY <1>1, <1>3, <1>4, <1>10

-----------------------------------------------------------------------------
(***************************************************************************)
(* What the records of a file stand for.  Frame r of F is what row r of    *)
(* the masks, the bytes of its columns and the frame before it give.       *)
(***************************************************************************)
IsFrame(f) == f \in [Columns -> Cell]

Masks(recs, n) == [r \in 1 .. n |-> [b \in 1 .. MaskBlocks |-> recs.flags[b][r]]]

Prev(F, r) == IF r = 1 THEN NoFrame ELSE F[r - 1]

RowGives(recs, F, r, c) ==
  LET masks == Masks(recs, Len(F))
      byte  == recs.data[c][Rank(RowsWith(masks, c), r)]
  IN  F[r][c] = IF c \notin ColumnsOf(masks[r]) THEN Prev(F, r)[c]
                ELSE IF recs.types[Nth(FrameRecords(recs.types), r)] = KEYFRAME THEN byte
                ELSE Xor(Prev(F, r)[c], byte)

Describes(recs, F) ==
  /\ recs \in Records
  /\ F \in Seq([Columns -> Cell])
  /\ \A t \in DOMAIN recs.types : recs.types[t] \in Types
  /\ \A b \in 1 .. MaskBlocks : Len(recs.flags[b]) = Len(F)
  /\ Cardinality(FrameRecords(recs.types)) = Len(F)
  /\ Len(recs.types) = Len(F) + Len(recs.events)
  /\ \A c \in Columns :
       Len(recs.data[c]) = Cardinality(RowsWith(Masks(recs, Len(F)), c))
  /\ \A r \in 1 .. Len(F) : \A c \in Columns : RowGives(recs, F, r, c)

\* No records stand for no frames.
LEMMA DescribesNothing ==
  Describes(NoRecords, <<>>)
<1>1. NoRecords \in Records
  BY BeginningTyped DEF Beginning, Walking
<1>2. FrameRecords(<<>>) = {} /\ Cardinality({}) = 0
  BY FS_EmptySet DEF FrameRecords
<1>3. ASSUME NEW c \in Columns
      PROVE  Cardinality(RowsWith(Masks(NoRecords, 0), c)) = 0
  <2>1. RowsWith(Masks(NoRecords, 0), c) = {}
    BY DEF RowsWith, Masks
  <2> QED BY <2>1, FS_EmptySet
<1>4. Len(<<>>) = 0 /\ <<>> \in Seq([Columns -> Cell]) /\ 1 .. 0 = {} /\ DOMAIN <<>> = {}
  OBVIOUS
<1>5. /\ NoRecords.types = <<>> /\ NoRecords.events = <<>>
      /\ \A b \in 1 .. MaskBlocks : NoRecords.flags[b] = <<>>
      /\ \A c \in Columns : NoRecords.data[c] = <<>>
  BY DEF NoRecords
<1> QED BY <1>1, <1>2, <1>3, <1>4, <1>5 DEF Describes

\* The rank of a frame among the records, and of a row among those with a column.
LEMMA DescribesNumbers ==
  ASSUME NEW recs, NEW F, Describes(recs, F)
  PROVE  /\ Len(F) \in Nat /\ Len(recs.types) \in Nat
         /\ FrameRecords(recs.types) \in SUBSET (1 .. Len(recs.types))
         /\ \A r \in 1 .. Len(F) :
              /\ Nth(FrameRecords(recs.types), r) \in FrameRecords(recs.types)
              /\ Rank(FrameRecords(recs.types), Nth(FrameRecords(recs.types), r)) = r
         /\ \A c \in Columns :
              LET rows == RowsWith(Masks(recs, Len(F)), c) IN
              /\ rows \in SUBSET (1 .. Len(F))
              /\ Len(recs.data[c]) \in Nat
              /\ \A r \in rows : Rank(rows, r) \in 1 .. Len(recs.data[c])
<1>1. Len(F) \in Nat /\ recs.types \in Seq(Cell)
  BY LenProperties DEF Describes, Records
<1>2. Len(recs.types) \in Nat /\ DOMAIN recs.types = 1 .. Len(recs.types)
  BY <1>1, LenProperties
<1>3. FrameRecords(recs.types) \in SUBSET (1 .. Len(recs.types))
  BY <1>2 DEF FrameRecords
<1>4. Cardinality(FrameRecords(recs.types)) = Len(F)
  BY DEF Describes
<1>5. \A r \in 1 .. Len(F) :
              /\ Nth(FrameRecords(recs.types), r) \in FrameRecords(recs.types)
              /\ Rank(FrameRecords(recs.types), Nth(FrameRecords(recs.types), r)) = r
  <2> DEFINE S == FrameRecords(recs.types)
  <2> HIDE DEF S
  <2>1. S \in SUBSET (1 .. Len(recs.types)) /\ Cardinality(S) = Len(F)
    BY <1>3, <1>4 DEF S
  <2>2. \A r \in 1 .. Len(F) : Nth(S, r) \in S /\ Rank(S, Nth(S, r)) = r
    BY <1>2, <2>1, NthOfRank
  <2> QED BY <2>2 DEF S
<1>6. ASSUME NEW c \in Columns
      PROVE  LET rows == RowsWith(Masks(recs, Len(F)), c) IN
             /\ rows \in SUBSET (1 .. Len(F))
             /\ Len(recs.data[c]) \in Nat
             /\ \A r \in rows : Rank(rows, r) \in 1 .. Len(recs.data[c])
  <2> DEFINE rows == RowsWith(Masks(recs, Len(F)), c)
  <2>1. rows \in SUBSET (1 .. Len(F))
    BY DEF RowsWith, Masks
  <2>2. Len(recs.data[c]) = Cardinality(rows)
    BY DEF Describes
  <2> HIDE DEF rows
  <2>3. Cardinality(rows) \in Nat
    <3>1. Cardinality(rows) \in 0 .. Len(F)
      BY <1>1, <2>1, RankBounds
    <3> QED BY <1>1, <3>1
  <2>4. \A r \in rows : Rank(rows, r) \in 1 .. Cardinality(rows)
    BY <1>1, <2>1, NthOfRank
  <2> QED BY <2>1, <2>2, <2>3, <2>4 DEF rows
<1> QED BY <1>1, <1>2, <1>3, <1>5, <1>6

\* An event changes nothing of the frames.
LEMMA DescribesEvent ==
  ASSUME NEW recs, NEW F, Describes(recs, F), NEW ev \in Cell
  PROVE  Describes(AddEvent(recs, ev), F)
<1> DEFINE new == AddEvent(recs, ev)
           T == Len(recs.types)
<1>1. /\ recs \in Records /\ recs.types \in Seq(Cell) /\ recs.events \in Seq(Cell)
      /\ T \in Nat /\ Len(recs.events) \in Nat /\ Len(F) \in Nat
      /\ T = Len(F) + Len(recs.events)
  BY DescribesNumbers, LenProperties DEF Describes, Records
<1>2. /\ new.types = Append(recs.types, EVENT) /\ new.events = Append(recs.events, ev)
      /\ new.flags = recs.flags /\ new.data = recs.data
  BY DEF AddEvent
<1>3. new \in Records
  BY <1>1, AddTyped
<1>4. /\ Len(new.types) = T + 1 /\ Len(new.events) = Len(recs.events) + 1
      /\ \A t \in 1 .. T : new.types[t] = recs.types[t]
      /\ new.types[T + 1] = EVENT
      /\ DOMAIN new.types = 1 .. T + 1 /\ DOMAIN recs.types = 1 .. T
  <2>1. EVENT \in Cell
    BY TypesDiffer
  <2>2. Append(recs.types, EVENT) \in Seq(Cell)
    BY <1>1, <2>1, AppendProperties, Zenon
  <2> QED BY <1>1, <1>2, <2>1, <2>2, AppendProperties, LenProperties
<1> HIDE DEF new
<1>5. FrameRecords(new.types) = FrameRecords(recs.types)
  <2>1. \A t : t \in FrameRecords(new.types) <=> t \in FrameRecords(recs.types)
    <3> TAKE t
    <3>1. t \in 1 .. T + 1 <=> t \in 1 .. T \/ t = T + 1
      <4> HIDE DEF T
      <4> QED BY <1>1
    <3>2. T + 1 \notin 1 .. T
      <4> HIDE DEF T
      <4> QED BY <1>1
    <3> HIDE DEF T
    <3> QED BY <3>1, <3>2, <1>4 DEF FrameRecords
  <2> QED BY <2>1
<1>6. Masks(new, Len(F)) = Masks(recs, Len(F))
  BY <1>2 DEF Masks
<1>7. \A t \in DOMAIN new.types : new.types[t] \in Types
  <2> TAKE t \in DOMAIN new.types
  <2>1. t \in 1 .. T \/ t = T + 1
    <3>1. t \in 1 .. T + 1
      BY <1>4
    <3> HIDE DEF T
    <3> QED BY <1>1, <3>1, SMTT(30)
  <2>2. t \in 1 .. T => recs.types[t] \in Types
    BY <1>4 DEF Describes
  <2> QED BY <2>1, <2>2, <1>4, TypesDiffer
<1>8. ASSUME NEW r \in 1 .. Len(F), NEW c \in Columns PROVE RowGives(new, F, r, c)
  <2>1. Nth(FrameRecords(recs.types), r) \in 1 .. T
    BY DescribesNumbers
  <2>2. new.types[Nth(FrameRecords(recs.types), r)] = recs.types[Nth(FrameRecords(recs.types), r)]
    BY <2>1, <1>4
  <2>3. RowGives(recs, F, r, c)
    BY DEF Describes
  <2> QED BY <1>2, <1>5, <1>6, <2>2, <2>3 DEF RowGives
<1>9. Len(new.types) = Len(F) + Len(new.events)
  BY <1>1, <1>4
<1> QED BY <1>2, <1>3, <1>5, <1>6, <1>7, <1>8, <1>9 DEF Describes, new

\* The frame before the next one.
LastOf(F) == Prev(F, Len(F) + 1)

\* A frame record adds the frame that its bytes and the frame before it give.
LEMMA DescribesFrame ==
  ASSUME NEW recs, NEW F, Describes(recs, F), NEW type \in {DELTA, KEYFRAME},
         NEW mask \in [1 .. MaskBlocks -> Cell], NEW bytes \in [ColumnsOf(mask) -> Cell],
         NEW f \in [Columns -> Cell],
         \A c \in Columns :
           f[c] = IF c \notin ColumnsOf(mask) THEN LastOf(F)[c]
                  ELSE IF type = KEYFRAME THEN bytes[c]
                  ELSE Xor(LastOf(F)[c], bytes[c])
  PROVE  Describes(AddFrame(recs, type, mask, bytes), Append(F, f))
<1> DEFINE new == AddFrame(recs, type, mask, bytes)
           G == Append(F, f)
           T == Len(recs.types)
           n == Len(F)
           cols == ColumnsOf(mask)
<1>1. /\ recs \in Records /\ recs.types \in Seq(Cell) /\ recs.events \in Seq(Cell)
      /\ T \in Nat /\ Len(recs.events) \in Nat /\ n \in Nat /\ F \in Seq([Columns -> Cell])
      /\ T = n + Len(recs.events) /\ recs.flags \in [1 .. MaskBlocks -> Seq(Cell)]
      /\ recs.data \in [Columns -> Seq(Cell)]
  BY DescribesNumbers, LenProperties DEF Describes, Records
<1>0. T \in Nat /\ n \in Nat /\ Len(recs.events) \in Nat /\ T = n + Len(recs.events)
  BY <1>1
<1>2. /\ new.types = Append(recs.types, type) /\ new.events = recs.events
      /\ new.flags = [b \in 1 .. MaskBlocks |-> Append(recs.flags[b], mask[b])]
      /\ new.data = [c \in Columns |-> IF c \in cols THEN Append(recs.data[c], bytes[c])
                                       ELSE recs.data[c]]
  BY DEF AddFrame
<1>3. cols \in SUBSET Columns /\ type \in Types /\ type \in Cell /\ type # EVENT
  BY TypesDiffer DEF ColumnsOf
<1>4. new \in Records
  BY <1>1, <1>3, AddTyped
<1>5. /\ G \in Seq([Columns -> Cell]) /\ Len(G) = n + 1
      /\ \A r \in 1 .. n : G[r] = F[r]
      /\ G[n + 1] = f
  BY <1>1, AppendProperties
<1>6. /\ Len(new.types) = T + 1
      /\ \A t \in 1 .. T : new.types[t] = recs.types[t]
      /\ new.types[T + 1] = type
      /\ DOMAIN new.types = 1 .. T + 1 /\ DOMAIN recs.types = 1 .. T
  <2>1. Append(recs.types, type) \in Seq(Cell)
    BY <1>1, <1>3, AppendProperties, Zenon
  <2>2. new.types = Append(recs.types, type)
    BY <1>2
  <2>3. recs.types \in Seq(Cell)
    BY <1>1
  <2>4. /\ Len(Append(recs.types, type)) = T + 1
        /\ \A t \in 1 .. T : Append(recs.types, type)[t] = recs.types[t]
        /\ Append(recs.types, type)[T + 1] = type
    BY <1>3, <2>3, AppendProperties
  <2>5. /\ DOMAIN recs.types = 1 .. T
        /\ DOMAIN Append(recs.types, type) = 1 .. T + 1
    BY <2>1, <2>3, <2>4, LenProperties
  <2> HIDE DEF new
  <2> QED BY <2>2, <2>4, <2>5
<1>7. ASSUME NEW b \in 1 .. MaskBlocks
      PROVE  /\ Len(new.flags[b]) = n + 1 /\ new.flags[b][n + 1] = mask[b]
             /\ \A r \in 1 .. n : new.flags[b][r] = recs.flags[b][r]
  <2>1. new.flags[b] = Append(recs.flags[b], mask[b]) /\ recs.flags[b] \in Seq(Cell)
        /\ mask[b] \in Cell /\ Len(recs.flags[b]) = n
    BY <1>1, <1>2 DEF Describes
  <2> QED BY <2>1, AppendProperties
<1>8. ASSUME NEW c \in cols
      PROVE  /\ Len(new.data[c]) = Len(recs.data[c]) + 1
             /\ new.data[c][Len(recs.data[c]) + 1] = bytes[c]
             /\ \A k \in 1 .. Len(recs.data[c]) : new.data[c][k] = recs.data[c][k]
  <2>1. new.data[c] = Append(recs.data[c], bytes[c]) /\ recs.data[c] \in Seq(Cell)
        /\ bytes[c] \in Cell
    BY <1>1, <1>2, <1>3
  <2> QED BY <2>1, AppendProperties
<1>9. \A c \in Columns : c \notin cols => new.data[c] = recs.data[c]
  BY <1>2
<1> DEFINE S == FrameRecords(recs.types)
           old == Masks(recs, n)
           masks == Masks(new, n + 1)
<1>10. FrameRecords(new.types) = S \cup {T + 1}
  <2>1. \A t : t \in 1 .. T + 1 <=> t \in 1 .. T \/ t = T + 1
    <3> HIDE DEF T
    <3> QED BY <1>0
  <2>2. T + 1 \notin 1 .. T
    <3> HIDE DEF T
    <3> QED BY <1>0
  <2>3. \A t : t \in FrameRecords(new.types) <=> t \in FrameRecords(recs.types) \cup {T + 1}
    <3> HIDE DEF T, new
    <3> QED BY <2>1, <2>2, <1>3, <1>6 DEF FrameRecords
  <2> QED BY <2>3
<1>11. /\ S \in SUBSET (1 .. T) /\ Cardinality(S) = n
  BY DescribesNumbers DEF Describes
<1> HIDE DEF new, S, G
<1>12. /\ Cardinality(FrameRecords(new.types)) = n + 1
       /\ \A i \in 1 .. n : Nth(FrameRecords(new.types), i) = Nth(S, i)
       /\ Nth(FrameRecords(new.types), n + 1) = T + 1
  <2> HIDE DEF T, n
  <2>1. n + 1 = Cardinality(S) + 1 /\ \A i \in 1 .. n : i \in 1 .. Cardinality(S)
    BY <1>11
  <2>2. T \in Nat /\ S \in SUBSET (1 .. T)
    BY <1>0, <1>11
  <2>3. /\ Cardinality(S \cup {T + 1}) = Cardinality(S) + 1
        /\ \A i \in 1 .. Cardinality(S) : Nth(S \cup {T + 1}, i) = Nth(S, i)
        /\ Nth(S \cup {T + 1}, Cardinality(S) + 1) = T + 1
    BY <2>2, RankExtends
  <2> QED BY <1>10, <1>11, <2>1, <2>3
<1>13. /\ masks[n + 1] = mask
       /\ \A r \in 1 .. n : masks[r] = old[r]
       /\ DOMAIN masks = 1 .. n + 1 /\ DOMAIN old = 1 .. n
  <2>1. n + 1 \in 1 .. n + 1 /\ \A r \in 1 .. n : r \in 1 .. n + 1
    <3> HIDE DEF n
    <3> QED BY <1>0
  <2>2. masks[n + 1] = [b \in 1 .. MaskBlocks |-> mask[b]]
    BY <2>1, <1>7 DEF Masks
  <2>3. ASSUME NEW r \in 1 .. n PROVE masks[r] = old[r]
    BY <2>1, <1>7 DEF Masks
  <2>4. mask = [b \in 1 .. MaskBlocks |-> mask[b]]
    OBVIOUS
  <2> QED BY <2>2, <2>3, <2>4 DEF Masks
<1> HIDE DEF masks, old
<1>14. ASSUME NEW c \in Columns
       PROVE  /\ c \in cols => RowsWith(masks, c) = RowsWith(old, c) \cup {n + 1}
              /\ c \notin cols => RowsWith(masks, c) = RowsWith(old, c)
  <2>1. \A r : r \in 1 .. n + 1 <=> r \in 1 .. n \/ r = n + 1
    <3> HIDE DEF n
    <3> QED BY <1>0
  <2>2. n + 1 \notin 1 .. n
    <3> HIDE DEF n
    <3> QED BY <1>0
  <2>3. \A r : r \in RowsWith(masks, c) <=>
                 r \in RowsWith(old, c) \/ (r = n + 1 /\ c \in cols)
    <3> HIDE DEF n
    <3> QED BY <1>13, <2>1, <2>2 DEF RowsWith
  <2> QED BY <2>3
<1>15. ASSUME NEW c \in Columns
       PROVE  /\ RowsWith(old, c) \in SUBSET (1 .. n)
              /\ Cardinality(RowsWith(old, c)) = Len(recs.data[c])
              /\ Len(recs.data[c]) \in Nat
              /\ \A r \in RowsWith(old, c) : Rank(RowsWith(old, c), r) \in 1 .. Len(recs.data[c])
              /\ \A r \in 1 .. n : Rank(RowsWith(masks, c), r) = Rank(RowsWith(old, c), r)
              /\ Len(new.data[c]) = Cardinality(RowsWith(masks, c))
              /\ c \in cols => Rank(RowsWith(masks, c), n + 1) = Len(recs.data[c]) + 1
  <2> DEFINE R == RowsWith(old, c)
  <2>1. /\ R \in SUBSET (1 .. n) /\ Len(recs.data[c]) \in Nat
        /\ \A r \in R : Rank(R, r) \in 1 .. Len(recs.data[c])
    BY DescribesNumbers DEF old
  <2>2. Cardinality(R) = Len(recs.data[c])
    BY DEF Describes, old
  <2> HIDE DEF R, n
  <2>3. /\ Cardinality(R \cup {n + 1}) = Cardinality(R) + 1
        /\ \A r \in 0 .. n : Rank(R \cup {n + 1}, r) = Rank(R, r)
        /\ Rank(R \cup {n + 1}, n + 1) = Cardinality(R) + 1
    BY <1>1, <2>1, RankExtends
  <2>4. \A r \in 1 .. n : r \in 0 .. n
    BY <1>1
  <2>5. CASE c \in cols
    <3>1. RowsWith(masks, c) = R \cup {n + 1}
      BY <1>14, <2>5 DEF R
    <3> QED BY <2>1, <2>2, <2>3, <2>4, <2>5, <3>1, <1>8 DEF R
  <2>6. CASE c \notin cols
    <3>1. RowsWith(masks, c) = R
      BY <1>14, <2>6 DEF R
    <3> QED BY <2>1, <2>2, <2>6, <3>1, <1>9 DEF R
  <2> QED BY <2>5, <2>6
<1>16. ASSUME NEW r \in 1 .. n, NEW c \in Columns PROVE RowGives(new, G, r, c)
  <2> DEFINE byte == recs.data[c][Rank(RowsWith(old, c), r)]
  <2>1. F[r][c] = IF c \notin ColumnsOf(old[r]) THEN Prev(F, r)[c]
                  ELSE IF recs.types[Nth(S, r)] = KEYFRAME THEN byte
                  ELSE Xor(Prev(F, r)[c], byte)
    BY DEF Describes, RowGives, old, S
  <2>2. /\ r \in Nat /\ r \in 1 .. n + 1 /\ (r # 1 => r - 1 \in 1 .. n)
    <3> HIDE DEF n
    <3> QED BY <1>0
  <2>3. Prev(G, r) = Prev(F, r) /\ G[r] = F[r]
    BY <2>2, <1>5 DEF Prev
  <2>4. masks[r] = old[r] /\ Rank(RowsWith(masks, c), r) = Rank(RowsWith(old, c), r)
    BY <1>13, <1>15
  <2>5. Nth(FrameRecords(new.types), r) = Nth(S, r) /\ Nth(S, r) \in 1 .. T
    BY <1>12, DescribesNumbers DEF S
  <2>6. new.types[Nth(FrameRecords(new.types), r)] = recs.types[Nth(S, r)]
    BY <2>5, <1>6
  <2>7. c \in ColumnsOf(old[r]) => r \in RowsWith(old, c)
    BY <1>13 DEF RowsWith
  <2>8. c \in ColumnsOf(old[r]) => new.data[c][Rank(RowsWith(masks, c), r)] = byte
    <3> HIDE DEF T, n
    <3> SUFFICES ASSUME c \in ColumnsOf(old[r])
                 PROVE  new.data[c][Rank(RowsWith(old, c), r)] = recs.data[c][Rank(RowsWith(old, c), r)]
      BY <2>4
    <3>1. Rank(RowsWith(old, c), r) \in 1 .. Len(recs.data[c])
      BY <2>7, <1>15
    <3> QED BY <3>1, <1>8, <1>9
  <2> HIDE DEF byte, T, n
  <2>9. G[r][c] = IF c \notin ColumnsOf(masks[r]) THEN Prev(G, r)[c]
                  ELSE IF new.types[Nth(FrameRecords(new.types), r)] = KEYFRAME
                  THEN new.data[c][Rank(RowsWith(masks, c), r)]
                  ELSE Xor(Prev(G, r)[c], new.data[c][Rank(RowsWith(masks, c), r)])
    BY <2>1, <2>3, <2>4, <2>6, <2>8
  <2> QED BY <2>9, <1>5 DEF RowGives, masks, n
<1>17. ASSUME NEW c \in Columns PROVE RowGives(new, G, n + 1, c)
  <2>1. Prev(G, n + 1) = LastOf(F)
    <3>1. n + 1 # 1 => (n + 1) - 1 \in 1 .. n
      <4> HIDE DEF n
      <4> QED BY <1>0
    <3> QED BY <3>1, <1>5 DEF Prev, LastOf
  <2>2. c \in cols => new.data[c][Rank(RowsWith(masks, c), n + 1)] = bytes[c]
    BY <1>8, <1>15
  <2>3. new.types[Nth(FrameRecords(new.types), n + 1)] = type
    BY <1>6, <1>12
  <2>4. G[n + 1][c] = IF c \notin ColumnsOf(masks[n + 1]) THEN Prev(G, n + 1)[c]
                  ELSE IF new.types[Nth(FrameRecords(new.types), n + 1)] = KEYFRAME
                  THEN new.data[c][Rank(RowsWith(masks, c), n + 1)]
                  ELSE Xor(Prev(G, n + 1)[c], new.data[c][Rank(RowsWith(masks, c), n + 1)])
    <3> HIDE DEF T, n
    <3> QED BY <2>1, <2>2, <2>3, <1>5, <1>13
  <2> QED BY <2>4, <1>5 DEF RowGives, masks
<1>18. \A t \in DOMAIN new.types : new.types[t] \in Types
  <2> TAKE t \in DOMAIN new.types
  <2>1. t \in 1 .. T \/ t = T + 1
    <3>1. t \in 1 .. T + 1
      BY <1>6
    <3> HIDE DEF T
    <3> QED BY <1>0, <3>1
  <2>2. t \in 1 .. T => recs.types[t] \in Types
    BY <1>6 DEF Describes
  <2> QED BY <2>1, <2>2, <1>3, <1>6
<1>19. Len(new.types) = Len(G) + Len(new.events)
  <2> HIDE DEF T, n
  <2>1. new.events = recs.events
    BY <1>2
  <2>2. Len(new.types) = T + 1 /\ Len(G) = n + 1
    BY <1>5, <1>6
  <2>3. Len(new.events) = Len(recs.events)
    BY <2>1, Zenon
  <2> DEFINE e == Len(recs.events)
  <2>4. T \in Nat /\ n \in Nat /\ e \in Nat /\ T = n + e
    BY <1>0
  <2> HIDE DEF e
  <2>5. T + 1 = (n + 1) + e
    BY <2>4
  <2> QED BY <2>2, <2>3, <2>5, Zenon DEF e
<1>20. \A r \in 1 .. Len(G) : \A c \in Columns : RowGives(new, G, r, c)
  <2>1. \A r \in 1 .. Len(G) : r \in 1 .. n \/ r = n + 1
    <3> HIDE DEF n
    <3> QED BY <1>0, <1>5
  <2> HIDE DEF n
  <2> QED BY <2>1, <1>16, <1>17
<1>21. \A c \in Columns : Len(new.data[c]) = Cardinality(RowsWith(Masks(new, Len(G)), c))
  BY <1>5, <1>15 DEF masks
<1>22. \A b \in 1 .. MaskBlocks : Len(new.flags[b]) = Len(G)
  BY <1>5, <1>7
<1>23. Cardinality(FrameRecords(new.types)) = Len(G)
  BY <1>5, <1>12
<1>24. Describes(new, G)
  <2> HIDE DEF T, n
  <2> QED BY <1>4, <1>5, <1>18, <1>19, <1>20, <1>21, <1>22, <1>23 DEF Describes
<1> QED BY <1>24 DEF new, G

-----------------------------------------------------------------------------
\* A number more counts if it is in the set.
LEMMA RankStep ==
  ASSUME NEW N \in Nat, NEW S \in SUBSET (1 .. N), NEW n \in 1 .. N
  PROVE  /\ Rank(S, 0) = 0
         /\ n \in S => Rank(S, n) = Rank(S, n - 1) + 1
         /\ n \notin S => Rank(S, n) = Rank(S, n - 1)
<1>0. \A x \in S : x \in Nat /\ x >= 1 /\ x <= N
  OBVIOUS
<1>1. Rank(S, 0) = 0
  <2>1. {m \in S : m <= 0} = {}
    <3>1. \A m \in S : ~ (m <= 0)
      BY <1>0
    <3> QED BY <3>1
  <2> QED BY <2>1, FS_EmptySet DEF Rank
<1> DEFINE A == {m \in S : m <= n - 1}
<1>2. IsFiniteSet(A) /\ Cardinality(A) = Rank(S, n - 1) /\ Rank(S, n - 1) \in Nat
  <2>1. \A m : IsFiniteSet({k \in S : k <= m}) /\ Rank(S, m) \in 0 .. Cardinality(S)
    BY RankBounds
  <2>2. Cardinality(S) \in 0 .. N
    BY RankBounds
  <2>3. Rank(S, n - 1) \in Nat
    <3>1. Rank(S, n - 1) \in 0 .. Cardinality(S)
      BY <2>1
    <3> QED BY <2>2, <3>1
  <2>4. IsFiniteSet(A)
    BY <2>1
  <2> QED BY <2>3, <2>4 DEF Rank
<1>3. CASE n \in S
  <2>1. {m \in S : m <= n} = A \cup {n} /\ n \notin A
    <3>1. \A m \in S : m <= n <=> m <= n - 1 \/ m = n
      BY <1>0
    <3>2. ~ (n <= n - 1)
      OBVIOUS
    <3> QED BY <3>1, <3>2, <1>3
  <2> HIDE DEF A
  <2>2. Cardinality(A \cup {n}) = Cardinality(A) + 1
    BY <1>2, <2>1, FS_AddElement
  <2> QED BY <1>1, <1>2, <1>3, <2>1, <2>2 DEF Rank
<1>4. CASE n \notin S
  <2>1. {m \in S : m <= n} = A
    <3>1. \A m \in S : m <= n <=> m <= n - 1
      BY <1>0, <1>4
    <3> QED BY <3>1
  <2>2. Rank(S, n) = Cardinality(A)
    BY <2>1 DEF Rank
  <2> HIDE DEF A
  <2> QED BY <1>1, <1>2, <1>4, <2>2
<1> QED BY <1>3, <1>4

\* The sums of the sizes of columns.
LEMMA SumToIs ==
  ASSUME NEW sizes \in [Columns -> Nat]
  PROVE  /\ SumTo(sizes, 0) = 0
         /\ \A c \in Columns : SumTo(sizes, c) = SumTo(sizes, c - 1) + sizes[c]
         /\ \A c \in 0 .. FrameSize : SumTo(sizes, c) \in Nat
<1> DEFINE N == FrameSize
           go == [x \in Nat \X (1 .. N) |-> x[1] + sizes[x[2]]]
           Rec(f) == [d \in 0 .. N |-> IF d = 0 THEN 0 ELSE f[d - 1] + sizes[d]]
<1>0. N \in Nat /\ N \in 0 .. N /\ Columns = 1 .. N
  BY CodecAssumption DEF Columns
<1>1. go \in Steps(Nat, N)
  <2>1. \A x \in Nat \X (1 .. N) : x[1] \in Nat /\ sizes[x[2]] \in Nat
    BY <1>0
  <2>2. \A x \in Nat \X (1 .. N) : x[1] + sizes[x[2]] \in Nat
    BY <2>1
  <2> HIDE DEF N
  <2> QED BY <2>2 DEF Steps
<1>2. PICK f : Follows(f, N, Nat, 0, go)
  <2> HIDE DEF go, N
  <2> QED BY <1>0, <1>1, Recursion
<1>3. /\ f \in [0 .. N -> Nat] /\ f[0] = 0
      /\ \A d \in 1 .. N : f[d] = f[d - 1] + sizes[d]
  <2>1. f \in [0 .. N -> Nat] /\ f[0] = 0 /\ \A d \in 1 .. N : f[d] = go[<<f[d - 1], d>>]
    <3> HIDE DEF go, N
    <3> QED BY <1>2 DEF Follows
  <2>2. ASSUME NEW d \in 1 .. N PROVE f[d] = f[d - 1] + sizes[d]
    <3>1. d - 1 \in 0 .. N
      BY <1>0
    <3>2. <<f[d - 1], d>> \in Nat \X (1 .. N)
      <4> HIDE DEF N
      <4> QED BY <2>1, <3>1
    <3>3. go[<<f[d - 1], d>>] = <<f[d - 1], d>>[1] + sizes[<<f[d - 1], d>>[2]]
      <4> HIDE DEF N
      <4> QED BY <3>2
    <3> HIDE DEF go
    <3> QED BY <2>1, <3>3
  <2> QED BY <2>1, <2>2
<1>4. f = Rec(f)
  <2>1. \A d \in 0 .. N : d # 0 => d \in 1 .. N
    BY <1>0
  <2> HIDE DEF N, go
  <2>2. \A d \in 0 .. N : f[d] = IF d = 0 THEN 0 ELSE f[d - 1] + sizes[d]
    BY <2>1, <1>3
  <2> QED BY <2>2, <1>3
<1>5. \A c : SumTo(sizes, c) = (CHOOSE g : g = Rec(g))[c]
  BY Zenon DEF SumTo
<1>6. ASSUME NEW g, g = Rec(g) PROVE g = f
  <2> DEFINE S == {d \in 0 .. N : g[d] = f[d]}
  <2> HIDE DEF go
  <2>0. /\ \A d \in 0 .. N : g[d] = IF d = 0 THEN 0 ELSE g[d - 1] + sizes[d]
    <3> HIDE DEF N
    <3> QED BY <1>6
  <2>1. 0 \in S
    BY <1>0, <1>3, <2>0
  <2>2. ASSUME NEW d \in 1 .. N, d - 1 \in S PROVE d \in S
    <3>1. d \in 0 .. N /\ d # 0
      BY <1>0
    <3> HIDE DEF N
    <3> QED BY <3>1, <2>0, <2>2, <1>3
  <2>3. 0 .. N \subseteq S
    <3> HIDE DEF S, N
    <3> QED BY <2>1, <2>2, <1>0, UpToInSet
  <2>4. g = [d \in 0 .. N |-> g[d]] /\ f = [d \in 0 .. N |-> f[d]]
    <3> HIDE DEF N, S
    <3>1. g = [d \in 0 .. N |-> IF d = 0 THEN 0 ELSE g[d - 1] + sizes[d]]
      BY <1>6
    <3> QED BY <2>0, <3>1, <1>3
  <2>5. \A d \in 0 .. N : g[d] = f[d]
    BY <2>3
  <2> HIDE DEF N, S, Rec
  <2> QED BY <2>4, <2>5
<1>7. \A c : SumTo(sizes, c) = f[c]
  <2> DEFINE h == CHOOSE g : g = Rec(g)
  <2>1. h = Rec(h)
    <3> HIDE DEF Rec
    <3> QED BY <1>4
  <2> HIDE DEF h
  <2>2. h = f
    <3> HIDE DEF Rec, N, go
    <3> QED BY <2>1, <1>6
  <2> QED BY <2>2, <1>5 DEF h
<1> HIDE DEF go, Rec, N
<1>8. \A c \in Columns : SumTo(sizes, c) = SumTo(sizes, c - 1) + sizes[c]
  BY <1>0, <1>3, <1>7
<1>9. \A c \in 0 .. N : SumTo(sizes, c) \in Nat
  BY <1>3, <1>7
<1> QED BY <1>3, <1>7, <1>8, <1>9 DEF N

\* Some columns, cols, have one byte more.
Grows(more, sizes, cols) ==
  /\ sizes \in [Columns -> Nat] /\ more \in [Columns -> Nat] /\ cols \in SUBSET Columns
  /\ \A c \in Columns : more[c] = sizes[c] + (IF c \in cols THEN 1 ELSE 0)

\* Then there are as many bytes more.
LEMMA SumToGrows ==
  ASSUME NEW sizes, NEW more, NEW cols, Grows(more, sizes, cols)
  PROVE  SumTo(more, FrameSize) = SumTo(sizes, FrameSize) + Cardinality(cols)
<1>a. /\ sizes \in [Columns -> Nat] /\ more \in [Columns -> Nat] /\ cols \in SUBSET Columns
      /\ \A c \in Columns : more[c] = sizes[c] + (IF c \in cols THEN 1 ELSE 0)
  BY DEF Grows
<1> USE <1>a
<1> DEFINE N == FrameSize
           S == {c \in 0 .. N : SumTo(more, c) = SumTo(sizes, c) + Rank(cols, c)}
<1>0. N \in Nat /\ N \in 0 .. N /\ Columns = 1 .. N /\ N \in Int /\ 1 \in 1 .. N
  BY CodecAssumption DEF Columns
<1>1. cols \in SUBSET (1 .. N)
  BY <1>0
<1>2. Rank(cols, 0) = 0 /\ Rank(cols, N) = Cardinality(cols)
  <2> HIDE DEF N
  <2>1. Rank(cols, 0) = 0
    BY <1>0, <1>1, RankStep
  <2>2. Rank(cols, N) = Cardinality(cols)
    BY <1>0, <1>1, RankBounds, SMTT(30)
  <2> QED BY <2>1, <2>2
<1>3. 0 \in S
  <2>1. SumTo(more, 0) = 0 /\ SumTo(sizes, 0) = 0
    BY SumToIs
  <2> QED BY <1>0, <1>2, <2>1
<1>4. ASSUME NEW c \in 1 .. N, c - 1 \in S PROVE c \in S
  <2>1. c \in 0 .. N /\ c \in Columns /\ c - 1 \in 0 .. N
    BY <1>0
  <2>2. /\ c \in cols => Rank(cols, c) = Rank(cols, c - 1) + 1
        /\ c \notin cols => Rank(cols, c) = Rank(cols, c - 1)
    <3> HIDE DEF N, S
    <3>1. N \in Nat
      BY <1>0
    <3> QED BY <3>1, <1>1, RankStep
  <2>3. /\ SumTo(more, c) = SumTo(more, c - 1) + more[c]
        /\ SumTo(sizes, c) = SumTo(sizes, c - 1) + sizes[c]
        /\ SumTo(sizes, c - 1) \in Nat /\ SumTo(more, c - 1) \in Nat
    BY <2>1, SumToIs
  <2>4. more[c] = sizes[c] + (IF c \in cols THEN 1 ELSE 0)
        /\ SumTo(more, c - 1) = SumTo(sizes, c - 1) + Rank(cols, c - 1)
        /\ sizes[c] \in Nat
    BY <1>4, <2>1
  <2>5. Rank(cols, c - 1) \in Nat
    <3> HIDE DEF N
    <3>1. Rank(cols, c - 1) \in 0 .. Cardinality(cols) /\ Cardinality(cols) \in 0 .. N
      BY <1>0, <1>1, RankBounds
    <3> QED BY <3>1, <1>0
  <2>6. SumTo(more, c) = SumTo(sizes, c) + Rank(cols, c)
    <3> HIDE DEF N, S
    <3> QED BY <2>2, <2>3, <2>4, <2>5
  <2> QED BY <2>1, <2>6
<1>5. 0 .. N \subseteq S
  <2> HIDE DEF N, S
  <2> QED BY <1>0, <1>3, <1>4, UpToInSet
<1>6. SumTo(more, N) = SumTo(sizes, N) + Rank(cols, N)
  BY <1>0, <1>5
<1> QED BY <1>2, <1>6

-----------------------------------------------------------------------------
(***************************************************************************)
(* A file that holds the frames F: it can be taken apart, to the last      *)
(* cell, into records that stand for F; it begins with the first of them.  *)
(***************************************************************************)
Sizes(recs) == [c \in Columns |-> Len(recs.data[c])]

Cells(recs, n) ==
  Len(recs.types) + MaskBlocks * n + SumTo(Sizes(recs), FrameSize) + Len(recs.events)

Holds(cells, F) ==
  LET recs == Split(cells).records IN
  /\ Split(cells).err = "ok"
  /\ Describes(recs, F)
  /\ cells = <<>> <=> recs.types = <<>>
  /\ cells # <<>> => recs.types[1] = cells[1]
  /\ Len(cells) = Cells(recs, Len(F))

EventsOf(cells) == Split(cells).records.events

\* The sizes of columns are numbers.
LEMMA SizesTyped ==
  ASSUME NEW recs \in Records
  PROVE  Sizes(recs) \in [Columns -> Nat]
<1>1. \A c \in Columns : recs.data[c] \in Seq(Cell)
  BY DEF Records
<1>2. \A c \in Columns : Len(recs.data[c]) \in Nat
  BY <1>1, LenProperties
<1> QED BY <1>2 DEF Sizes

\* A new file holds no frames and no events.
LEMMA HoldsNothing ==
  Holds(<<>>, <<>>) /\ EventsOf(<<>>) = <<>>
<1>1. <<>> \in Seq(Cell) /\ Len(<<>>) = 0
  OBVIOUS
<1>2. Split(<<>>) = Beginning
  BY <1>1, WalkExists DEF IsWalk
<1>3. Split(<<>>).err = "ok" /\ Split(<<>>).records = NoRecords
  BY <1>2 DEF Beginning
<1>4. Describes(NoRecords, <<>>)
  BY DescribesNothing
<1>5. /\ NoRecords.types = <<>> /\ NoRecords.events = <<>>
      /\ \A c \in Columns : NoRecords.data[c] = <<>>
  BY DEF NoRecords
<1>6. SumTo(Sizes(NoRecords), FrameSize) = 0
  <2> DEFINE S == {c \in 0 .. FrameSize : SumTo(Sizes(NoRecords), c) = 0}
  <2>0. FrameSize \in Nat
    BY CodecAssumption
  <2>1. Sizes(NoRecords) \in [Columns -> Nat]
    BY <1>4, SizesTyped DEF Describes
  <2>2. /\ SumTo(Sizes(NoRecords), 0) = 0
        /\ \A c \in Columns :
             SumTo(Sizes(NoRecords), c) = SumTo(Sizes(NoRecords), c - 1) + Sizes(NoRecords)[c]
    BY <2>1, SumToIs
  <2>3. \A c \in Columns : Sizes(NoRecords)[c] = 0
    BY <1>1, <1>5 DEF Sizes
  <2>4. 0 \in S
    BY <2>0, <2>2
  <2>5. ASSUME NEW c \in 1 .. FrameSize, c - 1 \in S PROVE c \in S
    <3>1. c \in Columns /\ c \in 0 .. FrameSize
      BY <2>0 DEF Columns
    <3> QED BY <3>1, <2>2, <2>3, <2>5
  <2>6. 0 .. FrameSize \subseteq S
    <3> HIDE DEF S
    <3> QED BY <2>0, <2>4, <2>5, UpToInSet
  <2>7. FrameSize \in 0 .. FrameSize
    BY <2>0
  <2> QED BY <2>6, <2>7
<1>7. Len(<<>>) = Cells(NoRecords, Len(<<>>))
  BY <1>1, <1>5, <1>6, CodecAssumption DEF Cells
<1> QED BY <1>3, <1>4, <1>5, <1>7 DEF Holds, EventsOf


\* A file and what is written behind it.
IsBehind(all, cells, more) ==
  /\ all \in Seq(Cell) /\ Len(all) = Len(cells) + Len(more)
  /\ Len(cells) \in Nat /\ Len(more) \in Nat
  /\ \A k \in 1 .. Len(cells) : all[k] = cells[k]
  /\ \A k \in 1 .. Len(more) : all[Len(cells) + k] = more[k]

\* The cells are where one expects them.
LEMMA Behind ==
  ASSUME NEW cells \in Seq(Cell), NEW more \in Seq(Cell), NEW all, all = cells \o more
  PROVE  IsBehind(all, cells, more)
<1> DEFINE N == Len(cells)
           M == Len(more)
<1>1. N \in Nat /\ M \in Nat
  BY LenProperties
<1>2. /\ all \in Seq(Cell) /\ Len(all) = N + M
      /\ \A k \in 1 .. N + M : all[k] = IF k <= N THEN cells[k] ELSE more[k - N]
  BY ConcatProperties
<1> HIDE DEF N, M
<1>3. \A k \in 1 .. N : k \in 1 .. N + M /\ k <= N
  BY <1>1
<1>4. \A k \in 1 .. M : N + k \in 1 .. N + M /\ ~ (N + k <= N) /\ (N + k) - N = k
  BY <1>1
<1>5. \A k \in 1 .. M : all[N + k] = more[k]
  BY <1>2, <1>4
<1>6. \A k \in 1 .. N : all[k] = cells[k]
  BY <1>2, <1>3
<1> QED BY <1>1, <1>2, <1>5, <1>6 DEF N, M, IsBehind

\* The cells more are a record, with which the frames become G.
Appends(cells, F, more, all, recs, G) ==
  /\ Holds(cells, F)
  /\ more \in Seq(Cell) /\ Len(more) > 0 /\ more[1] \in Cell
  /\ all = cells \o more
  /\ Describes(recs, G)
  /\ Take(all, Split(cells)) = [err |-> "ok", at |-> Len(all), records |-> recs]
  /\ recs.types = Append(Split(cells).records.types, more[1])
  /\ Cells(recs, Len(G)) = Cells(Split(cells).records, Len(F)) + Len(more)

\* The first cell of a file: of the record, if there was none before.
BeginsWith(all, cells, first) ==
  /\ Len(cells) = 0 => all[1] = first
  /\ Len(cells) # 0 => all[1] = cells[1]

\* Then they can be written behind the file.
LEMMA HoldsMore ==
  ASSUME NEW cells \in Seq(Cell), NEW F, NEW more, NEW all, NEW recs, NEW G,
         Appends(cells, F, more, all, recs, G)
  PROVE  /\ Holds(all, G) /\ EventsOf(all) = recs.events
         /\ BeginsWith(all, cells, more[1])
<1>0. /\ Holds(cells, F)
      /\ more \in Seq(Cell) /\ Len(more) > 0 /\ more[1] \in Cell
      /\ all = cells \o more
      /\ Describes(recs, G)
      /\ Take(all, Split(cells)) = [err |-> "ok", at |-> Len(all), records |-> recs]
      /\ recs.types = Append(Split(cells).records.types, more[1])
      /\ Cells(recs, Len(G)) = Cells(Split(cells).records, Len(F)) + Len(more)
  BY DEF Appends
<1> DEFINE new == [err |-> "ok", at |-> Len(all), records |-> recs]
           ts == Split(cells).records.types
<1>1. /\ all \in Seq(Cell) /\ Len(all) = Len(cells) + Len(more)
      /\ Len(cells) \in Nat /\ Len(more) \in Nat
      /\ \A k \in 1 .. Len(cells) : all[k] = cells[k]
      /\ \A k \in 1 .. Len(more) : all[Len(cells) + k] = more[k]
  BY <1>0, Behind DEF IsBehind
<1>2. Split(cells).err = "ok" /\ Describes(Split(cells).records, F)
      /\ (cells = <<>> <=> ts = <<>>) /\ (cells # <<>> => ts[1] = cells[1])
      /\ Len(cells) = Cells(Split(cells).records, Len(F))
  BY <1>0 DEF Holds
<1>3. new.err = "ok" /\ new.at = Len(all) /\ new.records = recs
  OBVIOUS
<1>4. Split(all) = new
  <2> HIDE DEF new
  <2>1. new.err = "ok" /\ new.at = Len(cells \o more) /\ Take(cells \o more, Split(cells)) = new
    BY <1>0, <1>3 DEF new
  <2>2. Split(cells \o more) = Take(cells \o more, Split(cells))
    BY <1>0, <1>2, <2>1, SplitAppend
  <2> QED BY <2>1, <2>2, <1>0
<1>5. (cells = <<>> => all[1] = more[1]) /\ (cells # <<>> => all[1] = cells[1])
  <2>1. CASE cells = <<>>
    <3>1. Len(cells) = 0 /\ 1 \in 1 .. Len(more) /\ Len(cells) + 1 = 1
      BY <2>1, <1>0, <1>1
    <3> QED BY <2>1, <3>1, <1>1
  <2>2. CASE cells # <<>>
    <3>1. Len(cells) # 0
      BY <2>2, EmptySeq
    <3>2. 1 \in 1 .. Len(cells)
      BY <3>1, <1>1
    <3> QED BY <2>2, <3>2, <1>1
  <2> QED BY <2>1, <2>2
<1>6. ts \in Seq(Cell)
  BY <1>2 DEF Describes, Records
<1> HIDE DEF ts, new
<1>7. recs.types # <<>> /\ recs.types[1] = IF ts = <<>> THEN more[1] ELSE ts[1]
  <2>1. recs.types = Append(ts, more[1])
    BY <1>0 DEF ts
  <2>2. /\ Append(ts, more[1])[1] = IF ts = <<>> THEN more[1] ELSE ts[1]
        /\ Append(ts, more[1]) # <<>>
    <3>1. Len(ts) \in Nat /\ (Len(ts) = 0 <=> ts = <<>>)
      BY <1>6, LenProperties, EmptySeq
    <3>2. /\ Len(Append(ts, more[1])) = Len(ts) + 1
          /\ \A k \in 1 .. Len(ts) : Append(ts, more[1])[k] = ts[k]
          /\ Append(ts, more[1])[Len(ts) + 1] = more[1]
          /\ Append(ts, more[1]) # <<>>
      BY <1>0, <1>6, AppendProperties, SMTT(30)
    <3>3. CASE ts = <<>>
      <4>1. Len(ts) + 1 = 1
        BY <3>1, <3>3
      <4> QED BY <3>2, <3>3, <4>1
    <3>4. CASE ts # <<>>
      <4>1. 1 \in 1 .. Len(ts)
        BY <3>1, <3>4
      <4> QED BY <3>2, <3>4, <4>1
    <3> QED BY <3>3, <3>4
  <2> QED BY <2>1, <2>2
<1>8. all # <<>>
  <2>1. Len(all) # 0
    BY <1>0, <1>1
  <2> QED BY <2>1
<1>9. recs.types[1] = all[1]
  BY <1>2, <1>5, <1>7
<1>10. Split(all).err = "ok" /\ Split(all).records = recs
  BY <1>3, <1>4
<1>11. Len(all) = Cells(recs, Len(G))
  BY <1>0, <1>1, <1>2
<1>12. Holds(all, G)
  BY <1>7, <1>8, <1>9, <1>10, <1>11, <1>0 DEF Holds
<1>13. Len(cells) = 0 <=> cells = <<>>
  BY EmptySeq
<1> QED BY <1>5, <1>10, <1>12, <1>13 DEF EventsOf, BeginsWith

\* An event behind a file: the same frames, an event more.
LEMMA HoldsEvent ==
  ASSUME NEW cells \in Seq(Cell), NEW F, Holds(cells, F), NEW ev \in Cell,
         NEW all, all = cells \o EventCells(ev)
  PROVE  /\ all \in Seq(Cell) /\ Holds(all, F)
         /\ EventsOf(all) = Append(EventsOf(cells), ev)
         /\ BeginsWith(all, cells, EVENT)
<1>0. PICK more : more = EventCells(ev)
  OBVIOUS
<1> DEFINE N == Len(cells)
           w == Split(cells)
           recs == AddEvent(w.records, ev)
<1>1. more \in Seq(Cell) /\ Len(more) = 2 /\ more[1] = EVENT /\ more[2] = ev
      /\ more[1] \in Cell
  BY <1>0, TypesDiffer DEF EventCells
<1>2. /\ all \in Seq(Cell) /\ Len(all) = N + 2 /\ N \in Nat
      /\ all[N + 1] = EVENT /\ all[(N + 1) + 1] = ev
  <2>0. more \in Seq(Cell) /\ all = cells \o more
    BY <1>0, <1>1
  <2>1. /\ all \in Seq(Cell) /\ Len(all) = N + Len(more) /\ N \in Nat
        /\ \A k \in 1 .. Len(more) : all[N + k] = more[k]
    BY <2>0, Behind DEF IsBehind
  <2>2. 1 \in 1 .. Len(more) /\ 2 \in 1 .. Len(more)
    BY <1>1
  <2>3. N + 2 = (N + 1) + 1
    BY <2>1
  <2> HIDE DEF N
  <2> QED BY <2>1, <2>2, <2>3, <1>1
<1>3. /\ w.err = "ok" /\ w \in Walking /\ w.at = N /\ w.records \in Records
      /\ Describes(w.records, F)
  <2>1. w.err = "ok" /\ Describes(w.records, F)
    BY DEF Holds
  <2>2. w \in Walking /\ w.at = N
    <3>1. Len(more) > 0
      BY <1>1
    <3> QED BY <2>1, <3>1, <1>1, SplitAppend
  <2> QED BY <2>1, <2>2 DEF Walking
<1>4. Take(all, w) = [err |-> "ok", at |-> Len(all), records |-> recs]
  <2> HIDE DEF w
  <2>1. Len(all) \in Nat /\ (N + 1) + 1 <= Len(all) /\ (N + 1) + 1 = Len(all)
    <3> HIDE DEF N
    <3> QED BY <1>2
  <2>2. all[w.at + 1] = EVENT /\ (w.at + 1) + 1 <= Len(all) /\ all[(w.at + 1) + 1] = ev
    BY <1>2, <1>3, <2>1
  <2>3. Take(all, w) = [err |-> w.err, at |-> (w.at + 1) + 1,
                        records |-> AddEvent(w.records, all[(w.at + 1) + 1])]
    BY <1>3, <2>1, <2>2, TakeCases
  <2> HIDE DEF N
  <2> QED BY <2>1, <2>2, <2>3, <1>3
<1>5. Describes(recs, F)
  BY <1>3, DescribesEvent
<1>6. /\ recs.types = Append(w.records.types, EVENT) /\ recs.data = w.records.data
      /\ recs.events = Append(w.records.events, ev)
      /\ w.records.types \in Seq(Cell) /\ w.records.events \in Seq(Cell)
  BY <1>3 DEF AddEvent, Records
<1>7. Cells(recs, Len(F)) = Cells(w.records, Len(F)) + Len(more)
  <2> DEFINE t == Len(w.records.types)
             e == Len(w.records.events)
             s == SumTo(Sizes(w.records), FrameSize)
             f == MaskBlocks * Len(F)
  <2>1. t \in Nat /\ e \in Nat
    BY <1>6, LenProperties
  <2>2. Len(Append(w.records.types, EVENT)) = t + 1
    BY <1>6, TypesDiffer, AppendProperties
  <2>3. Len(Append(w.records.events, ev)) = e + 1
    BY <1>6, AppendProperties
  <2>4. Sizes(recs) = Sizes(w.records)
    BY <1>6 DEF Sizes
  <2>5. s \in Nat
    <3>1. Sizes(w.records) \in [Columns -> Nat] /\ FrameSize \in 0 .. FrameSize
      BY <1>3, SizesTyped, CodecAssumption
    <3> HIDE DEF w
    <3> QED BY <3>1, SumToIs
  <2>6. f \in Nat
    <3>1. Len(F) \in Nat
      BY <1>3, DescribesNumbers
    <3> QED BY <3>1, CodecAssumption
  <2>7. Len(recs.types) = t + 1 /\ Len(recs.events) = e + 1
    BY <1>6, <2>2, <2>3
  <2> HIDE DEF t, e, s, f
  <2>8. (t + 1) + f + s + (e + 1) = t + f + s + e + 2
    BY <2>1, <2>5, <2>6
  <2>9. Cells(recs, Len(F)) = (t + 1) + f + s + (e + 1)
    BY <2>4, <2>7 DEF Cells, s, f
  <2>10. Cells(w.records, Len(F)) = t + f + s + e
    BY DEF Cells, t, e, s, f
  <2> QED BY <2>8, <2>9, <2>10, <1>1
<1>8. /\ Holds(all, F) /\ EventsOf(all) = recs.events
      /\ BeginsWith(all, cells, more[1])
  <2>1. Len(more) > 0 /\ recs.types = Append(w.records.types, more[1])
    BY <1>1, <1>6
  <2> HIDE DEF recs
  <2>2. all = cells \o more
    BY <1>0
  <2>3. more \in Seq(Cell) /\ more[1] \in Cell
    BY <1>1
  <2>4. Appends(cells, F, more, all, recs, F)
    BY <2>1, <2>2, <2>3, <1>4, <1>5, <1>7 DEF Appends
  <2> QED BY <2>4, HoldsMore
<1> QED BY <1>1, <1>2, <1>6, <1>8 DEF EventsOf

\* The cells of a frame record.
FrameCells(type, mask, row) == <<type>> \o mask \o row

AreCellsOf(more, type, mask, n, row) ==
  /\ more \in Seq(Cell) /\ Len(more) = 1 + MaskBlocks + n /\ more[1] = type
  /\ \A b \in 1 .. MaskBlocks : more[1 + b] = mask[b]
  /\ \A k \in 1 .. n : more[(1 + MaskBlocks) + k] = row[k]

\* They are its type, the blocks of its mask, and its bytes.
LEMMA FrameCellsAre ==
  ASSUME NEW type \in Cell, NEW mask \in [1 .. MaskBlocks -> Cell], NEW n \in Nat,
         NEW row \in [1 .. n -> Cell], NEW more, more = FrameCells(type, mask, row)
  PROVE  AreCellsOf(more, type, mask, n, row)
<1> DEFINE B == MaskBlocks
           front == <<type>> \o mask
<1>0. B \in Nat /\ B >= 1
  BY CodecAssumption
<1>1. <<type>> \in Seq(Cell) /\ Len(<<type>>) = 1 /\ <<type>>[1] = type
  OBVIOUS
<1>2. mask \in Seq(Cell) /\ Len(mask) = B
  <2> HIDE DEF B
  <2> QED BY <1>0, IsASeq, LenProperties DEF B
<1>3. row \in Seq(Cell) /\ Len(row) = n
  BY IsASeq, LenProperties
<1>4. /\ front \in Seq(Cell) /\ Len(front) = 1 + B
      /\ front[1] = type
      /\ \A b \in 1 .. B : front[1 + b] = mask[b]
  <2> DEFINE t == <<type>>
  <2>0. t \in Seq(Cell) /\ Len(t) = 1 /\ t[1] = type /\ front = t \o mask
    BY <1>1
  <2> HIDE DEF t, front
  <2>1. /\ front \in Seq(Cell) /\ Len(front) = Len(t) + Len(mask)
        /\ \A k \in 1 .. Len(t) : front[k] = t[k]
        /\ \A k \in 1 .. Len(mask) : front[Len(t) + k] = mask[k]
    <3>1. IsBehind(front, t, mask)
      BY <2>0, <1>2, Behind
    <3> QED BY <3>1 DEF IsBehind
  <2> QED BY <2>0, <2>1, <1>2
<1> HIDE DEF front
<1>5. /\ more \in Seq(Cell) /\ Len(more) = Len(front) + Len(row)
      /\ \A k \in 1 .. Len(front) : more[k] = front[k]
      /\ \A k \in 1 .. Len(row) : more[Len(front) + k] = row[k]
  <2>1. more = front \o row
    BY DEF FrameCells, front
  <2>2. IsBehind(more, front, row)
    BY <2>1, <1>3, <1>4, Behind
  <2> QED BY <2>2 DEF IsBehind
<1>6. 1 \in 1 .. Len(front) /\ \A b \in 1 .. B : 1 + b \in 1 .. Len(front)
  <2> HIDE DEF B
  <2> QED BY <1>0, <1>4
<1>7. more[1] = type /\ \A b \in 1 .. B : more[1 + b] = mask[b]
  BY <1>4, <1>5, <1>6
<1> QED BY <1>3, <1>4, <1>5, <1>7 DEF AreCellsOf

\* The frame record of f, given what the mask and the row say.
IsRowOf(row, mask, type, F, f) ==
  /\ row \in [1 .. Cardinality(ColumnsOf(mask)) -> Cell]
  /\ \A c \in Columns :
       f[c] = IF c \notin ColumnsOf(mask) THEN LastOf(F)[c]
              ELSE IF type = KEYFRAME THEN row[Rank(ColumnsOf(mask), c)]
              ELSE Xor(LastOf(F)[c], row[Rank(ColumnsOf(mask), c)])

\* A file, a frame more in it, and no event more.
HasFrameMore(all, cells, F, f, type) ==
  /\ all \in Seq(Cell) /\ Holds(all, Append(F, f))
  /\ EventsOf(all) = EventsOf(cells)
  /\ BeginsWith(all, cells, type)

\* A frame record behind a file: a frame more, the same events.
LEMMA HoldsFrame ==
  ASSUME NEW cells \in Seq(Cell), NEW F, Holds(cells, F), NEW f \in [Columns -> Cell],
         NEW type \in {DELTA, KEYFRAME}, NEW mask \in [1 .. MaskBlocks -> Cell],
         NEW row, IsRowOf(row, mask, type, F, f),
         NEW all, all = cells \o FrameCells(type, mask, row)
  PROVE  HasFrameMore(all, cells, F, f, type)
<1> DEFINE N == Len(cells)
           B == MaskBlocks
           w == Split(cells)
           cols == ColumnsOf(mask)
           n == Cardinality(cols)
           bytes == [c \in cols |-> row[Rank(cols, c)]]
           recs == AddFrame(w.records, type, mask, bytes)
           G == Append(F, f)
<1>a. /\ row \in [1 .. Cardinality(ColumnsOf(mask)) -> Cell]
      /\ \A c \in Columns :
           f[c] = IF c \notin ColumnsOf(mask) THEN LastOf(F)[c]
                  ELSE IF type = KEYFRAME THEN row[Rank(ColumnsOf(mask), c)]
                  ELSE Xor(LastOf(F)[c], row[Rank(ColumnsOf(mask), c)])
  BY DEF IsRowOf
<1>0. PICK more : more = FrameCells(type, mask, row)
  OBVIOUS
<1>1. /\ B \in Nat /\ B >= 1 /\ N \in Nat /\ n \in Nat
      /\ cols \in SUBSET Columns /\ \A c \in cols : Rank(cols, c) \in 1 .. n
  <2>1. cols \in SUBSET Columns /\ cols \in SUBSET (1 .. FrameSize) /\ FrameSize \in Nat
    BY CodecAssumption DEF ColumnsOf, Columns
  <2> HIDE DEF cols
  <2>2. n \in 0 .. FrameSize
    BY <2>1, RankBounds
  <2>3. \A c \in cols : Rank(cols, c) \in 1 .. n
    BY <2>1, NthOfRank
  <2> QED BY <2>1, <2>2, <2>3, LenProperties, CodecAssumption
<1>2. type \in Cell /\ type \in Types /\ type # EVENT
  BY TypesDiffer
<1>3. /\ more \in Seq(Cell) /\ Len(more) = 1 + B + n /\ more[1] = type
      /\ \A b \in 1 .. B : more[1 + b] = mask[b]
      /\ \A k \in 1 .. n : more[(1 + B) + k] = row[k]
  <2> HIDE DEF n
  <2>1. row \in [1 .. n -> Cell]
    BY <1>a DEF n
  <2> HIDE DEF cols, w, bytes, recs, G
  <2>2. n \in Nat
    BY <1>1
  <2>3. AreCellsOf(more, type, mask, n, row)
    BY <1>0, <1>2, <2>1, <2>2, FrameCellsAre
  <2> QED BY <2>3 DEF AreCellsOf
<1>4. /\ all \in Seq(Cell) /\ Len(all) = N + (1 + B + n)
      /\ all[N + 1] = type
      /\ \A b \in 1 .. B : all[(N + 1) + b] = mask[b]
      /\ \A k \in 1 .. n : all[(N + 1) + B + k] = row[k]
  <2>1. /\ all \in Seq(Cell) /\ Len(all) = N + Len(more)
        /\ \A k \in 1 .. Len(more) : all[N + k] = more[k]
    BY <1>0, <1>3, Behind DEF IsBehind
  <2> HIDE DEF N, B, n
  <2>2. 1 \in 1 .. Len(more)
    BY <1>1, <1>3
  <2>3. ASSUME NEW b \in 1 .. B PROVE all[(N + 1) + b] = mask[b]
    <3>1. 1 + b \in 1 .. Len(more) /\ (N + 1) + b = N + (1 + b)
      BY <1>1, <1>3
    <3> QED BY <2>1, <3>1, <1>3
  <2>4. ASSUME NEW k \in 1 .. n PROVE all[(N + 1) + B + k] = row[k]
    <3>1. (1 + B) + k \in 1 .. Len(more) /\ (N + 1) + B + k = N + ((1 + B) + k)
      BY <1>1, <1>3
    <3> QED BY <2>1, <3>1, <1>3
  <2> QED BY <2>1, <2>2, <2>3, <2>4, <1>3
<1>5. /\ w.err = "ok" /\ w \in Walking /\ w.at = N /\ w.records \in Records
      /\ Describes(w.records, F)
  <2>1. w.err = "ok" /\ Describes(w.records, F)
    BY DEF Holds
  <2>2. w \in Walking /\ w.at = N
    <3>1. Len(more) > 0
      <4> HIDE DEF B, n
      <4> QED BY <1>1, <1>3
    <3> QED BY <2>1, <3>1, <1>3, SplitAppend
  <2> QED BY <2>1, <2>2 DEF Walking
<1>6. /\ MaskAt(all, N + 1) = mask /\ ColsAt(all, N + 1) = cols
      /\ EndsAt(all, N + 1) = (N + 1) + B + n /\ BytesAt(all, N + 1) = bytes
  <2>1. MaskAt(all, N + 1) = mask
    <3>1. MaskAt(all, N + 1) = [b \in 1 .. B |-> mask[b]]
      BY <1>4 DEF MaskAt
    <3> QED BY <3>1
  <2>2. ColsAt(all, N + 1) = cols
    BY <2>1 DEF ColsAt
  <2>3. EndsAt(all, N + 1) = (N + 1) + B + n
    BY <2>2 DEF EndsAt
  <2>4. BytesAt(all, N + 1) = bytes
    <3> HIDE DEF n, N, cols
    <3>1. BytesAt(all, N + 1) = [c \in cols |-> all[(N + 1) + B + Rank(cols, c)]]
      BY <2>2 DEF BytesAt
    <3>2. \A c \in cols : all[(N + 1) + B + Rank(cols, c)] = row[Rank(cols, c)]
      BY <1>1, <1>4
    <3> QED BY <3>1, <3>2
  <2> QED BY <2>1, <2>2, <2>3, <2>4
<1>7. Take(all, w) = [err |-> "ok", at |-> Len(all), records |-> recs]
  <2> HIDE DEF w
  <2>1. Len(all) \in Nat /\ (N + 1) + B + n = Len(all)
    <3>1. Len(all) = N + (1 + B + n) /\ N \in Nat /\ B \in Nat /\ n \in Nat
      BY <1>1, <1>4, Zenon
    <3> HIDE DEF N, B, n
    <3> QED BY <3>1
  <2>2. Len(all) <= Len(all)
    BY <2>1
  <2>3. Take(all, w) = [err |-> w.err, at |-> EndsAt(all, w.at + 1),
                        records |-> AddFrame(w.records, all[w.at + 1], MaskAt(all, w.at + 1),
                                             BytesAt(all, w.at + 1))]
    <3>1. all[w.at + 1] \in {DELTA, KEYFRAME} /\ EndsAt(all, w.at + 1) <= Len(all)
      BY <1>4, <1>5, <1>6, <2>1, <2>2
    <3> HIDE DEF N, B, n
    <3> QED BY <1>5, <2>1, <3>1, TakeCases
  <2>4. Take(all, w) = [err |-> "ok", at |-> EndsAt(all, N + 1),
                        records |-> AddFrame(w.records, all[N + 1], MaskAt(all, N + 1),
                                             BytesAt(all, N + 1))]
    BY <2>3, <1>5
  <2> HIDE DEF N, B, n
  <2> QED BY <2>1, <2>4, <1>4, <1>6
<1>8. bytes \in [cols -> Cell]
  <2> HIDE DEF n, cols
  <2>1. \A c \in cols : row[Rank(cols, c)] \in Cell
    BY <1>1, <1>a DEF n, cols
  <2> QED BY <2>1
<1>9. Describes(recs, G)
  <2>1. \A c \in Columns :
           f[c] = IF c \notin ColumnsOf(mask) THEN LastOf(F)[c]
                  ELSE IF type = KEYFRAME THEN bytes[c]
                  ELSE Xor(LastOf(F)[c], bytes[c])
    <3>1. \A c \in cols : bytes[c] = row[Rank(cols, c)]
      OBVIOUS
    <3> HIDE DEF bytes
    <3> QED BY <3>1, <1>a
  <2> HIDE DEF bytes, w
  <2> QED BY <1>5, <1>8, <2>1, DescribesFrame
<1>10. /\ recs.types = Append(w.records.types, type) /\ recs.events = w.records.events
       /\ recs.data = [c \in Columns |-> IF c \in cols THEN Append(w.records.data[c], bytes[c])
                                         ELSE w.records.data[c]]
       /\ w.records.types \in Seq(Cell) /\ w.records.events \in Seq(Cell)
       /\ w.records.data \in [Columns -> Seq(Cell)]
  <2>1. DOMAIN bytes = cols
    OBVIOUS
  <2> HIDE DEF bytes
  <2> QED BY <1>5, <2>1 DEF AddFrame, Records
<1> HIDE DEF recs
<1>11. Cells(recs, Len(G)) = Cells(w.records, Len(F)) + Len(more)
  <2> DEFINE t == Len(w.records.types)
             e == Len(w.records.events)
             s == SumTo(Sizes(w.records), FrameSize)
             m == Len(F)
  <2>1. t \in Nat /\ e \in Nat
    BY <1>10, LenProperties
  <2>2. Len(recs.types) = t + 1
    <3>1. Len(Append(w.records.types, type)) = t + 1
      BY <1>2, <1>10, AppendProperties
    <3> QED BY <3>1, <1>10
  <2>3. m \in Nat /\ Len(G) = m + 1
    <3>1. F \in Seq([Columns -> Cell])
      BY <1>5 DEF Describes
    <3> QED BY <3>1, AppendProperties, LenProperties
  <2>4. Sizes(recs) \in [Columns -> Nat] /\ Sizes(w.records) \in [Columns -> Nat]
    BY <1>5, <1>9, SizesTyped DEF Describes
  <2>5. \A c \in Columns : Sizes(recs)[c] = Sizes(w.records)[c] + (IF c \in cols THEN 1 ELSE 0)
    <3> TAKE c \in Columns
    <3>1. w.records.data[c] \in Seq(Cell) /\ Len(w.records.data[c]) \in Nat
      BY <1>10, LenProperties
    <3>2. Sizes(recs)[c] = Len(recs.data[c]) /\ Sizes(w.records)[c] = Len(w.records.data[c])
      BY DEF Sizes
    <3>3. CASE c \in cols
      <4>1. bytes[c] \in Cell /\ recs.data[c] = Append(w.records.data[c], bytes[c])
        BY <3>3, <1>8, <1>10
      <4>2. Len(Append(w.records.data[c], bytes[c])) = Len(w.records.data[c]) + 1
        BY <3>1, <4>1, AppendProperties
      <4> HIDE DEF w, cols
      <4> QED BY <3>2, <3>3, <4>1, <4>2
    <3>4. CASE c \notin cols
      <4>1. recs.data[c] = w.records.data[c]
        BY <3>4, <1>10
      <4> HIDE DEF w, cols
      <4> QED BY <3>1, <3>2, <3>4, <4>1
    <3> QED BY <3>3, <3>4
  <2>6. SumTo(Sizes(recs), FrameSize) = s + n /\ s \in Nat
    <3>1. FrameSize \in 0 .. FrameSize
      BY CodecAssumption
    <3> HIDE DEF w, cols
    <3>2. SumTo(Sizes(recs), FrameSize) = s + n
      <4>1. cols \in SUBSET Columns
        BY <1>1
      <4>2. PICK a : a = Sizes(recs)
        OBVIOUS
      <4>3. PICK b : b = Sizes(w.records)
        OBVIOUS
      <4>4. PICK D : D = cols
        OBVIOUS
      <4>5. a \in [Columns -> Nat] /\ b \in [Columns -> Nat] /\ D \in SUBSET Columns
        BY <2>4, <4>1, <4>2, <4>3, <4>4
      <4>6. \A c \in Columns : a[c] = b[c] + (IF c \in D THEN 1 ELSE 0)
        BY <2>5, <4>2, <4>3, <4>4
      <4>7. Grows(a, b, D)
        BY <4>5, <4>6 DEF Grows
      <4>8. SumTo(a, FrameSize) = SumTo(b, FrameSize) + Cardinality(D)
        BY <4>7, SumToGrows
      <4> QED BY <4>2, <4>3, <4>4, <4>8
    <3>3. s \in Nat
      BY <2>4, <3>1, SumToIs
    <3> QED BY <3>2, <3>3
  <2> HIDE DEF t, s, m
  <2>7. B * (m + 1) = B * m + B /\ B * m \in Nat
    <3> HIDE DEF B
    <3> QED BY <1>1, <2>3
  <2>8. Cells(recs, Len(G)) = (t + 1) + B * (m + 1) + (s + n) + e
    BY <1>10, <2>2, <2>3, <2>6 DEF Cells
  <2>9. Cells(w.records, Len(F)) = t + B * m + s + e
    BY DEF Cells, t, s, m
  <2> DEFINE p == B * m
             q == B * (m + 1)
  <2> HIDE DEF p, q, n, B, e
  <2>10. p \in Nat /\ q = p + B
    BY <2>7 DEF p, q
  <2>11. (t + 1) + q + (s + n) + e = (t + p + s + e) + (1 + B + n)
    BY <1>1, <2>1, <2>6, <2>10
  <2> QED BY <2>8, <2>9, <2>11, <1>3 DEF p, q
<1>12. Appends(cells, F, more, all, recs, G)
  <2>1. Len(more) > 0 /\ recs.types = Append(w.records.types, more[1])
    <3> HIDE DEF B, n
    <3> QED BY <1>1, <1>3, <1>10
  <2> HIDE DEF G, N, B, n
  <2> QED BY <1>0, <1>2, <1>3, <1>7, <1>9, <1>11, <2>1 DEF Appends
<1>13. Holds(all, G) /\ EventsOf(all) = recs.events /\ BeginsWith(all, cells, more[1])
  <2> HIDE DEF G
  <2> QED BY <1>12, HoldsMore
<1> QED BY <1>3, <1>4, <1>10, <1>13 DEF EventsOf, HasFrameMore

-----------------------------------------------------------------------------
\* A key frame behind a file.
LEMMA HoldsKey ==
  ASSUME NEW cells \in Seq(Cell), NEW F, Holds(cells, F), NEW f \in [Columns -> Cell],
         NEW all, all = cells \o KeyFrameCells(f)
  PROVE  HasFrameMore(all, cells, F, f, KEYFRAME)
<1> DEFINE mask == [b \in 1 .. MaskBlocks |-> 0 .. BlockBits - 1]
<1>1. mask \in [1 .. MaskBlocks -> Cell] /\ ColumnsOf(mask) = Columns
  BY FullMask
<1>2. all = cells \o FrameCells(KEYFRAME, mask, f)
  BY DEF KeyFrameCells, FrameCells
<1> HIDE DEF mask
<1>3. /\ FrameSize \in Nat /\ Columns = 1 .. FrameSize /\ FrameSize \in Int
      /\ Columns \in SUBSET (1 .. FrameSize)
  BY CodecAssumption DEF Columns
<1>4. Cardinality(Columns) = FrameSize
  <2>1. Cardinality(1 .. FrameSize) = IF 1 > FrameSize THEN 0 ELSE FrameSize - 1 + 1
    BY <1>3, FS_Interval
  <2> QED BY <2>1, <1>3
<1>5. ASSUME NEW c \in Columns PROVE Rank(Columns, c) = c
  <2>1. {m \in Columns : m <= c} = 1 .. c /\ c \in Int /\ c \in Nat /\ c >= 1
    BY <1>3
  <2>2. Cardinality(1 .. c) = IF 1 > c THEN 0 ELSE c - 1 + 1
    BY <2>1, FS_Interval
  <2>3. Cardinality(1 .. c) = c
    BY <2>1, <2>2
  <2>4. Cardinality({m \in Columns : m <= c}) = c
    BY <2>1, <2>3, Zenon
  <2> QED BY <2>4, Zenon DEF Rank
<1>6. IsRowOf(f, mask, KEYFRAME, F, f)
  <2>1. f \in [1 .. Cardinality(ColumnsOf(mask)) -> Cell]
    BY <1>1, <1>3, <1>4
  <2>2. \A c \in Columns : f[c] = f[Rank(ColumnsOf(mask), c)]
    BY <1>1, <1>5
  <2> QED BY <1>1, <2>1, <2>2 DEF IsRowOf
<1> QED
  <2>1. KEYFRAME \in {DELTA, KEYFRAME}
    OBVIOUS
  <2> QED BY <1>1, <1>2, <1>6, <2>1, HoldsFrame

\* Xor-ed twice.
LEMMA XorTwice ==
  ASSUME NEW a, NEW b
  PROVE  /\ Xor(b, Xor(a, b)) = a
         /\ Xor(a, b) = {} => a = b
  BY DEF Xor, SymDiff

\* A delta behind a file, against the last frame in it.
LEMMA HoldsDelta ==
  ASSUME NEW cells \in Seq(Cell), NEW F, Holds(cells, F), NEW f \in [Columns -> Cell],
         LastOf(F) \in [Columns -> Cell],
         NEW all, all = cells \o DeltaCells(f, LastOf(F))
  PROVE  HasFrameMore(all, cells, F, f, DELTA)
<1> DEFINE base == LastOf(F)
           diff == [c \in Columns |-> Xor(f[c], base[c])]
           cols == {c \in Columns : diff[c] # {}}
           mask == MaskOf(cols)
           row == Pick(diff, cols)
<1>1. mask \in [1 .. MaskBlocks -> Cell] /\ ColumnsOf(mask) = cols
  <2>1. cols \in SUBSET Columns
    OBVIOUS
  <2> HIDE DEF cols
  <2> QED BY <2>1, ColumnsOfMask
<1>2. all = cells \o FrameCells(DELTA, mask, row)
  BY DEF DeltaCells, FrameCells
<1>3. \A c \in Columns : diff[c] \in Cell
  BY DEF Cell, Xor, SymDiff
<1>4. /\ \A c \in cols : Rank(cols, c) \in 1 .. Cardinality(cols) /\ Nth(cols, Rank(cols, c)) = c
      /\ \A i \in 1 .. Cardinality(cols) : Nth(cols, i) \in cols
  <2>1. FrameSize \in Nat /\ cols \in SUBSET (1 .. FrameSize)
    BY CodecAssumption DEF Columns
  <2> HIDE DEF cols
  <2> QED BY <2>1, NthOfRank
<1>5. row \in [1 .. Cardinality(cols) -> Cell]
  <2>1. \A i \in 1 .. Cardinality(cols) : diff[Nth(cols, i)] \in Cell
    <3>1. cols \subseteq Columns
      OBVIOUS
    <3> HIDE DEF cols, diff
    <3> QED BY <1>3, <1>4, <3>1
  <2> HIDE DEF cols, diff
  <2> QED BY <2>1 DEF Pick
<1>6. ASSUME NEW c \in cols PROVE row[Rank(cols, c)] = diff[c]
  <2> HIDE DEF cols, diff
  <2> QED BY <1>4 DEF Pick
<1>7. ASSUME NEW c \in Columns
      PROVE  f[c] = IF c \notin cols THEN base[c] ELSE Xor(base[c], row[Rank(cols, c)])
  <2>1. diff[c] = Xor(f[c], base[c])
    OBVIOUS
  <2>2. CASE c \in cols
    <3>1. row[Rank(cols, c)] = Xor(f[c], base[c])
      BY <2>1, <2>2, <1>6
    <3> HIDE DEF base, cols, row, diff
    <3> QED BY <3>1, <2>2, XorTwice
  <2>3. CASE c \notin cols
    <3>1. Xor(f[c], base[c]) = {}
      BY <2>1, <2>3
    <3> HIDE DEF base, cols, row, diff
    <3> QED BY <3>1, <2>3, XorTwice
  <2> QED BY <2>2, <2>3
<1>8. IsRowOf(row, mask, DELTA, F, f)
  <2> HIDE DEF row, mask, cols
  <2> QED BY <1>1, <1>5, <1>7, TypesDiffer DEF IsRowOf
<1> QED
  <2>1. DELTA \in {DELTA, KEYFRAME}
    OBVIOUS
  <2> HIDE DEF row, mask
  <2> QED BY <1>1, <1>2, <1>8, <2>1, HoldsFrame

-----------------------------------------------------------------------------
(***************************************************************************)
(* Sequences put behind one another.  Sequence c lies behind off[c - 1].   *)
(***************************************************************************)
Offsets(off, seqs, N) ==
  /\ off \in [0 .. N -> Nat]
  /\ off[0] = 0
  /\ \A c \in 1 .. N : off[c] = off[c - 1] + Len(seqs[c])

\* The first n of them.
LiesIn(flat, seqs, off, n) ==
  /\ flat \in Seq(Cell) /\ Len(flat) = off[n]
  /\ \A d \in 1 .. n : \A k \in 1 .. Len(seqs[d]) :
       /\ off[d - 1] + k \in 1 .. Len(flat)
       /\ flat[off[d - 1] + k] = seqs[d][k]

\* One more.
LEMMA LiesInStep ==
  ASSUME NEW N \in Nat, NEW seqs \in [1 .. N -> Seq(Cell)], NEW off, Offsets(off, seqs, N),
         NEW n \in 1 .. N, NEW old, LiesIn(old, seqs, off, n - 1),
         NEW flat, flat = old \o seqs[n]
  PROVE  LiesIn(flat, seqs, off, n)
<1> DEFINE L == Len(old)
           M == Len(seqs[n])
<1>1. old \in Seq(Cell) /\ seqs[n] \in Seq(Cell) /\ L = off[n - 1]
  BY DEF LiesIn
<1>2. /\ flat \in Seq(Cell) /\ Len(flat) = L + M /\ L \in Nat /\ M \in Nat
      /\ \A k \in 1 .. L : flat[k] = old[k]
      /\ \A k \in 1 .. M : flat[L + k] = seqs[n][k]
  <2>1. IsBehind(flat, old, seqs[n])
    BY <1>1, Behind
  <2> QED BY <2>1 DEF IsBehind
<1>3. off[n] = L + M
  BY <1>1 DEF Offsets
<1>4. ASSUME NEW d \in 1 .. n, NEW k \in 1 .. Len(seqs[d])
      PROVE  off[d - 1] + k \in 1 .. Len(flat) /\ flat[off[d - 1] + k] = seqs[d][k]
  <2>1. CASE d = n
    <3>1. k \in 1 .. M /\ off[d - 1] = L
      BY <2>1, <1>1
    <3>2. L + k \in 1 .. Len(flat)
      <4> HIDE DEF L, M
      <4> QED BY <3>1, <1>2, SMTT(30)
    <3> HIDE DEF L, M
    <3> QED BY <2>1, <3>1, <3>2, <1>2
  <2>2. CASE d # n
    <3>1. d \in 1 .. n - 1
      BY <2>2
    <3>2. off[d - 1] + k \in 1 .. L /\ old[off[d - 1] + k] = seqs[d][k]
      BY <3>1 DEF LiesIn
    <3>3. 1 .. L \subseteq 1 .. Len(flat)
      <4> HIDE DEF L, M
      <4> QED BY <1>2
    <3> HIDE DEF L, M
    <3> QED BY <3>2, <3>3, <1>2
  <2> QED BY <2>1, <2>2
<1>5. Len(flat) = off[n]
  BY <1>2, <1>3
<1> QED BY <1>2, <1>4, <1>5 DEF LiesIn

\* FlattenSeq puts each of them where it belongs.
LEMMA Flattened ==
  ASSUME NEW N \in Nat \ {0}, NEW seqs \in [1 .. N -> Seq(Cell)],
         NEW off, Offsets(off, seqs, N)
  PROVE  LiesIn(FlattenSeq(seqs), seqs, off, N)
<1> DEFINE Q == Seq(Cell)
           go == [x \in Q \X (1 .. N) |-> x[1] \o seqs[x[2]]]
           Rec(f) == [i \in 1 .. N |-> IF i = 1 THEN seqs[i] ELSE f[i - 1] \o seqs[i]]
<1>0. N \in Nat /\ N \in 0 .. N /\ N \in 1 .. N /\ N # 0 /\ 1 \in 1 .. N
  OBVIOUS
<1>1. Len(seqs) = N
  <2>1. seqs \in Seq(Seq(Cell))
    BY <1>0, IsASeq
  <2> QED BY <2>1, <1>0, LenProperties
<1>2. go \in Steps(Q, N)
  <2>1. \A x \in Q \X (1 .. N) : x[1] \in Seq(Cell) /\ seqs[x[2]] \in Seq(Cell)
    OBVIOUS
  <2>2. \A x \in Q \X (1 .. N) : x[1] \o seqs[x[2]] \in Q
    BY <2>1, ConcatProperties
  <2> HIDE DEF Q
  <2> QED BY <2>2 DEF Steps
<1>3. PICK f : Follows(f, N, Q, <<>>, go)
  <2>1. <<>> \in Q
    OBVIOUS
  <2> HIDE DEF go, Q
  <2> QED BY <1>0, <1>2, <2>1, Recursion
<1>4. /\ f \in [0 .. N -> Seq(Cell)] /\ f[0] = <<>>
      /\ \A d \in 1 .. N : f[d] = f[d - 1] \o seqs[d]
  <2>1. f \in [0 .. N -> Q] /\ f[0] = <<>> /\ \A d \in 1 .. N : f[d] = go[<<f[d - 1], d>>]
    <3> HIDE DEF go, Q
    <3> QED BY <1>3 DEF Follows
  <2>2. ASSUME NEW d \in 1 .. N PROVE f[d] = f[d - 1] \o seqs[d]
    <3>1. d - 1 \in 0 .. N
      BY <1>0
    <3>2. <<f[d - 1], d>> \in Q \X (1 .. N)
      <4> HIDE DEF Q
      <4> QED BY <2>1, <3>1
    <3>3. go[<<f[d - 1], d>>] = <<f[d - 1], d>>[1] \o seqs[<<f[d - 1], d>>[2]]
      <4> HIDE DEF Q
      <4> QED BY <3>2
    <3> HIDE DEF go, Q
    <3> QED BY <2>1, <3>3
  <2> QED BY <2>1, <2>2
<1> HIDE DEF go
<1>5. f[1] = seqs[1]
  <2>1. f[1] = f[0] \o seqs[1]
    <3>1. f[1] = f[1 - 1] \o seqs[1]
      BY <1>0, <1>4, Zenon
    <3>2. 1 - 1 = 0
      OBVIOUS
    <3> QED BY <3>1, <3>2, Zenon
  <2>2. seqs[1] \in Seq(Cell)
    BY <1>0
  <2>3. <<>> \o seqs[1] = seqs[1]
    BY <2>2, ConcatEmptySeq
  <2> QED BY <1>4, <2>1, <2>3
<1> DEFINE g == [i \in 1 .. N |-> f[i]]
<1>6. g = Rec(g)
  <2>1. ASSUME NEW i \in 1 .. N
        PROVE  g[i] = IF i = 1 THEN seqs[i] ELSE g[i - 1] \o seqs[i]
    <3>1. i # 1 => i - 1 \in 1 .. N
      OBVIOUS
    <3>2. i # 1 => g[i - 1] = f[i - 1]
      BY <3>1
    <3>3. g[i] = f[i]
      OBVIOUS
    <3> HIDE DEF g
    <3> QED BY <3>2, <3>3, <1>4, <1>5
  <2>2. g = [i \in 1 .. N |-> g[i]]
    OBVIOUS
  <2> HIDE DEF g
  <2> QED BY <2>1, <2>2
<1>7. FlattenSeq(seqs) = (CHOOSE h : h = Rec(h))[N]
  <2>1. FlattenSeq(seqs) = (CHOOSE h : h = [i \in 1 .. Len(seqs) |-> IF i = 1 THEN seqs[i]
                                              ELSE h[i - 1] \o seqs[i]])[Len(seqs)]
    BY <1>0, <1>1, Zenon DEF FlattenSeq
  <2> QED BY <2>1, <1>1, Zenon
<1>8. ASSUME NEW h, h = Rec(h) PROVE h[N] = f[N]
  <2> DEFINE S == {d \in 0 .. N : d # 0 => h[d] = f[d]}
  <2>0. \A d \in 1 .. N : h[d] = IF d = 1 THEN seqs[d] ELSE h[d - 1] \o seqs[d]
    BY <1>8
  <2> HIDE DEF Rec
  <2>1. 0 \in S
    OBVIOUS
  <2>2. ASSUME NEW d \in 1 .. N, d - 1 \in S PROVE d \in S
    <3>1. d \in 0 .. N /\ (d # 1 => d - 1 # 0)
      OBVIOUS
    <3>2. d # 1 => h[d - 1] = f[d - 1]
      BY <2>2, <3>1
    <3>3. h[d] = f[d]
      <4>1. CASE d = 1
        BY <4>1, <2>0, <1>5
      <4>2. CASE d # 1
        <5>1. h[d] = h[d - 1] \o seqs[d] /\ f[d] = f[d - 1] \o seqs[d]
          BY <4>2, <2>0, <1>4
        <5> QED BY <4>2, <5>1, <3>2
      <4> QED BY <4>1, <4>2
    <3> QED BY <3>1, <3>3
  <2>3. 0 .. N \subseteq S
    <3> HIDE DEF S
    <3> QED BY <1>0, <2>1, <2>2, UpToInSet
  <2> QED BY <1>0, <2>3
<1>9. FlattenSeq(seqs) = f[N]
  <2> DEFINE h == CHOOSE x : x = Rec(x)
  <2>1. h = Rec(h)
    <3> HIDE DEF Rec, g
    <3> QED BY <1>6
  <2> HIDE DEF h
  <2>2. h[N] = f[N]
    <3> HIDE DEF Rec
    <3> QED BY <2>1, <1>8
  <2> QED BY <2>2, <1>7 DEF h
<1> DEFINE S == {n \in 0 .. N : LiesIn(f[n], seqs, off, n)}
<1>10. 0 \in S
  <2>1. off[0] = 0
    BY DEF Offsets
  <2>2. <<>> \in Seq(Cell) /\ Len(<<>>) = 0
    OBVIOUS
  <2>3. LiesIn(<<>>, seqs, off, 0)
    BY <2>1, <2>2 DEF LiesIn
  <2> QED BY <1>4, <2>3
<1>11. ASSUME NEW n \in 1 .. N, n - 1 \in S PROVE n \in S
  <2>1. LiesIn(f[n - 1], seqs, off, n - 1) /\ f[n] = f[n - 1] \o seqs[n]
    BY <1>4, <1>11
  <2>2. LiesIn(f[n], seqs, off, n)
    BY <1>0, <2>1, LiesInStep
  <2> QED BY <2>2
<1>12. 0 .. N \subseteq S
  <2> HIDE DEF S
  <2> QED BY <1>0, <1>10, <1>11, UpToInSet
<1> QED BY <1>0, <1>9, <1>12

-----------------------------------------------------------------------------
(***************************************************************************)
(* What build_krpz_body writes and map_sections finds again.               *)
(***************************************************************************)
Body(recs) ==
  recs.types \o FlattenSeq(recs.flags) \o FlattenSeq(recs.data) \o recs.events

\* The lengths in the header are those of the sections, which lie in cells.
IsBody(body, recs, n) ==
  /\ body.zstd = "frame" /\ body.header = "ok"
  /\ body.types = Len(recs.types) /\ body.flags = MaskBlocks * n
  /\ body.data = SumTo(Sizes(recs), FrameSize) /\ body.events = Len(recs.events)
  /\ body.cells = Body(recs)

\* The blocks of masks: stream b begins behind (b - 1) * n blocks.
LEMMA FlagsLie ==
  ASSUME NEW recs, NEW F, Describes(recs, F)
  PROVE  /\ FlattenSeq(recs.flags) \in Seq(Cell)
         /\ Len(FlattenSeq(recs.flags)) = MaskBlocks * Len(F)
         /\ \A b \in 1 .. MaskBlocks : \A r \in 1 .. Len(F) :
              FlattenSeq(recs.flags)[(b - 1) * Len(F) + r] = recs.flags[b][r]
<1> DEFINE n == Len(F)
           B == MaskBlocks
           off == [b \in 0 .. B |-> b * n]
<1>1. /\ n \in Nat /\ B \in Nat \ {0} /\ recs.flags \in [1 .. B -> Seq(Cell)]
      /\ \A b \in 1 .. B : Len(recs.flags[b]) = n
  BY DescribesNumbers, CodecAssumption DEF Describes, Records
<1>2. Offsets(off, recs.flags, B)
  <2>1. off \in [0 .. B -> Nat]
    <3>1. \A b \in 0 .. B : b * n \in Nat
      <4> HIDE DEF n, B
      <4> QED BY <1>1
    <3> HIDE DEF n, B
    <3> QED BY <3>1
  <2>2. off[0] = 0
    <3>1. 0 \in 0 .. B /\ 0 * n = 0
      <4> HIDE DEF n, B
      <4> QED BY <1>1
    <3> HIDE DEF n, B
    <3> QED BY <3>1
  <2>3. ASSUME NEW b \in 1 .. B PROVE off[b] = off[b - 1] + Len(recs.flags[b])
    <3>1. b \in 0 .. B /\ b - 1 \in 0 .. B /\ b * n = (b - 1) * n + n
      <4> HIDE DEF n, B
      <4> QED BY <1>1
    <3>2. off[b] = b * n /\ off[b - 1] = (b - 1) * n
      <4> HIDE DEF n, B
      <4> QED BY <3>1
    <3> HIDE DEF off, n, B
    <3> QED BY <3>1, <3>2, <1>1
  <2> HIDE DEF off
  <2> QED BY <2>1, <2>2, <2>3 DEF Offsets
<1>3. LiesIn(FlattenSeq(recs.flags), recs.flags, off, B)
  <2> HIDE DEF off
  <2> QED BY <1>1, <1>2, Flattened
<1>4. /\ FlattenSeq(recs.flags) \in Seq(Cell) /\ Len(FlattenSeq(recs.flags)) = off[B]
      /\ \A b \in 1 .. B : \A r \in 1 .. n :
           FlattenSeq(recs.flags)[off[b - 1] + r] = recs.flags[b][r]
  <2> HIDE DEF off
  <2> QED BY <1>1, <1>3 DEF LiesIn
<1>5. off[B] = B * n /\ \A b \in 1 .. B : off[b - 1] = (b - 1) * n
  <2>1. B \in 0 .. B /\ \A b \in 1 .. B : b - 1 \in 0 .. B
    BY <1>1
  <2> HIDE DEF n, B
  <2> QED BY <2>1
<1> HIDE DEF off
<1> QED BY <1>4, <1>5

\* The columns of bytes.
LEMMA DataLie ==
  ASSUME NEW recs, NEW F, Describes(recs, F)
  PROVE  /\ FlattenSeq(recs.data) \in Seq(Cell)
         /\ Len(FlattenSeq(recs.data)) = SumTo(Sizes(recs), FrameSize)
         /\ \A c \in Columns : \A k \in 1 .. Len(recs.data[c]) :
              FlattenSeq(recs.data)[SumTo(Sizes(recs), c - 1) + k] = recs.data[c][k]
<1> DEFINE N == FrameSize
           off == [c \in 0 .. N |-> SumTo(Sizes(recs), c)]
<1>1. /\ N \in Nat \ {0} /\ Columns = 1 .. N /\ recs.data \in [1 .. N -> Seq(Cell)]
      /\ Sizes(recs) \in [Columns -> Nat]
  BY SizesTyped, CodecAssumption DEF Describes, Records, Columns
<1>2. /\ SumTo(Sizes(recs), 0) = 0
      /\ \A c \in 1 .. N : SumTo(Sizes(recs), c) = SumTo(Sizes(recs), c - 1) + Len(recs.data[c])
      /\ \A c \in 0 .. N : SumTo(Sizes(recs), c) \in Nat
  <2>1. \A c \in Columns : Sizes(recs)[c] = Len(recs.data[c])
    BY DEF Sizes
  <2> QED BY <1>1, <2>1, SumToIs
<1>3. Offsets(off, recs.data, N)
  <2>1. off \in [0 .. N -> Nat]
    BY <1>2
  <2>2. off[0] = 0
    <3>1. 0 \in 0 .. N
      BY <1>1
    <3> QED BY <1>2, <3>1
  <2>3. ASSUME NEW c \in 1 .. N PROVE off[c] = off[c - 1] + Len(recs.data[c])
    <3>1. c \in 0 .. N /\ c - 1 \in 0 .. N
      BY <1>1
    <3>2. off[c] = SumTo(Sizes(recs), c) /\ off[c - 1] = SumTo(Sizes(recs), c - 1)
      BY <3>1
    <3> HIDE DEF off, N
    <3> QED BY <3>2, <1>2
  <2> HIDE DEF off
  <2> QED BY <2>1, <2>2, <2>3 DEF Offsets
<1>4. LiesIn(FlattenSeq(recs.data), recs.data, off, N)
  <2> HIDE DEF off
  <2> QED BY <1>1, <1>3, Flattened
<1>5. /\ FlattenSeq(recs.data) \in Seq(Cell) /\ Len(FlattenSeq(recs.data)) = off[N]
      /\ \A c \in 1 .. N : \A k \in 1 .. Len(recs.data[c]) :
           FlattenSeq(recs.data)[off[c - 1] + k] = recs.data[c][k]
  <2> HIDE DEF off
  <2> QED BY <1>4 DEF LiesIn
<1>6. off[N] = SumTo(Sizes(recs), N) /\ \A c \in 1 .. N : off[c - 1] = SumTo(Sizes(recs), c - 1)
  <2>1. N \in 0 .. N /\ \A c \in 1 .. N : c - 1 \in 0 .. N
    BY <1>1
  <2> HIDE DEF N
  <2> QED BY <2>1
<1> HIDE DEF off
<1> QED BY <1>1, <1>5, <1>6

\* A part of a sequence.
LEMMA PartOf ==
  ASSUME NEW all \in Seq(Cell), NEW s \in Seq(Cell), NEW m \in Nat, NEW n \in Nat,
         n = m + Len(s), n <= Len(all), \A k \in 1 .. Len(s) : all[m + k] = s[k]
  PROVE  SubSeq(all, m + 1, n) = s
<1> DEFINE L == Len(s)
           Z == Len(all)
<1>1. L \in Nat /\ n = m + L /\ n <= Z /\ Z \in Nat
  BY LenProperties
<1>2. \A i \in m + 1 .. n : i \in 1 .. Z
  <2> HIDE DEF L, Z
  <2> QED BY <1>1
<1>3. \A i \in m + 1 .. n : all[i] \in Cell
  BY <1>2, ElementOfSeq
<1>4. PICK q : q = m + 1
  OBVIOUS
<1>5. q \in Int /\ n \in Int /\ \A i \in q .. n : all[i] \in Cell
  BY <1>3, <1>4
<1> DEFINE sub == SubSeq(all, q, n)
<1>6. /\ sub \in Seq(Cell)
      /\ Len(sub) = IF q <= n THEN n - q + 1 ELSE 0
      /\ \A i \in 1 .. n - q + 1 : sub[i] = all[q + i - 1]
  <2> HIDE DEF L, Z
  <2> QED BY <1>5, SubSeqProperties
<1> HIDE DEF sub
<1>7. /\ (IF q <= n THEN n - q + 1 ELSE 0) = L /\ n - q + 1 = L
      /\ \A i \in 1 .. L : q + i - 1 = m + i
  <2> HIDE DEF L, Z
  <2> QED BY <1>1, <1>4
<1>8. \A i \in 1 .. L : sub[i] = s[i]
  <2> HIDE DEF L, Z
  <2>1. \A i \in 1 .. L : all[m + i] = s[i]
    BY DEF L
  <2> QED BY <1>6, <1>7, <2>1
<1>9. Len(sub) = Len(s)
  BY <1>6, <1>7
<1>10. sub = s
  BY <1>6, <1>8, <1>9, SeqEqual
<1> QED BY <1>4, <1>10 DEF sub

CutInto(all, a, b, c, d) ==
  /\ all \in Seq(Cell) /\ Len(all) = Len(a) + Len(b) + Len(c) + Len(d)
  /\ SubSeq(all, 1, Len(a)) = a
  /\ SubSeq(all, Len(a) + 1, Len(a) + Len(b)) = b
  /\ SubSeq(all, Len(a) + Len(b) + 1, Len(a) + Len(b) + Len(c)) = c
  /\ SubSeq(all, Len(a) + Len(b) + Len(c) + 1, Len(a) + Len(b) + Len(c) + Len(d)) = d

\* Four sequences behind one another, cut apart again.
LEMMA CutApart ==
  ASSUME NEW a \in Seq(Cell), NEW b \in Seq(Cell), NEW c \in Seq(Cell), NEW d \in Seq(Cell),
         NEW all, all = a \o b \o c \o d
  PROVE  CutInto(all, a, b, c, d)
<1> DEFINE A == Len(a)
           B == Len(b)
           C == Len(c)
           D == Len(d)
<1>0. A \in Nat /\ B \in Nat /\ C \in Nat /\ D \in Nat
  BY LenProperties
<1>1. PICK ab : ab = a \o b
  OBVIOUS
<1>2. PICK abc : abc = ab \o c
  OBVIOUS
<1>3. all = abc \o d
  BY <1>1, <1>2
<1>4. /\ ab \in Seq(Cell) /\ Len(ab) = A + B
      /\ \A k \in 1 .. A : ab[k] = a[k]
      /\ \A k \in 1 .. B : ab[A + k] = b[k]
  <2>1. IsBehind(ab, a, b)
    BY <1>1, Behind
  <2> QED BY <2>1 DEF IsBehind
<1>5. /\ abc \in Seq(Cell) /\ Len(abc) = (A + B) + C
      /\ \A k \in 1 .. (A + B) : abc[k] = ab[k]
      /\ \A k \in 1 .. C : abc[(A + B) + k] = c[k]
  <2>1. IsBehind(abc, ab, c)
    BY <1>2, <1>4, Behind
  <2> QED BY <2>1, <1>4 DEF IsBehind
<1>6. /\ all \in Seq(Cell) /\ Len(all) = ((A + B) + C) + D
      /\ \A k \in 1 .. (A + B) + C : all[k] = abc[k]
      /\ \A k \in 1 .. D : all[((A + B) + C) + k] = d[k]
  <2>1. IsBehind(all, abc, d)
    BY <1>3, <1>5, Behind
  <2> QED BY <2>1, <1>5 DEF IsBehind
<1>7. /\ \A k \in 1 .. A : all[k] = a[k]
      /\ \A k \in 1 .. B : all[A + k] = b[k]
      /\ \A k \in 1 .. C : all[(A + B) + k] = c[k]
  <2>1. /\ \A k \in 1 .. A : k \in 1 .. A + B /\ k \in 1 .. (A + B) + C
        /\ \A k \in 1 .. B : A + k \in 1 .. A + B /\ A + k \in 1 .. (A + B) + C
        /\ \A k \in 1 .. C : (A + B) + k \in 1 .. (A + B) + C
    <3> HIDE DEF A, B, C, D
    <3> QED BY <1>0
  <2> HIDE DEF A, B, C, D
  <2> QED BY <2>1, <1>4, <1>5, <1>6
<1> DEFINE IsPart(m, n, s) == /\ m \in Nat /\ n \in Nat /\ n = m + Len(s)
                              /\ n <= Len(all)
                              /\ \A k \in 1 .. Len(s) : all[m + k] = s[k]
<1>8. ASSUME NEW m, NEW n, NEW s \in Seq(Cell), IsPart(m, n, s)
      PROVE  SubSeq(all, m + 1, n) = s
  <2>1. m \in Nat /\ n \in Nat /\ n = m + Len(s) /\ n <= Len(all)
        /\ \A k \in 1 .. Len(s) : all[m + k] = s[k]
    BY <1>8
  <2>2. all \in Seq(Cell)
    BY <1>6
  <2> HIDE DEF IsPart, A, B, C, D
  <2> QED BY <2>1, <2>2, PartOf
<1>9. IsPart(0, A, a) /\ IsPart(A, A + B, b) /\ IsPart(A + B, (A + B) + C, c)
      /\ IsPart((A + B) + C, ((A + B) + C) + D, d)
  <2>1. /\ 0 \in Nat /\ A + B \in Nat /\ (A + B) + C \in Nat /\ ((A + B) + C) + D \in Nat
        /\ A <= ((A + B) + C) + D /\ A + B <= ((A + B) + C) + D
        /\ (A + B) + C <= ((A + B) + C) + D /\ ((A + B) + C) + D <= ((A + B) + C) + D
        /\ A = 0 + A /\ \A k \in 1 .. A : 0 + k = k
    <3> HIDE DEF A, B, C, D
    <3> QED BY <1>0
  <2>2. IsPart(0, A, a)
    BY <2>1, <1>0, <1>6, <1>7
  <2>3. IsPart(A, A + B, b)
    BY <2>1, <1>0, <1>6, <1>7
  <2>4. IsPart(A + B, (A + B) + C, c)
    BY <2>1, <1>6, <1>7
  <2>5. IsPart((A + B) + C, ((A + B) + C) + D, d)
    BY <2>1, <1>6
  <2> QED BY <2>2, <2>3, <2>4, <2>5
<1> HIDE DEF IsPart
<1>10. SubSeq(all, 0 + 1, A) = a
  BY <1>8, <1>9
<1>11. SubSeq(all, A + 1, A + B) = b
  BY <1>8, <1>9
<1>12. SubSeq(all, (A + B) + 1, (A + B) + C) = c
  BY <1>8, <1>9
<1>13. SubSeq(all, ((A + B) + C) + 1, ((A + B) + C) + D) = d
  BY <1>8, <1>9
<1>14. 0 + 1 = 1
  OBVIOUS
<1> QED BY <1>6, <1>10, <1>11, <1>12, <1>13, <1>14 DEF CutInto

-----------------------------------------------------------------------------
\* Compressing a file that holds frames succeeds.
LEMMA Compressed ==
  ASSUME NEW cells \in Seq(Cell), NEW F, Holds(cells, F)
  PROVE  \E body : /\ Compress([header |-> "ok", cells |-> cells]) = [err |-> "ok", krpz |-> body]
                   /\ IsBody(body, Split(cells).records, Len(F))
<1> DEFINE recs == Split(cells).records
           krpr == [header |-> "ok", cells |-> cells]
           body == [zstd |-> "frame", header |-> "ok", types |-> Len(recs.types),
                    flags |-> Len(FlattenSeq(recs.flags)),
                    data |-> Len(FlattenSeq(recs.data)), events |-> Len(recs.events),
                    cells |-> Body(recs)]
<1>1. Split(cells).err = "ok" /\ Describes(recs, F)
  BY DEF Holds
<1>2. Len(FlattenSeq(recs.flags)) = MaskBlocks * Len(F)
      /\ Len(FlattenSeq(recs.data)) = SumTo(Sizes(recs), FrameSize)
  <2> HIDE DEF recs
  <2> QED BY <1>1, FlagsLie, DataLie
<1>3. krpr.header = "ok" /\ krpr.cells = cells
  OBVIOUS
<1>4. Compress(krpr) = [err |-> "ok", krpz |-> body]
  BY <1>1, <1>3, Zenon DEF Compress, Body
<1>5. IsBody(body, recs, Len(F))
  <2>1. /\ body.zstd = "frame" /\ body.header = "ok" /\ body.types = Len(recs.types)
        /\ body.flags = Len(FlattenSeq(recs.flags)) /\ body.data = Len(FlattenSeq(recs.data))
        /\ body.events = Len(recs.events) /\ body.cells = Body(recs)
    BY Zenon
  <2> HIDE DEF body, recs
  <2> QED BY <2>1, <1>2, Zenon DEF IsBody
<1> QED BY <1>4, <1>5, Zenon

IsSections(s, recs, F) ==
  /\ s.types = recs.types /\ s.data = FlattenSeq(recs.data) /\ s.events = recs.events
  /\ s.rows = Len(F) /\ s.masks = Masks(recs, Len(F)) /\ s.sizes = Sizes(recs)

\* A product is divided by one of its factors.
LEMMA DivExact ==
  ASSUME NEW b \in Nat \ {0}, NEW n \in Nat
  PROVE  (b * n) \div b = n /\ (b * n) % b = 0
<1> DEFINE p == b * n
           q == p \div b
           r == p % b
<1>1. p \in Nat
  OBVIOUS
<1>2. q \in Nat /\ r \in 0 .. b - 1 /\ p = b * q + r
  <2> HIDE DEF p
  <2> QED BY <1>1, DivMod
<1>3. q \in Nat /\ r \in Nat /\ r < b /\ b * n = b * q + r
  BY <1>2
<1> HIDE DEF p, q, r
<1>4. ASSUME q < n PROVE FALSE
  <2>1. PICK k \in Nat : n = q + 1 + k
    <3>1. n - q - 1 \in Nat /\ n = q + 1 + (n - q - 1)
      BY <1>3, <1>4
    <3> QED BY <3>1
  <2>2. b * n = b * q + b + b * k
    BY <1>3, <2>1
  <2>3. b * k \in Nat /\ b * q \in Nat
    BY <1>3
  <2> DEFINE x == b * k
             y == b * q
             z == b * n
  <2>4. x \in Nat /\ y \in Nat /\ z = y + b + x /\ z = y + r
    BY <1>3, <2>2, <2>3
  <2> HIDE DEF x, y, z
  <2> QED BY <1>3, <2>4
<1>5. ASSUME n < q PROVE FALSE
  <2>1. PICK k \in Nat : q = n + 1 + k
    <3>1. q - n - 1 \in Nat /\ q = n + 1 + (q - n - 1)
      BY <1>3, <1>5
    <3> QED BY <3>1
  <2>2. b * q = b * n + b + b * k
    BY <1>3, <2>1
  <2>3. b * k \in Nat /\ b * n \in Nat
    BY <1>3
  <2> DEFINE x == b * k
             y == b * n
             z == b * q
  <2>4. x \in Nat /\ y \in Nat /\ z = y + b + x /\ y = z + r
    BY <1>3, <2>2, <2>3
  <2> HIDE DEF x, y, z
  <2> QED BY <1>3, <2>4
<1>6. q = n
  BY <1>3, <1>4, <1>5
<1>7. r = 0
  <2> DEFINE y == b * n
  <2>1. y \in Nat /\ y = y + r
    BY <1>3, <1>6
  <2> HIDE DEF y
  <2> QED BY <1>3, <2>1
<1> QED BY <1>6, <1>7 DEF p, q, r

\* The sections a reader finds are those that were written.
LEMMA SectionsFound ==
  ASSUME NEW recs, NEW F, Describes(recs, F), NEW body, IsBody(body, recs, Len(F))
  PROVE  /\ IsSections(Sections(body), recs, F)
         /\ body.types + body.flags + body.data + body.events = Len(body.cells)
         /\ body.flags % MaskBlocks = 0
<1> DEFINE n == Len(F)
           B == MaskBlocks
           T == Len(recs.types)
           E == Len(recs.events)
           flags == FlattenSeq(recs.flags)
           data == FlattenSeq(recs.data)
<1>1. /\ recs.types \in Seq(Cell) /\ recs.events \in Seq(Cell)
      /\ flags \in Seq(Cell) /\ data \in Seq(Cell)
      /\ n \in Nat /\ B \in Nat \ {0}
  BY FlagsLie, DataLie, DescribesNumbers, CodecAssumption DEF Describes, Records
<1>2. /\ body.types = T /\ body.flags = Len(flags) /\ Len(flags) = B * n
      /\ body.data = Len(data) /\ body.events = E
      /\ body.cells = recs.types \o flags \o data \o recs.events
  BY FlagsLie, DataLie DEF IsBody, Body
<1>3. /\ Len(body.cells) = T + Len(flags) + Len(data) + E
      /\ SubSeq(body.cells, 1, T) = recs.types
      /\ SubSeq(body.cells, T + 1, T + Len(flags)) = flags
      /\ SubSeq(body.cells, T + Len(flags) + 1, T + Len(flags) + Len(data)) = data
      /\ SubSeq(body.cells, T + Len(flags) + Len(data) + 1,
                T + Len(flags) + Len(data) + E) = recs.events
  <2>1. CutInto(body.cells, recs.types, flags, data, recs.events)
    <3> HIDE DEF flags, data
    <3> QED BY <1>1, <1>2, CutApart
  <2> HIDE DEF flags, data
  <2> QED BY <2>1, Zenon DEF CutInto
<1>4. (B * n) \div B = n /\ (B * n) % B = 0
  <2> HIDE DEF B, n
  <2> QED BY <1>1, DivExact
<1>5. \A b \in 1 .. B : \A r \in 1 .. n : flags[(b - 1) * n + r] = recs.flags[b][r]
  BY FlagsLie
<1> HIDE DEF flags, data
<1> DEFINE s == [types  |-> SubSeq(body.cells, 1, body.types),
                 flags  |-> SubSeq(body.cells, body.types + 1, body.types + body.flags),
                 data   |-> SubSeq(body.cells, body.types + body.flags + 1,
                                   body.types + body.flags + body.data),
                 events |-> SubSeq(body.cells, body.types + body.flags + body.data + 1,
                                   body.types + body.flags + body.data + body.events),
                 rows   |-> body.flags \div MaskBlocks]
           masks == [r \in 1 .. s.rows |-> RowMask(s, r)]
           sizes == [c \in Columns |-> Cardinality(RowsWith(masks, c))]
<1>6. Sections(body) = [types |-> s.types, data |-> s.data, events |-> s.events,
                        rows |-> s.rows, masks |-> masks, sizes |-> sizes]
  BY Zenon DEF Sections
<1>7. /\ s.types = recs.types /\ s.flags = flags /\ s.data = data /\ s.events = recs.events
      /\ s.rows = n
  <2>1. s.types = SubSeq(body.cells, 1, body.types)
        /\ s.flags = SubSeq(body.cells, body.types + 1, body.types + body.flags)
        /\ s.data = SubSeq(body.cells, body.types + body.flags + 1,
                                   body.types + body.flags + body.data)
        /\ s.events = SubSeq(body.cells, body.types + body.flags + body.data + 1,
                                   body.types + body.flags + body.data + body.events)
        /\ s.rows = body.flags \div MaskBlocks
    BY Zenon
  <2> HIDE DEF s
  <2>2. s.types = recs.types
    BY <2>1, <1>2, <1>3, Zenon
  <2>3. s.flags = flags
    BY <2>1, <1>2, <1>3, Zenon
  <2>4. s.data = data
    BY <2>1, <1>2, <1>3, Zenon
  <2>5. s.events = recs.events
    BY <2>1, <1>2, <1>3, Zenon
  <2>6. s.rows = n
    BY <2>1, <1>2, <1>4, Zenon
  <2> QED BY <2>2, <2>3, <2>4, <2>5, <2>6
<1> HIDE DEF s
<1>8. masks = Masks(recs, n)
  <2>1. ASSUME NEW r \in 1 .. n
        PROVE  RowMask(s, r) = [b \in 1 .. B |-> recs.flags[b][r]]
    <3>1. RowMask(s, r) = [b \in 1 .. B |-> flags[(b - 1) * n + r]]
      BY <1>7, Zenon DEF RowMask
    <3> HIDE DEF B, n
    <3> QED BY <3>1, <1>5
  <2>2. masks = [r \in 1 .. n |-> RowMask(s, r)]
    BY <1>7
  <2> HIDE DEF masks, n, B
  <2>3. masks = [r \in 1 .. n |-> [b \in 1 .. B |-> recs.flags[b][r]]]
    BY <2>1, <2>2, Zenon
  <2> QED BY <2>3 DEF Masks, B
<1>9. sizes = Sizes(recs)
  <2>1. \A c \in Columns : Len(recs.data[c]) = Cardinality(RowsWith(masks, c))
    BY <1>8, Zenon DEF Describes
  <2> HIDE DEF masks
  <2> QED BY <2>1 DEF Sizes
<1> HIDE DEF masks, sizes
<1>10. IsSections(Sections(body), recs, F)
  <2> DEFINE t == Sections(body)
  <2>1. /\ t.types = s.types /\ t.data = s.data /\ t.events = s.events /\ t.rows = s.rows
        /\ t.masks = masks /\ t.sizes = sizes
    BY <1>6
  <2> HIDE DEF t
  <2> QED BY <2>1, <1>7, <1>8, <1>9 DEF IsSections, t, data
<1>11. body.types + body.flags + body.data + body.events = Len(body.cells)
  BY <1>2, <1>3, Zenon
<1>12. body.flags % MaskBlocks = 0
  BY <1>2, <1>4, Zenon
<1> QED BY <1>10, <1>11, <1>12

\* And they agree with the header.
LEMMA SectionsAgree ==
  ASSUME NEW recs, NEW F, Describes(recs, F), NEW body, IsBody(body, recs, Len(F)),
         recs.types # <<>>, recs.types[1] = KEYFRAME
  PROVE  SectionsError(body) = "ok"
<1> DEFINE s == Sections(body)
<1>1. /\ IsSections(s, recs, F)
      /\ body.types + body.flags + body.data + body.events = Len(body.cells)
      /\ body.flags % MaskBlocks = 0
  BY SectionsFound
<1>2. /\ body.header = "ok" /\ body.types = Len(recs.types) /\ body.events = Len(recs.events)
      /\ body.data = SumTo(Sizes(recs), FrameSize)
  BY DEF IsBody
<1>3. s.types = recs.types /\ s.rows = Len(F) /\ s.sizes = Sizes(recs)
  <2> HIDE DEF s
  <2> QED BY <1>1 DEF IsSections
<1>4. /\ recs.types \in Seq(Cell) /\ recs.events \in Seq(Cell) /\ Len(F) \in Nat
      /\ Len(recs.types) = Len(F) + Len(recs.events)
      /\ \A t \in DOMAIN recs.types : recs.types[t] \in Types
      /\ Cardinality(FrameRecords(recs.types)) = Len(F)
  BY DescribesNumbers DEF Describes, Records
<1>5. Len(recs.types) # 0 /\ Len(recs.types) \in Nat /\ Len(recs.events) \in Nat
  BY <1>4, EmptySeq, LenProperties
<1>6. ToSet(s.types) \subseteq Types
  BY <1>3, <1>4 DEF ToSet
<1>7. ~ (body.types + body.flags + body.data + body.events > Len(body.cells))
  <2>1. Len(body.cells) \in Int
    <3>1. recs.types \in Seq(Cell) /\ FlattenSeq(recs.flags) \in Seq(Cell)
          /\ FlattenSeq(recs.data) \in Seq(Cell) /\ recs.events \in Seq(Cell)
      BY <1>4, FlagsLie, DataLie
    <3>2. body.cells = recs.types \o FlattenSeq(recs.flags) \o FlattenSeq(recs.data) \o recs.events
      BY DEF IsBody, Body
    <3>3. body.cells \in Seq(Cell)
      BY <3>1, <3>2, CutApart DEF CutInto
    <3> QED BY <3>3, LenProperties
  <2> DEFINE x == body.types + body.flags + body.data + body.events
             y == Len(body.cells)
  <2>2. x = y /\ y \in Int
    BY <1>1, <2>1
  <2> HIDE DEF x, y
  <2>3. ~ (x > y)
    BY <2>2
  <2> QED BY <2>3 DEF x, y
<1>8. body.types - s.rows = body.events
  <2> DEFINE t == Len(recs.types)
             e == Len(recs.events)
             n == Len(F)
  <2>1. t \in Nat /\ e \in Nat /\ n \in Nat /\ t = n + e
    BY <1>4, <1>5
  <2> HIDE DEF t, e, n
  <2>2. t - n = e
    BY <2>1
  <2> QED BY <2>2, <1>2, <1>3 DEF t, e, n
<1> HIDE DEF s
<1>9. s.types[1] = KEYFRAME /\ body.types # 0
  BY <1>2, <1>3, <1>5
<1>10. Cardinality(FrameRecords(s.types)) = s.rows /\ SumTo(s.sizes, FrameSize) = body.data
  BY <1>2, <1>3, <1>4
<1> QED BY <1>1, <1>2, <1>6, <1>7, <1>8, <1>9, <1>10, Zenon DEF SectionsError, s

\* A byte that a row has, where the sections have it.
LEMMA BytesFound ==
  ASSUME NEW recs, NEW F, Describes(recs, F), NEW s, IsSections(s, recs, F),
         NEW c \in Columns, NEW r \in 1 .. Len(F), c \in ColumnsOf(s.masks[r])
  PROVE  ByteAt(s, c, r) = recs.data[c][Rank(RowsWith(Masks(recs, Len(F)), c), r)]
<1> DEFINE masks == Masks(recs, Len(F))
           rows == RowsWith(masks, c)
           k == Rank(rows, r)
<1>1. /\ s.data = FlattenSeq(recs.data) /\ s.masks = masks /\ s.sizes = Sizes(recs)
  BY DEF IsSections
<1>2. r \in rows
  <2>1. DOMAIN masks = 1 .. Len(F)
    BY DEF Masks
  <2> HIDE DEF masks
  <2> QED BY <1>1, <2>1 DEF RowsWith
<1>3. k \in 1 .. Len(recs.data[c])
  BY <1>2, DescribesNumbers
<1>4. \A j \in 1 .. Len(recs.data[c]) :
        FlattenSeq(recs.data)[SumTo(Sizes(recs), c - 1) + j] = recs.data[c][j]
  BY DataLie
<1>5. ByteAt(s, c, r) = FlattenSeq(recs.data)[SumTo(Sizes(recs), c - 1) + k]
  BY <1>1, Zenon DEF ByteAt
<1> HIDE DEF k
<1> QED BY <1>3, <1>4, <1>5 DEF k

\* for_each_record gives back the frames.
LEMMA FramesFound ==
  ASSUME NEW recs, NEW F, Describes(recs, F), NEW s, IsSections(s, recs, F)
  PROVE  FramesOf(s) = F
<1> DEFINE n == Len(F)
           type(r) == s.types[Nth(FrameRecords(s.types), r)]
           next(prev, r) == [c \in Columns |->
                               IF c \notin ColumnsOf(s.masks[r]) THEN prev[c]
                               ELSE IF type(r) = KEYFRAME THEN ByteAt(s, c, r)
                               ELSE Xor(prev[c], ByteAt(s, c, r))]
           Rec(g) == [r \in 0 .. n |-> IF r = 0 THEN NoFrame ELSE next(g[r - 1], r)]
           RecS(g) == [r \in 0 .. s.rows |-> IF r = 0 THEN NoFrame ELSE next(g[r - 1], r)]
           f == [r \in 0 .. n |-> IF r = 0 THEN NoFrame ELSE F[r]]
<1>1. /\ s.types = recs.types /\ s.rows = n /\ s.masks = Masks(recs, n)
  BY DEF IsSections
<1>2. n \in Nat /\ F \in Seq([Columns -> Cell]) /\ F \in [1 .. n -> [Columns -> Cell]]
  <2>1. F \in Seq([Columns -> Cell])
    BY DEF Describes
  <2> QED BY <2>1, LenProperties
<1>3. /\ f[0] = NoFrame /\ \A r \in 1 .. n : f[r] = F[r] /\ f[r - 1] = Prev(F, r)
  <2>1. /\ 0 \in 0 .. n
        /\ \A r \in 1 .. n : r \in 0 .. n /\ r # 0 /\ r - 1 \in 0 .. n /\ (r = 1 <=> r - 1 = 0)
    <3> HIDE DEF n
    <3> QED BY <1>2
  <2> HIDE DEF n
  <2> QED BY <2>1 DEF Prev
<1>4. ASSUME NEW r \in 1 .. n PROVE F[r] = next(Prev(F, r), r)
  <2>1. ASSUME NEW c \in Columns
        PROVE  F[r][c] = IF c \notin ColumnsOf(s.masks[r]) THEN Prev(F, r)[c]
                         ELSE IF type(r) = KEYFRAME THEN ByteAt(s, c, r)
                         ELSE Xor(Prev(F, r)[c], ByteAt(s, c, r))
    <3> DEFINE byte == recs.data[c][Rank(RowsWith(Masks(recs, n), c), r)]
    <3>1. RowGives(recs, F, r, c)
      BY DEF Describes
    <3>2. F[r][c] = IF c \notin ColumnsOf(s.masks[r]) THEN Prev(F, r)[c]
                    ELSE IF type(r) = KEYFRAME THEN byte
                    ELSE Xor(Prev(F, r)[c], byte)
      BY <1>1, <3>1, Zenon DEF RowGives
    <3>3. c \in ColumnsOf(s.masks[r]) => ByteAt(s, c, r) = byte
      BY BytesFound
    <3> HIDE DEF byte, type
    <3> QED BY <3>2, <3>3, Zenon
  <2>2. F[r] \in [Columns -> Cell]
    BY <1>2
  <2>3. F[r] = [c \in Columns |-> F[r][c]]
    <3> HIDE DEF n
    <3> QED BY <2>2, Zenon
  <2> HIDE DEF type, n
  <2> QED BY <2>1, <2>3, Zenon
<1>6. FramesOf(s) = [r \in 1 .. s.rows |-> (CHOOSE g : g = RecS(g))[r]]
  BY Zenon DEF FramesOf
<1> HIDE DEF next
<1>5. f = Rec(f)
  <2>1. ASSUME NEW r \in 0 .. n
        PROVE  f[r] = IF r = 0 THEN NoFrame ELSE next(f[r - 1], r)
    <3>1. r # 0 => r \in 1 .. n
      <4> HIDE DEF n
      <4> QED BY <1>2
    <3>2. r # 0 => f[r] = next(f[r - 1], r)
      <4> HIDE DEF f
      <4> QED BY <3>1, <1>3, <1>4, Zenon
    <3> HIDE DEF f
    <3> QED BY <3>2, <1>3, Zenon
  <2>2. f = [r \in 0 .. n |-> f[r]]
    BY Zenon
  <2> HIDE DEF f, n
  <2> QED BY <2>1, <2>2, Zenon
<1> HIDE DEF f
<1>7. ASSUME NEW g, g = Rec(g) PROVE \A r \in 0 .. n : g[r] = f[r]
  <2> DEFINE S == {r \in 0 .. n : g[r] = f[r]}
  <2>0. \A r \in 0 .. n : g[r] = IF r = 0 THEN NoFrame ELSE next(g[r - 1], r)
    <3> HIDE DEF n
    <3> QED BY <1>7, Zenon
  <2>1. \A r \in 0 .. n : f[r] = IF r = 0 THEN NoFrame ELSE next(f[r - 1], r)
    <3> HIDE DEF n
    <3> QED BY <1>5, Zenon
  <2> HIDE DEF Rec
  <2>2. 0 \in S
    <3>1. 0 \in 0 .. n
      <4> HIDE DEF n
      <4> QED BY <1>2
    <3>2. g[0] = NoFrame /\ f[0] = NoFrame
      BY <3>1, <2>0, <2>1, Zenon
    <3> QED BY <3>1, <3>2
  <2>3. ASSUME NEW r \in 1 .. n, r - 1 \in S PROVE r \in S
    <3>1. r \in 0 .. n /\ r # 0
      <4> HIDE DEF n
      <4> QED BY <1>2
    <3>2. g[r - 1] = f[r - 1]
      BY <2>3
    <3>3. g[r] = next(g[r - 1], r) /\ f[r] = next(f[r - 1], r)
      BY <3>1, <2>0, <2>1, Zenon
    <3>4. g[r] = f[r]
      BY <3>2, <3>3, Zenon
    <3> QED BY <3>1, <3>4
  <2>4. 0 .. n \subseteq S
    <3> HIDE DEF S, n
    <3> QED BY <1>2, <2>2, <2>3, UpToInSet
  <2> QED BY <2>4
<1> DEFINE h == CHOOSE g : g = RecS(g)
<1>8. h = Rec(h)
  <2>1. \A g : RecS(g) = Rec(g)
    <3> HIDE DEF n
    <3> QED BY <1>1, Zenon
  <2> HIDE DEF Rec, RecS
  <2>2. f = RecS(f)
    BY <2>1, <1>5, Zenon
  <2>3. h = RecS(h)
    BY <2>2
  <2> QED BY <2>1, <2>3, Zenon
<1> HIDE DEF h
<1>9. \A r \in 0 .. n : h[r] = f[r]
  <2> HIDE DEF Rec
  <2> QED BY <1>7, <1>8
<1>10. ASSUME NEW r \in 1 .. n PROVE h[r] = F[r]
  <2>1. r \in 0 .. n
    <3> HIDE DEF n
    <3> QED BY <1>2
  <2> QED BY <2>1, <1>3, <1>9
<1>11. FramesOf(s) = [r \in 1 .. n |-> h[r]]
  <2> HIDE DEF n, RecS
  <2> QED BY <1>1, <1>6, Zenon DEF h
<1>12. F = [r \in 1 .. n |-> F[r]]
  <2> HIDE DEF n
  <2> QED BY <1>2
<1> HIDE DEF n, Rec
<1> QED BY <1>10, <1>11, <1>12

(***************************************************************************)
(* What a server's bot is given of a file that holds the frames F and      *)
(* begins with a key frame: compressed and parsed again, F and its events. *)
(***************************************************************************)
Shows(shown, F, evs) == shown = [err |-> "ok", frames |-> F, events |-> evs]

(***************************************************************************)
(* kz_krp_compress against the parser that reads its output: a recorded    *)
(* file of frames and events that begins with a key frame is compressed    *)
(* without an error, and what is parsed is the same frames in their order, *)
(* and the same events; for every set of columns, cells and thresholds.    *)
(***************************************************************************)
THEOREM PlaysBack ==
  ASSUME NEW cells \in Seq(Cell), NEW F, Holds(cells, F), Len(cells) # 0,
         cells[1] = KEYFRAME, Len(cells) < MaxBody
  PROVE  \E body :
           /\ Compress([header |-> "ok", cells |-> cells]) = [err |-> "ok", krpz |-> body]
           /\ Shows(Parse(body), F, EventsOf(cells))
<1> DEFINE recs == Split(cells).records
<1>1. PICK body :
        /\ Compress([header |-> "ok", cells |-> cells]) = [err |-> "ok", krpz |-> body]
        /\ IsBody(body, recs, Len(F))
  BY Compressed
<1>2. /\ Describes(recs, F) /\ Len(cells) = Cells(recs, Len(F))
      /\ recs.types # <<>> /\ recs.types[1] = KEYFRAME
  <2>1. cells # <<>>
    BY EmptySeq
  <2> QED BY <2>1 DEF Holds
<1> HIDE DEF recs
<1>3. SectionsError(body) = "ok" /\ IsSections(Sections(body), recs, F)
      /\ body.types + body.flags + body.data + body.events = Len(body.cells)
  BY <1>1, <1>2, SectionsAgree, SectionsFound
<1>4. Len(body.cells) = Len(cells)
  BY <1>1, <1>2, <1>3 DEF IsBody, Cells
<1>5. ZstdError(body) = "ok"
  <2>1. body.zstd = "frame" /\ body.zstd # "empty" /\ Len(body.cells) < MaxBody
    BY <1>1, <1>4 DEF IsBody
  <2> QED BY <2>1 DEF ZstdError
<1>6. FramesOf(Sections(body)) = F
  BY <1>2, <1>3, FramesFound
<1>7. Sections(body).events = recs.events
  BY <1>3 DEF IsSections
<1>8. Parse(body) = [err |-> "ok", frames |-> F, events |-> recs.events]
  BY <1>3, <1>5, <1>6, <1>7, Zenon DEF Parse
<1> QED BY <1>1, <1>8 DEF Shows, EventsOf, recs

-----------------------------------------------------------------------------
(***************************************************************************)
(* Types.  sc stands for scene.                                            *)
(***************************************************************************)
SignalOf(sc) ==
  [type : {"START", "UNPAUSE"}, slot : Slots, player : Players, run : 1 .. RunsMax] \cup
  [type : {"EVENT"}, slot : Slots, run : 1 .. RunsMax,
   event : {"checkpoint", "gocheck"}] \cup
  [type : {"FRAME"}, slot : Slots, run : 0 .. RunsMax, frame : 0 .. sc.frames] \cup
  [type : {"PAUSE"}, slot : Slots, run : 1 .. RunsMax] \cup
  [type : {"REJECT"}, slot : Slots, run : 0 .. RunsMax, delete : BOOLEAN] \cup
  [type : {"FINISH"}, slot : Slots, player : Players, submit : BOOLEAN,
   run : 1 .. RunsMax, barred : BOOLEAN]

FileOf == [player : Players \cup {Nobody}, cp : Nat, gc : Nat, cells : Seq(Cell),
           run : 0 .. RunsMax]

TypeGame ==
  /\ occupant \in [Slots -> Players \cup {Nobody}]
  /\ noSubmit \in [Slots -> BOOLEAN]
  /\ early \in BOOLEAN
  /\ phase \in [Slots -> {"none", "running", "paused"}]
  /\ run \in [Slots -> 0 .. RunsMax]
  /\ parked \in [Players -> 0 .. RunsMax]

TypeHistory ==
  /\ scene \in Scenes
  /\ runs \in 0 .. RunsMax
  /\ frames \in 0 .. scene.frames
  /\ captured \in [1 .. RunsMax -> Seq(Nat)]
  /\ runner \in [1 .. RunsMax -> Players \cup {Nobody}]
  /\ refused \in BOOLEAN

TypeQueue == queue \in Seq(SignalOf(scene))

TypeSlots ==
  /\ fd \in [Slots -> [inode : 0 .. RunsMax, pos : Nat]]
  /\ path \in [Slots -> Players \cup {Nobody}]
  /\ last \in [Slots -> 0 .. scene.frames]
  /\ keyNext \in [Slots -> BOOLEAN]
  /\ cps \in [Slots -> Nat]
  /\ gcs \in [Slots -> Nat]

TypeFiles ==
  /\ file \in [1 .. RunsMax -> FileOf]
  /\ tmp \in [Players -> 0 .. RunsMax]
  /\ \A r \in saved : r.inode \in 1 .. RunsMax /\ r.run \in 1 .. RunsMax

TypeInv == TypeGame /\ TypeHistory /\ TypeQueue /\ TypeSlots /\ TypeFiles

(***************************************************************************)
(* What the plugin keeps: a run is in one place, a slot or parked, and its *)
(* runner is there.                                                        *)
(***************************************************************************)
SlotsKeep ==
  \A s \in Slots :
    /\ phase[s] = "none" <=> run[s] = 0
    /\ occupant[s] = Nobody => run[s] = 0
    /\ run[s] <= runs
    /\ run[s] # 0 => runner[run[s]] = occupant[s] /\ parked[occupant[s]] = 0

ParkedKeep ==
  \A p \in Players : parked[p] <= runs /\ (parked[p] # 0 => runner[parked[p]] = p)

OneSlotEach ==
  \A s \in Slots, t \in Slots : occupant[s] = occupant[t] /\ occupant[s] # Nobody => s = t

RunsKnown ==
  \A r \in 1 .. RunsMax :
    /\ r <= runs => runner[r] \in Players
    /\ runs < r => runner[r] = Nobody /\ captured[r] = <<>>

Plugin == SlotsKeep /\ ParkedKeep /\ OneSlotEach /\ RunsKnown

-----------------------------------------------------------------------------
\* The fields of a signal.
FieldsOf(x, sc) ==
  /\ x.type \in {"START", "UNPAUSE", "EVENT", "FRAME", "PAUSE", "REJECT", "FINISH"}
  /\ x.slot \in Slots /\ x.run \in 0 .. RunsMax
  /\ x.type \in {"START", "UNPAUSE", "FINISH"} => x.player \in Players
  /\ x.type \in {"START", "UNPAUSE", "EVENT", "PAUSE", "FINISH"} => x.run \in 1 .. RunsMax
  /\ x.type = "EVENT" => x.event \in {"checkpoint", "gocheck"}
  /\ x.type = "FRAME" => x.frame \in 0 .. sc.frames

\* Every signal has the fields of its type.
LEMMA SignalFields ==
  ASSUME NEW sc, NEW x \in SignalOf(sc)
  PROVE  FieldsOf(x, sc)
<1>0. \A n \in 1 .. RunsMax : n \in 0 .. RunsMax
  BY RecorderAssumption
<1>1. CASE x \in [type : {"START", "UNPAUSE"}, slot : Slots, player : Players, run : 1 .. RunsMax]
  BY <1>0, <1>1 DEF FieldsOf
<1>2. CASE x \in [type : {"EVENT"}, slot : Slots, run : 1 .. RunsMax,
                  event : {"checkpoint", "gocheck"}]
  BY <1>0, <1>2 DEF FieldsOf
<1>3. CASE x \in [type : {"FRAME"}, slot : Slots, run : 0 .. RunsMax, frame : 0 .. sc.frames]
  BY <1>0, <1>3 DEF FieldsOf
<1>4. CASE x \in [type : {"PAUSE"}, slot : Slots, run : 1 .. RunsMax]
  BY <1>0, <1>4 DEF FieldsOf
<1>5. CASE x \in [type : {"REJECT"}, slot : Slots, run : 0 .. RunsMax, delete : BOOLEAN]
  BY <1>0, <1>5 DEF FieldsOf
<1>6. CASE x \in [type : {"FINISH"}, slot : Slots, player : Players, submit : BOOLEAN,
                  run : 1 .. RunsMax, barred : BOOLEAN]
  BY <1>0, <1>6 DEF FieldsOf
<1> QED BY <1>1, <1>2, <1>3, <1>4, <1>5, <1>6 DEF SignalOf

\* The queue with a signal more, and without its first.
IsPushed(q, qq, x) ==
  /\ Len(q) \in Nat /\ Len(qq) = Len(q) + 1
  /\ \A k \in 1 .. Len(q) : qq[k] = q[k]
  /\ qq[Len(q) + 1] = x

IsPopped(q, qq) ==
  /\ Len(q) \in Nat /\ Len(q) >= 1 /\ Len(qq) = Len(q) - 1
  /\ Head(q) = q[1]
  /\ \A k \in 1 .. Len(q) - 1 : qq[k] = q[k + 1]

\* A signal is appended.
LEMMA Pushing ==
  ASSUME NEW S, NEW q \in Seq(S), NEW x \in S, NEW qq, qq = Append(q, x)
  PROVE  qq \in Seq(S) /\ IsPushed(q, qq, x)
<1>1. /\ Append(q, x) \in Seq(S) /\ Len(Append(q, x)) = Len(q) + 1
      /\ \A k \in 1 .. Len(q) : Append(q, x)[k] = q[k]
      /\ Append(q, x)[Len(q) + 1] = x
  BY AppendProperties
<1>2. Len(q) \in Nat
  BY LenProperties
<1> QED BY <1>1, <1>2, Zenon DEF IsPushed

\* The first signal is taken off.
LEMMA Popping ==
  ASSUME NEW S, NEW q \in Seq(S), q # <<>>, NEW qq, qq = Tail(q)
  PROVE  qq \in Seq(S) /\ IsPopped(q, qq) /\ q[1] \in S
<1>1. /\ Head(q) \in S /\ Tail(q) \in Seq(S) /\ Len(Tail(q)) = Len(q) - 1
      /\ \A k \in 1 .. Len(Tail(q)) : Tail(q)[k] = q[k + 1]
  BY HeadTailProperties
<1>2. Len(q) \in Nat \ {0} /\ Head(q) = q[1]
  BY EmptySeq
<1>3. Len(q) \in Nat /\ Len(q) >= 1
  BY <1>2
<1> QED BY <1>1, <1>2, <1>3 DEF IsPopped

-----------------------------------------------------------------------------
\* The writer's variables are typed when it does nothing.
LEMMA WriterStaysTyped ==
  TypeSlots /\ TypeFiles /\ UNCHANGED <<writer, scene>> => TypeSlots' /\ TypeFiles'
<1> SUFFICES ASSUME TypeSlots, TypeFiles, UNCHANGED <<writer, scene>>
             PROVE  TypeSlots' /\ TypeFiles'
  OBVIOUS
<1>1. /\ fd' = fd /\ path' = path /\ last' = last /\ keyNext' = keyNext /\ cps' = cps
      /\ gcs' = gcs /\ file' = file /\ tmp' = tmp /\ saved' = saved /\ scene' = scene
  BY DEF writer
<1>2. TypeSlots'
  BY <1>1 DEF TypeSlots
<1>3. TypeFiles'
  BY <1>1 DEF TypeFiles
<1> QED BY <1>2, <1>3

\* A push keeps the queue typed.
LEMMA QueueTyped ==
  ASSUME TypeQueue, NEW x \in SignalOf(scene), scene' = scene, Push(x)
  PROVE  TypeQueue' /\ IsPushed(queue, queue', x)
<1>1. queue' = Append(queue, x) /\ queue \in Seq(SignalOf(scene))
  BY DEF Push, TypeQueue
<1>2. queue' \in Seq(SignalOf(scene)) /\ IsPushed(queue, queue', x)
  BY <1>1, Pushing
<1> QED BY <1>2 DEF TypeQueue

\* A player joins.
LEMMA JoinTyped ==
  ASSUME TypeInv, Plugin, NEW s \in Slots, NEW p \in Players, Join(s, p)
  PROVE  TypeInv' /\ Plugin'
<1>0. /\ occupant[s] = Nobody /\ Absent(p) /\ occupant' = [occupant EXCEPT ![s] = p]
      /\ UNCHANGED <<noSubmit, early, queue, plugin, writer, scene, runs, frames, events,
                     parks, maps, captured, runner, refused>>
  BY DEF Join
<1>1. /\ TypeGame /\ TypeHistory /\ TypeQueue /\ TypeSlots /\ TypeFiles
      /\ SlotsKeep /\ ParkedKeep /\ OneSlotEach /\ RunsKnown
  BY DEF TypeInv, Plugin
<1>2. TypeGame'
  BY <1>0, <1>1 DEF TypeGame, plugin
<1>3. TypeHistory' /\ RunsKnown' /\ ParkedKeep'
  BY <1>0, <1>1 DEF TypeHistory, RunsKnown, ParkedKeep, plugin
<1>4. TypeQueue'
  BY <1>0, <1>1 DEF TypeQueue
<1>5. TypeSlots' /\ TypeFiles'
  BY <1>0, <1>1, WriterStaysTyped
<1>6. p # Nobody
  BY RecorderAssumption
<1>7. SlotsKeep'
  BY <1>0, <1>1, <1>6 DEF SlotsKeep, TypeGame, plugin
<1>8. OneSlotEach'
  BY <1>0, <1>1, <1>6 DEF OneSlotEach, TypeGame, Absent
<1> QED BY <1>2, <1>3, <1>4, <1>5, <1>7, <1>8 DEF TypeInv, Plugin

\* A ban, a map change.
LEMMA MapTyped ==
  ASSUME TypeInv, Plugin,
         \/ \E s \in Slots : BanAnswer(s)
         \/ LeaveMap \/ EnterMap
  PROVE  TypeInv' /\ Plugin'
<1>0. /\ noSubmit' \in [Slots -> BOOLEAN] /\ early' \in BOOLEAN
      /\ UNCHANGED <<occupant, queue, plugin, writer, scene, runs, frames,
                     captured, runner, refused>>
  <2>1. ASSUME NEW s \in Slots, BanAnswer(s)
        PROVE  /\ noSubmit' \in [Slots -> BOOLEAN] /\ early' \in BOOLEAN
               /\ UNCHANGED <<occupant, queue, plugin, writer, scene, runs, frames,
                              captured, runner, refused>>
    BY <2>1 DEF BanAnswer, TypeInv, TypeGame, count
  <2>2. CASE LeaveMap
    BY <2>2 DEF LeaveMap, TypeInv, TypeGame
  <2>3. CASE EnterMap
    BY <2>3 DEF EnterMap, TypeInv, TypeGame, count
  <2> QED BY <2>1, <2>2, <2>3
<1>1. /\ TypeGame /\ TypeHistory /\ TypeQueue /\ TypeSlots /\ TypeFiles
      /\ SlotsKeep /\ ParkedKeep /\ OneSlotEach /\ RunsKnown
  BY DEF TypeInv, Plugin
<1>2. TypeGame'
  BY <1>0, <1>1 DEF TypeGame, plugin
<1>3. TypeHistory' /\ RunsKnown' /\ ParkedKeep' /\ SlotsKeep' /\ OneSlotEach'
  BY <1>0, <1>1 DEF TypeHistory, RunsKnown, ParkedKeep, SlotsKeep, OneSlotEach, plugin
<1>4. TypeQueue'
  BY <1>0, <1>1 DEF TypeQueue
<1>5. TypeSlots' /\ TypeFiles'
  BY <1>0, <1>1, WriterStaysTyped
<1> QED BY <1>2, <1>3, <1>4, <1>5 DEF TypeInv, Plugin

\* A player leaves; a paused run may stay.
LEMMA DropTyped ==
  ASSUME TypeInv, Plugin, NEW s \in Slots, Drop(s)
  PROVE  TypeInv' /\ Plugin'
<1> DEFINE p == occupant[s]
<1>0. /\ p # Nobody /\ phase[s] # "running"
      /\ occupant' = [occupant EXCEPT ![s] = Nobody]
      /\ noSubmit' = IF early THEN noSubmit ELSE [noSubmit EXCEPT ![s] = FALSE]
      /\ \/ phase[s] = "none" /\ UNCHANGED plugin
         \/ /\ phase[s] = "paused"
            /\ parked' = [parked EXCEPT ![p] = run[s]]
            /\ run' = [run EXCEPT ![s] = 0]
            /\ phase' = [phase EXCEPT ![s] = "none"]
      /\ UNCHANGED <<early, queue, writer, scene, runs, frames, captured, runner, refused>>
  BY DEF Drop
<1>1. /\ TypeGame /\ TypeHistory /\ TypeQueue /\ TypeSlots /\ TypeFiles
      /\ SlotsKeep /\ ParkedKeep /\ OneSlotEach /\ RunsKnown
  BY DEF TypeInv, Plugin
<1>a. /\ run[s] \in 0 .. RunsMax /\ 0 \in 0 .. RunsMax
      /\ run \in [Slots -> 0 .. RunsMax] /\ parked \in [Players -> 0 .. RunsMax]
      /\ phase \in [Slots -> {"none", "running", "paused"}]
      /\ occupant \in [Slots -> Players \cup {Nobody}]
  BY <1>1, RecorderAssumption DEF TypeGame
<1>b. /\ \A t \in Slots : t # s => run'[t] = run[t] /\ phase'[t] = phase[t]
                                    /\ occupant'[t] = occupant[t]
      /\ phase'[s] = "none" /\ run'[s] = 0 /\ occupant'[s] = Nobody
  <2>1. phase[s] = "none" => run[s] = 0
    BY <1>1 DEF SlotsKeep
  <2> QED BY <2>1, <1>0, <1>a DEF plugin
<1>c. /\ run' \in [Slots -> 0 .. RunsMax] /\ parked' \in [Players -> 0 .. RunsMax]
      /\ phase' \in [Slots -> {"none", "running", "paused"}]
  <2>1. CASE phase[s] = "none"
    BY <2>1, <1>0, <1>a DEF plugin
  <2>2. CASE phase[s] # "none"
    BY <2>2, <1>0, <1>a
  <2> QED BY <2>1, <2>2
<1>2. TypeGame'
  <2>1. noSubmit' \in [Slots -> BOOLEAN] /\ early' \in BOOLEAN
    BY <1>0, <1>1 DEF TypeGame
  <2>2. occupant' \in [Slots -> Players \cup {Nobody}]
    BY <1>0, <1>a
  <2> QED BY <1>c, <2>1, <2>2 DEF TypeGame
<1>3. TypeHistory' /\ RunsKnown'
  BY <1>0, <1>1 DEF TypeHistory, RunsKnown
<1>4. TypeQueue'
  BY <1>0, <1>1 DEF TypeQueue
<1>5. TypeSlots' /\ TypeFiles'
  BY <1>0, <1>1, WriterStaysTyped
<1>6. p \in Players
  BY <1>0, <1>1 DEF TypeGame
<1>7. SlotsKeep'
  <2> SUFFICES ASSUME NEW t \in Slots
               PROVE  /\ phase'[t] = "none" <=> run'[t] = 0
                      /\ occupant'[t] = Nobody => run'[t] = 0
                      /\ run'[t] <= runs'
                      /\ run'[t] # 0 => runner'[run'[t]] = occupant'[t]
                                        /\ parked'[occupant'[t]] = 0
    BY DEF SlotsKeep
  <2>1. runs' \in Nat /\ 0 <= runs' /\ runs' = runs
    BY <1>0, <1>1, RecorderAssumption DEF TypeHistory
  <2>2. CASE t = s
    BY <2>1, <2>2, <1>b
  <2>3. CASE t # s
    <3>1. occupant[t] # p
      BY <2>3, <1>0, <1>1 DEF OneSlotEach
    <3>2. phase'[t] = phase[t] /\ run'[t] = run[t] /\ occupant'[t] = occupant[t]
      BY <2>3, <1>b
    <3>3. occupant[t] \in Players => parked'[occupant[t]] = parked[occupant[t]]
      BY <3>1, <1>0, <1>a DEF plugin
    <3>4. run[t] # 0 => occupant[t] \in Players
      BY <1>1, <1>a DEF SlotsKeep
    <3> QED BY <3>2, <3>3, <3>4, <2>1, <1>0, <1>1 DEF SlotsKeep
  <2> QED BY <2>2, <2>3
<1>8. ParkedKeep'
  BY <1>0, <1>1, <1>6 DEF TypeGame, plugin, ParkedKeep, SlotsKeep
<1>9. OneSlotEach'
  BY <1>0, <1>1 DEF TypeGame, OneSlotEach
<1> QED BY <1>2, <1>3, <1>4, <1>5, <1>7, <1>8, <1>9 DEF TypeInv, Plugin

\* A frame is captured.
LEMMA FrameTyped ==
  ASSUME TypeInv, Plugin, NEW s \in Slots, Frame(s)
  PROVE  /\ TypeInv' /\ Plugin'
         /\ IsPushed(queue, queue', [type |-> "FRAME", slot |-> s, run |-> Running(s),
                                     frame |-> frames + 1])
<1> DEFINE x == [type |-> "FRAME", slot |-> s, run |-> Running(s), frame |-> frames + 1]
<1>0. /\ frames < scene.frames /\ frames' = frames + 1 /\ Push(x)
      /\ captured' = IF phase[s] = "running"
                     THEN [captured EXCEPT ![run[s]] = Append(@, frames + 1)]
                     ELSE captured
      /\ UNCHANGED <<player, plugin, writer, scene, runs, runner, refused>>
  BY DEF Frame
<1>1. /\ TypeGame /\ TypeHistory /\ TypeQueue /\ TypeSlots /\ TypeFiles
      /\ SlotsKeep /\ ParkedKeep /\ OneSlotEach /\ RunsKnown
  BY DEF TypeInv, Plugin
<1>2. scene.frames \in Nat /\ frames \in Nat /\ frames + 1 \in 0 .. scene.frames
      /\ frames + 1 \in Nat
  <2>1. scene.frames \in 0 .. (2 ^ FrameSize - 1)
    BY <1>1, RecorderAssumption DEF TypeHistory
  <2>2. scene.frames \in Nat
    BY <2>1
  <2>3. frames \in 0 .. scene.frames
    BY <1>1 DEF TypeHistory
  <2> QED BY <1>0, <2>2, <2>3
<1>3. x \in SignalOf(scene)
  <2>1. Running(s) \in 0 .. RunsMax
    BY <1>1, RecorderAssumption DEF Running, TypeGame
  <2> QED BY <1>2, <2>1 DEF SignalOf
<1>4. TypeQueue' /\ IsPushed(queue, queue', x)
  <2> HIDE DEF x
  <2> QED BY <1>0, <1>1, <1>3, QueueTyped
<1>5. TypeGame' /\ ParkedKeep' /\ SlotsKeep' /\ OneSlotEach'
  BY <1>0, <1>1 DEF TypeGame, player, plugin, ParkedKeep, SlotsKeep, OneSlotEach
<1>6. /\ phase[s] = "running" => run[s] \in 1 .. RunsMax /\ run[s] <= runs
      /\ captured' \in [1 .. RunsMax -> Seq(Nat)]
      /\ \A r \in 1 .. RunsMax : r # run[s] \/ phase[s] # "running" => captured'[r] = captured[r]
  <2>1. phase[s] = "running" => run[s] \in 1 .. RunsMax /\ run[s] <= runs
    BY <1>1, RecorderAssumption DEF SlotsKeep, TypeGame
  <2>2. captured \in [1 .. RunsMax -> Seq(Nat)]
    BY <1>1 DEF TypeHistory
  <2>3. phase[s] = "running" => Append(captured[run[s]], frames + 1) \in Seq(Nat)
    BY <2>1, <2>2, <1>2
  <2>4. CASE phase[s] = "running"
    <3> DEFINE new == Append(captured[run[s]], frames + 1)
    <3>1. captured' = [captured EXCEPT ![run[s]] = new] /\ new \in Seq(Nat)
      BY <2>3, <2>4, <1>0
    <3> HIDE DEF new
    <3> QED BY <2>1, <2>2, <2>4, <3>1
  <2>5. CASE phase[s] # "running"
    BY <2>2, <2>5, <1>0
  <2> QED BY <2>1, <2>4, <2>5
<1>7. TypeHistory'
  <2>1. frames' \in 0 .. scene.frames
    BY <1>0, <1>2
  <2> QED BY <1>0, <1>1, <1>6, <2>1 DEF TypeHistory
<1>8. RunsKnown'
  <2>1. \A r \in 1 .. RunsMax : runs < r => captured'[r] = captured[r]
    BY <1>1, <1>6, RecorderAssumption DEF TypeHistory
  <2> QED BY <1>0, <1>1, <2>1 DEF RunsKnown
<1>9. TypeSlots' /\ TypeFiles'
  BY <1>0, <1>1, WriterStaysTyped
<1> QED BY <1>4, <1>5, <1>7, <1>8, <1>9 DEF TypeInv, Plugin

\* The signal of a run that starts.
StartSignal(s) ==
  [type |-> "START", slot |-> s, player |-> occupant[s], run |-> runs + 1]

\* A run starts: the types are kept, and the run is its player's.
LEMMA RunStartedTyped ==
  ASSUME TypeInv, Plugin, NEW s \in Slots, RunStarted(s)
  PROVE  TypeInv' /\ Plugin' /\ IsPushed(queue, queue', StartSignal(s))
<1> DEFINE p == occupant[s]
           x == StartSignal(s)
<1>0. /\ p # Nobody /\ phase[s] = "none" /\ runs < RunsMax /\ runs' = runs + 1
      /\ Push(x)
      /\ phase' = [phase EXCEPT ![s] = "running"]
      /\ run' = [run EXCEPT ![s] = runs + 1]
      /\ parked' = [parked EXCEPT ![p] = 0]
      /\ runner' = [runner EXCEPT ![runs + 1] = p]
      /\ UNCHANGED <<player, writer, scene, frames, captured, refused>>
  BY DEF RunStarted, StartSignal
<1>1. /\ TypeGame /\ TypeHistory /\ TypeQueue /\ TypeSlots /\ TypeFiles
      /\ SlotsKeep /\ ParkedKeep /\ OneSlotEach /\ RunsKnown
  BY DEF TypeInv, Plugin
<1>2. /\ runs \in Nat /\ runs + 1 \in 1 .. RunsMax /\ runs + 1 \in 0 .. RunsMax
      /\ runs + 1 # 0 /\ 0 \in 0 .. RunsMax
  BY <1>0, <1>1, RecorderAssumption DEF TypeHistory
<1>3. p \in Players
  BY <1>0, <1>1 DEF TypeGame
<1>a. /\ run \in [Slots -> 0 .. RunsMax] /\ parked \in [Players -> 0 .. RunsMax]
      /\ phase \in [Slots -> {"none", "running", "paused"}]
      /\ occupant \in [Slots -> Players \cup {Nobody}]
      /\ runner \in [1 .. RunsMax -> Players \cup {Nobody}]
  BY <1>1 DEF TypeGame, TypeHistory
<1>b. /\ \A t \in Slots : t # s => run'[t] = run[t] /\ phase'[t] = phase[t]
      /\ phase'[s] = "running" /\ run'[s] = runs + 1 /\ occupant' = occupant
      /\ parked'[p] = 0 /\ \A q \in Players : q # p => parked'[q] = parked[q]
      /\ runner'[runs + 1] = p
      /\ \A r \in 1 .. RunsMax : r # runs + 1 => runner'[r] = runner[r]
  BY <1>0, <1>2, <1>3, <1>a DEF player
<1>4. TypeQueue' /\ IsPushed(queue, queue', x)
  <2>1. x \in SignalOf(scene)
    BY <1>2, <1>3 DEF SignalOf, StartSignal
  <2> HIDE DEF x
  <2> QED BY <1>0, <1>1, <2>1, QueueTyped
<1>5. TypeGame'
  <2>1. phase' \in [Slots -> {"none", "running", "paused"}]
    BY <1>0, <1>a
  <2>2. run' \in [Slots -> 0 .. RunsMax]
    BY <1>0, <1>2, <1>a
  <2>3. parked' \in [Players -> 0 .. RunsMax]
    BY <1>0, <1>2, <1>a
  <2> QED BY <1>0, <1>1, <2>1, <2>2, <2>3 DEF TypeGame, player
<1>6. TypeHistory'
  <2>1. runner' \in [1 .. RunsMax -> Players \cup {Nobody}]
    BY <1>0, <1>3, <1>a
  <2> QED BY <1>0, <1>1, <1>2, <2>1 DEF TypeHistory
<1>7. SlotsKeep'
  <2> SUFFICES ASSUME NEW t \in Slots
               PROVE  /\ phase'[t] = "none" <=> run'[t] = 0
                      /\ occupant'[t] = Nobody => run'[t] = 0
                      /\ run'[t] <= runs'
                      /\ run'[t] # 0 => runner'[run'[t]] = occupant'[t]
                                        /\ parked'[occupant'[t]] = 0
    BY DEF SlotsKeep
  <2>1. CASE t = s
    BY <2>1, <1>0, <1>2, <1>b
  <2>2. CASE t # s
    <3>1. /\ phase[t] = "none" <=> run[t] = 0
          /\ occupant[t] = Nobody => run[t] = 0
          /\ run[t] <= runs /\ run[t] \in 0 .. RunsMax
          /\ run[t] # 0 => runner[run[t]] = occupant[t] /\ parked[occupant[t]] = 0
      BY <1>1, <1>a DEF SlotsKeep
    <3>2. run[t] # 0 => run[t] \in 1 .. RunsMax /\ run[t] # runs + 1
      BY <3>1, <1>2
    <3>3. run[t] # 0 => occupant[t] \in Players
      BY <3>1, <1>a
    <3>4. run[t] <= runs + 1
      <4>1. run[t] \in Int
        BY <3>1
      <4> QED BY <3>1, <4>1, <1>2
    <3> QED BY <2>2, <3>1, <3>2, <3>3, <3>4, <1>0, <1>b
  <2> QED BY <2>1, <2>2
<1>8. ParkedKeep'
  <2> SUFFICES ASSUME NEW q \in Players
               PROVE  parked'[q] <= runs' /\ (parked'[q] # 0 => runner'[parked'[q]] = q)
    BY DEF ParkedKeep
  <2>1. parked[q] <= runs /\ (parked[q] # 0 => runner[parked[q]] = q) /\ parked[q] \in 0 .. RunsMax
    BY <1>1, <1>a DEF ParkedKeep
  <2>2. parked[q] # 0 => parked[q] \in 1 .. RunsMax /\ parked[q] # runs + 1
    BY <2>1, <1>2
  <2>3. parked[q] <= runs + 1 /\ 0 <= runs + 1
    BY <2>1, <1>2
  <2>4. CASE q = p
    BY <2>3, <2>4, <1>0, <1>b
  <2>5. CASE q # p
    BY <2>1, <2>2, <2>3, <2>5, <1>0, <1>b
  <2> QED BY <2>4, <2>5
<1>9. OneSlotEach'
  BY <1>1, <1>b DEF OneSlotEach
<1>10. RunsKnown'
  <2> SUFFICES ASSUME NEW r \in 1 .. RunsMax
               PROVE  /\ r <= runs' => runner'[r] \in Players
                      /\ runs' < r => runner'[r] = Nobody /\ captured'[r] = <<>>
    BY DEF RunsKnown
  <2>1. /\ r <= runs + 1 => r = runs + 1 \/ r <= runs
        /\ runs + 1 < r => runs < r /\ r # runs + 1
    BY <1>2
  <2> QED BY <2>1, <1>0, <1>1, <1>3, <1>b DEF RunsKnown
<1>11. TypeSlots' /\ TypeFiles'
  BY <1>0, <1>1, WriterStaysTyped
<1> QED BY <1>4, <1>5, <1>6, <1>7, <1>8, <1>9, <1>10, <1>11 DEF TypeInv, Plugin

\* The signals of a checkpoint or gocheck, and of a pause.
EventSignal(s, ev) == [type |-> "EVENT", slot |-> s, run |-> run[s], event |-> ev]

PauseSignal(s) == [type |-> "PAUSE", slot |-> s, run |-> run[s]]

\* A checkpoint or a gocheck is made.
LEMMA RunEventTyped ==
  ASSUME TypeInv, Plugin, NEW s \in Slots, NEW ev \in {"checkpoint", "gocheck"},
         RunEvent(s, ev)
  PROVE  TypeInv' /\ Plugin' /\ IsPushed(queue, queue', EventSignal(s, ev))
<1> DEFINE x == EventSignal(s, ev)
<1>0. /\ phase[s] = "running" /\ Push(x)
      /\ UNCHANGED <<player, plugin, writer, scene, runs, frames, captured, runner, refused>>
  BY DEF RunEvent, EventSignal
<1>1. /\ TypeGame /\ TypeHistory /\ TypeQueue /\ TypeSlots /\ TypeFiles
      /\ SlotsKeep /\ ParkedKeep /\ OneSlotEach /\ RunsKnown
  BY DEF TypeInv, Plugin
<1>2. run[s] \in 1 .. RunsMax
  BY <1>0, <1>1, RecorderAssumption DEF TypeGame, SlotsKeep
<1>3. TypeQueue' /\ IsPushed(queue, queue', x)
  <2>1. x \in SignalOf(scene)
    BY <1>2 DEF SignalOf, EventSignal
  <2> HIDE DEF x
  <2> QED BY <1>0, <1>1, <2>1, QueueTyped
<1>4. TypeGame' /\ TypeHistory'
  BY <1>0, <1>1 DEF TypeGame, TypeHistory, player, plugin
<1>5. SlotsKeep' /\ ParkedKeep' /\ OneSlotEach' /\ RunsKnown'
  BY <1>0, <1>1 DEF SlotsKeep, ParkedKeep, OneSlotEach, RunsKnown, player, plugin
<1>6. TypeSlots' /\ TypeFiles'
  BY <1>0, <1>1, WriterStaysTyped
<1> QED BY <1>3, <1>4, <1>5, <1>6 DEF TypeInv, Plugin

\* A run is paused.
LEMMA RunPausedTyped ==
  ASSUME TypeInv, Plugin, NEW s \in Slots, RunPaused(s)
  PROVE  TypeInv' /\ Plugin' /\ IsPushed(queue, queue', PauseSignal(s))
<1> DEFINE x == PauseSignal(s)
<1>0. /\ phase[s] = "running" /\ Push(x) /\ phase' = [phase EXCEPT ![s] = "paused"]
      /\ UNCHANGED <<player, run, parked, writer, scene, runs, frames, captured, runner,
                     refused>>
  BY DEF RunPaused, PauseSignal, count
<1>1. /\ TypeGame /\ TypeHistory /\ TypeQueue /\ TypeSlots /\ TypeFiles
      /\ SlotsKeep /\ ParkedKeep /\ OneSlotEach /\ RunsKnown
  BY DEF TypeInv, Plugin
<1>2. run[s] \in 1 .. RunsMax
  BY <1>0, <1>1, RecorderAssumption DEF TypeGame, SlotsKeep
<1>3. TypeQueue' /\ IsPushed(queue, queue', x)
  <2>1. x \in SignalOf(scene)
    BY <1>2 DEF SignalOf, PauseSignal
  <2> HIDE DEF x
  <2> QED BY <1>0, <1>1, <2>1, QueueTyped
<1>4. TypeGame' /\ TypeHistory'
  BY <1>0, <1>1 DEF TypeGame, TypeHistory, player
<1>5. SlotsKeep'
  BY <1>0, <1>1 DEF SlotsKeep, player, TypeGame
<1>6. ParkedKeep' /\ OneSlotEach' /\ RunsKnown'
  BY <1>0, <1>1 DEF ParkedKeep, OneSlotEach, RunsKnown, player
<1>7. TypeSlots' /\ TypeFiles'
  BY <1>0, <1>1, WriterStaysTyped
<1> QED BY <1>3, <1>4, <1>5, <1>6, <1>7 DEF TypeInv, Plugin

\* The signal of a run that goes on.
UnpauseSignal(s, r) ==
  [type |-> "UNPAUSE", slot |-> s, player |-> occupant[s], run |-> r]

\* A run goes on, in the slot where it was paused or another.
LEMMA RunUnpausedTyped ==
  ASSUME TypeInv, Plugin, NEW s \in Slots, RunUnpaused(s)
  PROVE  TypeInv' /\ Plugin' /\ IsPushed(queue, queue', UnpauseSignal(s, run'[s]))
<1> DEFINE p == occupant[s]
           x == UnpauseSignal(s, run'[s])
<1>0. /\ p # Nobody
      /\ \/ phase[s] = "paused" /\ UNCHANGED <<run, parked>>
         \/ /\ phase[s] = "none" /\ parked[p] # 0
            /\ run' = [run EXCEPT ![s] = parked[p]]
            /\ parked' = [parked EXCEPT ![p] = 0]
      /\ Push(x) /\ phase' = [phase EXCEPT ![s] = "running"]
      /\ UNCHANGED <<player, writer, scene, runs, frames, captured, runner, refused>>
  BY DEF RunUnpaused, UnpauseSignal, count
<1>1. /\ TypeGame /\ TypeHistory /\ TypeQueue /\ TypeSlots /\ TypeFiles
      /\ SlotsKeep /\ ParkedKeep /\ OneSlotEach /\ RunsKnown
  BY DEF TypeInv, Plugin
<1>a. /\ run \in [Slots -> 0 .. RunsMax] /\ parked \in [Players -> 0 .. RunsMax]
      /\ phase \in [Slots -> {"none", "running", "paused"}]
      /\ occupant \in [Slots -> Players \cup {Nobody}] /\ p \in Players
      /\ occupant' = occupant /\ 0 \in 0 .. RunsMax
  BY <1>0, <1>1, RecorderAssumption DEF TypeGame, player
<1>b. /\ \A t \in Slots : t # s => run'[t] = run[t] /\ phase'[t] = phase[t]
      /\ phase'[s] = "running" /\ run'[s] # 0 /\ runner[run'[s]] = p /\ run'[s] <= runs
      /\ parked'[p] = 0 /\ \A q \in Players : q # p => parked'[q] = parked[q]
  <2>1. CASE phase[s] = "paused"
    BY <2>1, <1>0, <1>1, <1>a DEF SlotsKeep
  <2>2. CASE phase[s] # "paused"
    BY <2>2, <1>0, <1>1, <1>a DEF ParkedKeep
  <2> QED BY <2>1, <2>2
<1>c. run' \in [Slots -> 0 .. RunsMax] /\ parked' \in [Players -> 0 .. RunsMax]
      /\ phase' \in [Slots -> {"none", "running", "paused"}]
  <2>1. CASE phase[s] = "paused"
    BY <2>1, <1>0, <1>a
  <2>2. CASE phase[s] # "paused"
    BY <2>2, <1>0, <1>a
  <2> QED BY <2>1, <2>2
<1>2. run'[s] \in 1 .. RunsMax
  BY <1>b, <1>c, RecorderAssumption
<1>3. TypeQueue' /\ IsPushed(queue, queue', x)
  <2>1. x \in SignalOf(scene)
    BY <1>2, <1>a DEF SignalOf, UnpauseSignal
  <2> HIDE DEF x
  <2> QED BY <1>0, <1>1, <2>1, QueueTyped
<1>4. TypeGame' /\ TypeHistory'
  BY <1>0, <1>1, <1>c DEF TypeGame, TypeHistory, player
<1>5. SlotsKeep'
  <2> SUFFICES ASSUME NEW t \in Slots
               PROVE  /\ phase'[t] = "none" <=> run'[t] = 0
                      /\ occupant'[t] = Nobody => run'[t] = 0
                      /\ run'[t] <= runs'
                      /\ run'[t] # 0 => runner'[run'[t]] = occupant'[t]
                                        /\ parked'[occupant'[t]] = 0
    BY DEF SlotsKeep
  <2>1. CASE t = s
    BY <2>1, <1>0, <1>a, <1>b
  <2>2. CASE t # s
    <3>1. run[t] # 0 => occupant[t] \in Players
      BY <1>1, <1>a DEF SlotsKeep
    <3>2. occupant[t] \in Players => parked'[occupant[t]] = 0 \/ parked'[occupant[t]] = parked[occupant[t]]
      BY <1>b
    <3> QED BY <2>2, <3>1, <3>2, <1>0, <1>1, <1>a, <1>b DEF SlotsKeep
  <2> QED BY <2>1, <2>2
<1>6. ParkedKeep'
  <2>1. 0 <= runs
    BY <1>1 DEF TypeHistory
  <2> QED BY <2>1, <1>0, <1>1, <1>b DEF ParkedKeep
<1>7. OneSlotEach' /\ RunsKnown'
  BY <1>0, <1>1, <1>a DEF OneSlotEach, RunsKnown
<1>8. TypeSlots' /\ TypeFiles'
  BY <1>0, <1>1, WriterStaysTyped
<1> QED BY <1>3, <1>4, <1>5, <1>6, <1>7, <1>8 DEF TypeInv, Plugin

\* The signals of a run that is rejected or finished.
RejectSignal(s, delete) ==
  [type |-> "REJECT", slot |-> s, run |-> Running(s), delete |-> delete]

FinishSignal(s, submit) ==
  [type |-> "FINISH", slot |-> s, player |-> occupant[s], submit |-> submit,
   run |-> run[s], barred |-> noSubmit[s]]

\* A run is over; the queue may be full, and the signal refused.
LEMMA RunEndsTyped ==
  ASSUME TypeInv, Plugin, NEW s \in Slots, NEW x \in SignalOf(scene), RunEnds(s, x)
  PROVE  /\ TypeInv' /\ Plugin'
         /\ refused' \/ (refused' = refused /\ IsPushed(queue, queue', x))
<1>0. /\ \/ Push(x) /\ refused' = refused
         \/ refused' = TRUE /\ queue' = queue
      /\ phase' = [phase EXCEPT ![s] = "none"]
      /\ run' = [run EXCEPT ![s] = 0]
      /\ UNCHANGED <<player, parked, writer, scene, runs, frames, captured, runner>>
  BY DEF RunEnds, count
<1>1. /\ TypeGame /\ TypeHistory /\ TypeQueue /\ TypeSlots /\ TypeFiles
      /\ SlotsKeep /\ ParkedKeep /\ OneSlotEach /\ RunsKnown
  BY DEF TypeInv, Plugin
<1>2. TypeQueue' /\ (refused' \/ (refused' = refused /\ IsPushed(queue, queue', x)))
      /\ refused' \in BOOLEAN
  <2>1. CASE Push(x) /\ refused' = refused
    <3>1. TypeQueue' /\ IsPushed(queue, queue', x)
      BY <1>0, <1>1, <2>1, QueueTyped
    <3> QED BY <1>1, <2>1, <3>1 DEF TypeHistory
  <2>2. CASE refused' = TRUE /\ queue' = queue
    BY <1>0, <1>1, <2>2 DEF TypeQueue
  <2> QED BY <1>0, <2>1, <2>2
<1>3. TypeGame'
  <2>1. 0 \in 0 .. RunsMax
    BY RecorderAssumption
  <2> QED BY <1>0, <1>1, <2>1 DEF TypeGame, player
<1>4. TypeHistory'
  BY <1>0, <1>1, <1>2 DEF TypeHistory
<1>5. SlotsKeep'
  <2>1. 0 <= runs
    BY <1>1 DEF TypeHistory
  <2> QED BY <2>1, <1>0, <1>1 DEF SlotsKeep, player, TypeGame
<1>6. ParkedKeep' /\ OneSlotEach' /\ RunsKnown'
  BY <1>0, <1>1 DEF ParkedKeep, OneSlotEach, RunsKnown, player
<1>7. TypeSlots' /\ TypeFiles'
  BY <1>0, <1>1, WriterStaysTyped
<1> QED BY <1>2, <1>3, <1>4, <1>5, <1>6, <1>7 DEF TypeInv, Plugin

\* The signals that end a run are signals.
LEMMA EndSignals ==
  ASSUME TypeInv, Plugin, NEW s \in Slots, NEW b \in BOOLEAN
  PROVE  /\ RejectSignal(s, b) \in SignalOf(scene)
         /\ phase[s] = "running" => FinishSignal(s, b) \in SignalOf(scene)
<1>1. TypeGame /\ SlotsKeep
  BY DEF TypeInv, Plugin
<1>2. Running(s) \in 0 .. RunsMax
  BY <1>1, RecorderAssumption DEF Running, TypeGame
<1>3. phase[s] = "running" => run[s] \in 1 .. RunsMax /\ occupant[s] \in Players
  BY <1>1, RecorderAssumption DEF TypeGame, SlotsKeep
<1>4. noSubmit[s] \in BOOLEAN
  BY <1>1 DEF TypeGame
<1>5. RejectSignal(s, b) \in SignalOf(scene)
  BY <1>2 DEF RejectSignal, SignalOf
<1>6. phase[s] = "running" => FinishSignal(s, b) \in SignalOf(scene)
  BY <1>3, <1>4 DEF FinishSignal, SignalOf
<1> QED BY <1>5, <1>6

-----------------------------------------------------------------------------
\* The records that are written are cells.
LEMMA RecordsAreCells ==
  ASSUME NEW f \in [Columns -> Cell]
  PROVE  /\ KeyFrameCells(f) \in Seq(Cell)
         /\ \A base \in [Columns -> Cell] : DeltaCells(f, base) \in Seq(Cell)
         /\ \A ev \in Cell : EventCells(ev) \in Seq(Cell)
<1>1. KeyFrameCells(f) \in Seq(Cell)
  <2> DEFINE mask == [b \in 1 .. MaskBlocks |-> 0 .. BlockBits - 1]
  <2>1. mask \in [1 .. MaskBlocks -> Cell]
    BY FullMask
  <2>2. f \in [1 .. FrameSize -> Cell] /\ FrameSize \in Nat
    BY CodecAssumption DEF Columns
  <2>3. PICK more : more = FrameCells(KEYFRAME, mask, f)
    OBVIOUS
  <2>4. AreCellsOf(more, KEYFRAME, mask, FrameSize, f)
    <3> HIDE DEF mask
    <3> QED BY <2>1, <2>2, <2>3, FrameCellsAre, TypesDiffer
  <2>5. KeyFrameCells(f) = more
    BY <2>3 DEF KeyFrameCells, FrameCells
  <2> QED BY <2>4, <2>5 DEF AreCellsOf
<1>2. ASSUME NEW base \in [Columns -> Cell]
      PROVE  DeltaCells(f, base) \in Seq(Cell)
  <2> DEFINE diff == [c \in Columns |-> Xor(f[c], base[c])]
             cols == {c \in Columns : diff[c] # {}}
             mask == MaskOf(cols)
             row == Pick(diff, cols)
  <2>1. mask \in [1 .. MaskBlocks -> Cell]
    <3>1. cols \in SUBSET Columns
      OBVIOUS
    <3> HIDE DEF cols
    <3> QED BY <3>1, ColumnsOfMask
  <2>2. \A c \in Columns : diff[c] \in Cell
    BY DEF Cell, Xor, SymDiff
  <2>3. \A i \in 1 .. Cardinality(cols) : Nth(cols, i) \in cols
    <3>1. FrameSize \in Nat /\ cols \in SUBSET (1 .. FrameSize)
      BY CodecAssumption DEF Columns
    <3> HIDE DEF cols
    <3> QED BY <3>1, NthOfRank
  <2>4. row \in [1 .. Cardinality(cols) -> Cell]
    <3>1. \A i \in 1 .. Cardinality(cols) : diff[Nth(cols, i)] \in Cell
      <4>1. cols \subseteq Columns
        OBVIOUS
      <4> HIDE DEF cols, diff
      <4> QED BY <2>2, <2>3, <4>1
    <3> HIDE DEF cols, diff
    <3> QED BY <3>1 DEF Pick
  <2>5. PICK more : more = FrameCells(DELTA, mask, row)
    OBVIOUS
  <2>6. DeltaCells(f, base) = more
    BY <2>5 DEF DeltaCells, FrameCells
  <2>7. Cardinality(cols) \in Nat
    <3>1. cols \in SUBSET (1 .. FrameSize) /\ 1 \in Int /\ FrameSize \in Int
      BY CodecAssumption DEF Columns
    <3> HIDE DEF cols
    <3> QED BY <3>1, FS_Interval, FS_Subset, FS_CardinalityType
  <2>8. AreCellsOf(more, DELTA, mask, Cardinality(cols), row)
    <3> HIDE DEF mask, row, cols
    <3> QED BY <2>1, <2>4, <2>5, <2>7, FrameCellsAre, TypesDiffer
  <2> QED BY <2>6, <2>8 DEF AreCellsOf
<1>3. ASSUME NEW ev \in Cell PROVE EventCells(ev) \in Seq(Cell)
  BY TypesDiffer DEF EventCells
<1> QED BY <1>1, <1>2, <1>3

\* The bytes that stand for a frame.
LEMMA ContentTyped ==
  ASSUME NEW n
  PROVE  Content(n) \in [Columns -> Cell]
<1>1. {0} \in Cell /\ {} \in Cell
  BY DEF Cell
<1> QED BY <1>1 DEF Content

\* The ids of the events.
LEMMA EventIdTyped ==
  ASSUME NEW ev
  PROVE  EventId(ev) \in Cell
BY DEF EventId, Cell

\* What writing changes: the file that is open, from where it stands.
Written(s, cells, i, pos) ==
  /\ file' \in [1 .. RunsMax -> FileOf]
  /\ \A j \in 1 .. RunsMax : j # i => file'[j] = file[j]
  /\ file'[i].player = file[i].player /\ file'[i].run = file[i].run
  /\ file'[i].cp = file[i].cp /\ file'[i].gc = file[i].gc
  /\ file'[i].cells \in Seq(Cell)
  /\ pos = Len(file[i].cells) => file'[i].cells = file[i].cells \o cells
  /\ fd' \in [Slots -> [inode : 0 .. RunsMax, pos : Nat]]
  /\ fd'[s].inode = i /\ fd'[s].pos = pos + Len(cells)
  /\ pos = Len(file[i].cells) => fd'[s].pos = Len(file'[i].cells)
  /\ \A t \in Slots : t # s => fd'[t] = fd[t]

\* The greater of two numbers.
LEMMA MaxOfTwo ==
  ASSUME NEW a \in Nat, NEW b \in Nat, NEW m, m = Max({a, b})
  PROVE  m \in Nat /\ m >= a /\ m >= b /\ (m = a \/ m = b)
<1>1. \E x \in {a, b} : \A y \in {a, b} : x >= y
  <2>1. CASE a >= b
    BY <2>1
  <2>2. CASE ~(a >= b)
    BY <2>2
  <2> QED BY <2>1, <2>2
<1>2. m = CHOOSE x \in {a, b} : \A y \in {a, b} : x >= y
  BY DEF Max
<1>3. m \in {a, b} /\ \A y \in {a, b} : m >= y
  BY <1>1, <1>2
<1> QED BY <1>3

\* A function of 1 .. m is a sequence.
LEMMA TupleIsSeq ==
  ASSUME NEW S, NEW m \in Nat, NEW f \in [1 .. m -> S]
  PROVE  f \in Seq(S) /\ Len(f) = m
BY IsASeq, LenProperties

\* Cells written over a file and beyond it.
WrittenOver(old, cells, from) ==
  [k \in 1 .. Max({Len(old), from + Len(cells)}) |->
     IF k \in (from + 1) .. (from + Len(cells)) THEN cells[k - from]
     ELSE IF k <= Len(old) THEN old[k] ELSE {}]

IsWritten(new, old, cells, from) ==
  /\ new \in Seq(Cell)
  /\ from = Len(old) => new = old \o cells /\ Len(new) = from + Len(cells)

\* They are cells; at the end of a file they are appended.
LEMMA CellsWritten ==
  ASSUME NEW old \in Seq(Cell), NEW cells \in Seq(Cell), NEW from \in Nat,
         NEW new, new = WrittenOver(old, cells, from)
  PROVE  IsWritten(new, old, cells, from)
<1> DEFINE to == from + Len(cells)
<1>1. Len(old) \in Nat /\ Len(cells) \in Nat /\ to \in Nat
  BY LenProperties
<1>2. PICK m : m = Max({Len(old), to})
  OBVIOUS
<1>3. m \in Nat /\ m >= Len(old) /\ m >= to /\ (m = Len(old) \/ m = to)
  BY <1>1, <1>2, MaxOfTwo
<1>4. \A k \in 1 .. m :
        (IF k \in (from + 1) .. to THEN cells[k - from]
         ELSE IF k <= Len(old) THEN old[k] ELSE {}) \in Cell
  <2> TAKE k \in 1 .. m
  <2>1. CASE k \in (from + 1) .. to
    <3>1. k - from \in 1 .. Len(cells)
      BY <2>1, <1>1
    <3>2. cells[k - from] \in Cell
      BY <3>1, ElementOfSeq
    <3> QED BY <2>1, <3>2
  <2>2. CASE k \notin (from + 1) .. to /\ k <= Len(old)
    <3>1. k \in 1 .. Len(old)
      BY <2>2, <1>1, <1>3
    <3>2. old[k] \in Cell
      BY <3>1, ElementOfSeq
    <3> QED BY <2>2, <3>2
  <2>3. CASE k \notin (from + 1) .. to /\ ~(k <= Len(old))
    BY <2>3 DEF Cell
  <2> QED BY <2>1, <2>2, <2>3
<1>5. new \in [1 .. m -> Cell] /\ new \in Seq(Cell) /\ Len(new) = m
  <2>1. new \in [1 .. m -> Cell]
    BY <1>2, <1>4 DEF WrittenOver
  <2> QED BY <2>1, <1>3, TupleIsSeq
<1>6. ASSUME from = Len(old)
      PROVE  new = old \o cells /\ Len(new) = from + Len(cells)
  <2>1. m = to
    BY <1>1, <1>3, <1>6
  <2>2. PICK all : all = old \o cells
    OBVIOUS
  <2>3. IsBehind(all, old, cells)
    BY <2>2, Behind
  <2>4. /\ all \in Seq(Cell) /\ Len(all) = Len(old) + Len(cells)
        /\ \A k \in 1 .. Len(old) : all[k] = old[k]
        /\ \A k \in 1 .. Len(cells) : all[Len(old) + k] = cells[k]
    BY <2>3 DEF IsBehind
  <2>5. Len(all) = Len(new)
    BY <2>1, <2>4, <1>5, <1>6
  <2>6. \A k \in 1 .. Len(new) : new[k] = all[k]
    <3> TAKE k \in 1 .. Len(new)
    <3>0. k \in 1 .. m
      BY <1>5
    <3>1. new[k] = IF k \in (from + 1) .. to THEN cells[k - from]
                   ELSE IF k <= Len(old) THEN old[k] ELSE {}
      BY <3>0, <1>2 DEF WrittenOver
    <3>2. CASE k <= Len(old)
      <4>1. k \in 1 .. Len(old) /\ k \notin (from + 1) .. to
        BY <3>0, <3>2, <1>1, <1>6
      <4> QED BY <4>1, <3>1, <3>2, <2>4
    <3>3. CASE ~(k <= Len(old))
      <4>1. k \in (from + 1) .. to /\ k - from \in 1 .. Len(cells) /\ Len(old) + (k - from) = k
        BY <3>0, <3>3, <1>1, <1>6, <2>1
      <4>2. all[Len(old) + (k - from)] = cells[k - from]
        BY <4>1, <2>4
      <4>3. new[k] = cells[k - from]
        BY <4>1, <3>1
      <4> QED BY <4>1, <4>2, <4>3
    <3> QED BY <3>2, <3>3
  <2>7. new = all
    BY <2>4, <2>5, <2>6, <1>5, SeqEqual
  <2> QED BY <2>2, <2>7, <2>1, <1>5
<1> QED BY <1>5, <1>6, Zenon DEF IsWritten

\* A file with other cells.
LEMMA CellsTyped ==
  ASSUME NEW f \in FileOf, NEW cells \in Seq(Cell), NEW g, g = [f EXCEPT !.cells = cells]
  PROVE  /\ g \in FileOf /\ g.cells = cells /\ g.player = f.player /\ g.run = f.run
         /\ g.cp = f.cp /\ g.gc = f.gc
BY DEF FileOf

\* A file with other counts.
LEMMA CountsTyped ==
  ASSUME NEW f \in FileOf, NEW a \in Nat, NEW b \in Nat, NEW g,
         g = [f EXCEPT !.cp = a, !.gc = b]
  PROVE  /\ g \in FileOf /\ g.cells = f.cells /\ g.player = f.player /\ g.run = f.run
         /\ g.cp = a /\ g.gc = b
BY DEF FileOf

\* The cells are written to the slot's file.
LEMMA Writing ==
  ASSUME TypeSlots, TypeFiles, NEW s \in Slots, NEW cells \in Seq(Cell), IsOpen(s),
         Write(s, cells), scene' = scene
  PROVE  Written(s, cells, fd[s].inode, fd[s].pos) /\ fd[s].inode \in 1 .. RunsMax
<1> DEFINE i == fd[s].inode
           from == fd[s].pos
           old == file[i].cells
           new == WrittenOver(old, cells, from)
<1>1. /\ fd \in [Slots -> [inode : 0 .. RunsMax, pos : Nat]]
      /\ file \in [1 .. RunsMax -> FileOf]
  BY DEF TypeSlots, TypeFiles
<1>2. i \in 1 .. RunsMax /\ from \in Nat /\ fd[s] \in [inode : 0 .. RunsMax, pos : Nat]
      /\ file[i] \in FileOf
  <2>1. fd[s] \in [inode : 0 .. RunsMax, pos : Nat] /\ i # 0
    BY <1>1 DEF IsOpen
  <2>2. i \in 1 .. RunsMax /\ from \in Nat
    BY <2>1, RecorderAssumption
  <2> QED BY <1>1, <2>1, <2>2
<1>3. old \in Seq(Cell) /\ Len(cells) \in Nat
  BY <1>2, LenProperties DEF FileOf
<1>4. PICK n : n = new
  OBVIOUS
<1>5. n \in Seq(Cell) /\ (from = Len(old) => n = old \o cells /\ Len(n) = from + Len(cells))
  <2>1. n = WrittenOver(old, cells, from)
    BY <1>4
  <2> HIDE DEF new, old, from
  <2>2. IsWritten(n, old, cells, from)
    BY <1>2, <1>3, <2>1, CellsWritten
  <2> QED BY <2>2 DEF IsWritten
<1>6. file' = [file EXCEPT ![i].cells = n]
  BY <1>4 DEF Write, WrittenOver
<1>7. fd' = [fd EXCEPT ![s].pos = from + Len(cells)]
  BY DEF Write
<1>a. PICK g : g = [file[i] EXCEPT !.cells = n]
  OBVIOUS
<1> HIDE DEF new
<1>8. /\ g \in FileOf /\ g.cells = n /\ g.player = file[i].player /\ g.run = file[i].run
      /\ g.cp = file[i].cp /\ g.gc = file[i].gc
  BY <1>2, <1>5, <1>a, CellsTyped
<1>9. file' = [file EXCEPT ![i] = g]
  BY <1>6, <1>a
<1>10. /\ file' \in [1 .. RunsMax -> FileOf] /\ file'[i] = g
       /\ \A j \in 1 .. RunsMax : j # i => file'[j] = file[j]
  BY <1>1, <1>2, <1>8, <1>9
<1>11. /\ fd' \in [Slots -> [inode : 0 .. RunsMax, pos : Nat]]
       /\ fd'[s].inode = i /\ fd'[s].pos = from + Len(cells)
       /\ \A t \in Slots : t # s => fd'[t] = fd[t]
  <2>1. from + Len(cells) \in Nat
    BY <1>2, <1>3
  <2> QED BY <2>1, <1>1, <1>2, <1>7
<1>12. /\ from = Len(old) => fd'[s].pos = Len(file'[i].cells)
       /\ from = Len(old) => file'[i].cells = old \o cells
       /\ file'[i].cells \in Seq(Cell)
  BY <1>5, <1>8, <1>10, <1>11
<1> QED BY <1>2, <1>8, <1>10, <1>11, <1>12 DEF Written

-----------------------------------------------------------------------------
\* The signal that is taken.
Taken(x, type) ==
  /\ x \in SignalOf(scene) /\ FieldsOf(x, scene) /\ x.type = type
  /\ TypeQueue' /\ IsPopped(queue, queue') /\ x = queue[1]

\* What a signal taken by the writer is, and what it leaves alone.
LEMMA Taking ==
  ASSUME TypeInv, Plugin, NEW type, TakeSignal(type), UnchangedGame, NEW x, x = Head(queue)
  PROVE  /\ Taken(x, type) /\ TypeGame' /\ TypeHistory' /\ Plugin' /\ scene' = scene
         /\ TypeSlots /\ TypeFiles /\ UNCHANGED <<run, phase, parked, occupant, noSubmit>>
         /\ UNCHANGED <<runs, frames, captured, runner, refused>>
<1>1. /\ TypeGame /\ TypeHistory /\ TypeQueue /\ TypeSlots /\ TypeFiles
      /\ SlotsKeep /\ ParkedKeep /\ OneSlotEach /\ RunsKnown
  BY DEF TypeInv, Plugin
<1>2. /\ UNCHANGED <<occupant, noSubmit, early, phase, run, parked, scene, runs, frames,
                     captured, runner, refused>>
      /\ queue # <<>> /\ Head(queue).type = type /\ queue' = Tail(queue)
  BY DEF UnchangedGame, TakeSignal, player, plugin, count
<1>3. queue' \in Seq(SignalOf(scene)) /\ IsPopped(queue, queue') /\ queue[1] \in SignalOf(scene)
  BY <1>1, <1>2, Popping DEF TypeQueue
<1>4. x = queue[1]
  BY <1>3 DEF IsPopped
<1>5. FieldsOf(x, scene)
  BY <1>3, <1>4, SignalFields
<1>6. TypeQueue'
  BY <1>2, <1>3 DEF TypeQueue
<1>7. Taken(x, type)
  BY <1>2, <1>3, <1>4, <1>5, <1>6 DEF Taken
<1>8. TypeGame' /\ TypeHistory'
  BY <1>1, <1>2 DEF TypeGame, TypeHistory
<1>9. Plugin'
  BY <1>1, <1>2 DEF Plugin, SlotsKeep, ParkedKeep, OneSlotEach, RunsKnown
<1> QED BY <1>1, <1>2, <1>7, <1>8, <1>9

-----------------------------------------------------------------------------
\* ff is f but for s.
Only(f, ff, S, s) == \A t \in S : t # s => ff[t] = f[t]

\* What the writer leaves alone.
GameStays ==
  /\ UNCHANGED <<run, phase, parked, occupant, noSubmit>>
  /\ UNCHANGED <<scene, runs, frames, captured, runner, refused>>

\* What each signal does to the files.
StartDoes(x) ==
  LET s == x.slot
      p == x.player
      i == IF tmp[p] # 0 THEN tmp[p] ELSE x.run
  IN
  /\ i \in 1 .. RunsMax
  /\ tmp'[p] = i /\ Only(tmp, tmp', Players, p)
  /\ file'[i] = NewFile(p, x.run) /\ Only(file, file', 1 .. RunsMax, i)
  /\ fd'[s] = [inode |-> i, pos |-> 0] /\ Only(fd, fd', Slots, s)
  /\ path'[s] = p /\ Only(path, path', Slots, s)
  /\ keyNext'[s] = TRUE /\ Only(keyNext, keyNext', Slots, s)
  /\ cps'[s] = 0 /\ Only(cps, cps', Slots, s)
  /\ gcs'[s] = 0 /\ Only(gcs, gcs', Slots, s)
  /\ Only(last, last', Slots, s)
  /\ saved' = saved

EventDoes(x) ==
  LET s == x.slot IN
  /\ IF IsOpen(s)
     THEN fd[s].inode \in 1 .. RunsMax
          /\ Written(s, EventCells(EventId(x.event)), fd[s].inode, fd[s].pos)
     ELSE fd' = fd /\ file' = file
  /\ cps'[s] = (IF x.event = "checkpoint" THEN cps[s] + 1 ELSE cps[s])
  /\ gcs'[s] = (IF x.event = "gocheck" THEN gcs[s] + 1 ELSE gcs[s])
  /\ Only(cps, cps', Slots, s) /\ Only(gcs, gcs', Slots, s)
  /\ UNCHANGED <<path, last, keyNext, tmp, saved>>

FrameDoes(x) ==
  LET s == x.slot IN
  /\ IF IsOpen(s)
     THEN /\ fd[s].inode \in 1 .. RunsMax
          /\ Written(s, IF keyNext[s] THEN KeyFrameCells(Content(x.frame))
                        ELSE DeltaCells(Content(x.frame), Content(last[s])),
                     fd[s].inode, fd[s].pos)
          /\ last'[s] = x.frame /\ Only(last, last', Slots, s)
          /\ keyNext'[s] = FALSE /\ Only(keyNext, keyNext', Slots, s)
     ELSE fd' = fd /\ file' = file /\ last' = last /\ keyNext' = keyNext
  /\ UNCHANGED <<path, cps, gcs, tmp, saved>>

\* The header is written and the file is closed.
Closes(s) ==
  LET i == fd[s].inode IN
  /\ i \in 1 .. RunsMax
  /\ file'[i].cells = file[i].cells /\ file'[i].player = file[i].player
  /\ file'[i].run = file[i].run /\ file'[i].cp = cps[s] /\ file'[i].gc = gcs[s]
  /\ Only(file, file', 1 .. RunsMax, i)
  /\ fd'[s] = Closed /\ Only(fd, fd', Slots, s)

PauseDoes(x) ==
  LET s == x.slot IN
  /\ IF IsOpen(s) THEN Closes(s) ELSE fd' = fd /\ file' = file
  /\ UNCHANGED <<path, last, keyNext, cps, gcs, tmp, saved>>

UnpauseDoes(x) ==
  LET s == x.slot
      p == x.player
      i == tmp[p]
  IN
  /\ path'[s] = p /\ Only(path, path', Slots, s)
  /\ keyNext'[s] = TRUE /\ Only(keyNext, keyNext', Slots, s)
  /\ i # 0 => /\ i \in 1 .. RunsMax
              /\ fd'[s] = [inode |-> i, pos |-> Len(file[i].cells)]
              /\ cps'[s] = file[i].cp /\ gcs'[s] = file[i].gc
  /\ i = 0 => fd'[s] = Closed
  /\ Only(fd, fd', Slots, s) /\ Only(cps, cps', Slots, s) /\ Only(gcs, gcs', Slots, s)
  /\ UNCHANGED <<last, file, tmp, saved>>

RejectDoes(x) ==
  LET s == x.slot IN
  /\ fd'[s] = Closed /\ Only(fd, fd', Slots, s)
  /\ IF IsOpen(s) /\ x.delete
     THEN /\ Only(tmp, tmp', Players, path[s])
          /\ path[s] \in Players => tmp'[path[s]] = 0
     ELSE tmp' = tmp
  /\ Only(cps, cps', Slots, s) /\ Only(gcs, gcs', Slots, s)
  /\ UNCHANGED <<path, last, keyNext, file, saved>>

FinishDoes(x) ==
  LET s == x.slot
      i == fd[s].inode
  IN
  /\ IF IsOpen(s)
     THEN /\ Closes(s)
          /\ Only(tmp, tmp', Players, path[s])
          /\ path[s] \in Players => tmp'[path[s]] = 0
          /\ saved' = saved \cup
               {[inode |-> i, run |-> x.run, player |-> x.player,
                 cp |-> cps[s], gc |-> gcs[s], barred |-> x.barred,
                 submit |-> x.submit,
                 submitted |-> x.submit /\ ~noSubmit[s]]}
     ELSE UNCHANGED <<file, tmp, saved, fd>>
  /\ UNCHANGED <<path, last, keyNext, cps, gcs>>

\* A run's file is begun.
LEMMA StartTyped ==
  ASSUME TypeInv, Plugin, Start, NEW x, x = Head(queue)
  PROVE  TypeInv' /\ Plugin' /\ Taken(x, "START") /\ GameStays /\ StartDoes(x)
<1> DEFINE s == x.slot
           p == x.player
           i == IF tmp[p] # 0 THEN tmp[p] ELSE x.run
<1>1. /\ TakeSignal("START") /\ UnchangedGame
      /\ tmp' = [tmp EXCEPT ![p] = i]
      /\ file' = [file EXCEPT ![i] = NewFile(p, x.run)]
      /\ fd' = [fd EXCEPT ![s] = [inode |-> i, pos |-> 0]]
      /\ path' = [path EXCEPT ![s] = p]
      /\ last' = [last EXCEPT ![s] = 0]
      /\ keyNext' = [keyNext EXCEPT ![s] = TRUE]
      /\ cps' = [cps EXCEPT ![s] = 0]
      /\ gcs' = [gcs EXCEPT ![s] = 0]
      /\ saved' = saved
  BY DEF Start
<1>2. /\ Taken(x, "START") /\ TypeGame' /\ TypeHistory' /\ Plugin' /\ scene' = scene
      /\ TypeSlots /\ TypeFiles /\ GameStays
  BY <1>1, Taking DEF GameStays
<1>3. s \in Slots /\ p \in Players /\ x.run \in 1 .. RunsMax /\ x.run \in 0 .. RunsMax /\ TypeQueue'
  BY <1>2 DEF Taken, FieldsOf
<1>4. /\ tmp \in [Players -> 0 .. RunsMax] /\ file \in [1 .. RunsMax -> FileOf]
      /\ fd \in [Slots -> [inode : 0 .. RunsMax, pos : Nat]]
      /\ path \in [Slots -> Players \cup {Nobody}]
      /\ last \in [Slots -> 0 .. scene.frames]
      /\ keyNext \in [Slots -> BOOLEAN]
      /\ cps \in [Slots -> Nat] /\ gcs \in [Slots -> Nat]
      /\ \A r \in saved : r.inode \in 1 .. RunsMax /\ r.run \in 1 .. RunsMax
  BY <1>2 DEF TypeSlots, TypeFiles
<1>5. i \in 1 .. RunsMax /\ i \in 0 .. RunsMax
  <2>1. tmp[p] \in 0 .. RunsMax
    BY <1>3, <1>4
  <2> QED BY <2>1, <1>3, RecorderAssumption
<1>6. 0 \in 0 .. scene.frames
  <2>1. scene.frames \in 0 .. (2 ^ FrameSize - 1)
    BY <1>2, RecorderAssumption DEF TypeHistory
  <2> QED BY <2>1
<1>7. NewFile(p, x.run) \in FileOf
  <2>1. <<>> \in Seq(Cell)
    OBVIOUS
  <2> QED BY <2>1, <1>3 DEF NewFile, FileOf
<1>8. [inode |-> i, pos |-> 0] \in [inode : 0 .. RunsMax, pos : Nat]
  BY <1>5
<1> HIDE DEF i, s, p
<1>a. tmp' \in [Players -> 0 .. RunsMax] /\ tmp'[p] = i /\ Only(tmp, tmp', Players, p)
  BY <1>1, <1>3, <1>4, <1>5 DEF Only
<1>b. file' \in [1 .. RunsMax -> FileOf] /\ file'[i] = NewFile(p, x.run)
      /\ Only(file, file', 1 .. RunsMax, i)
  BY <1>1, <1>4, <1>5, <1>7 DEF Only
<1>c. fd' \in [Slots -> [inode : 0 .. RunsMax, pos : Nat]] /\ fd'[s] = [inode |-> i, pos |-> 0]
      /\ Only(fd, fd', Slots, s)
  BY <1>1, <1>3, <1>4, <1>8 DEF Only
<1>d. path' \in [Slots -> Players \cup {Nobody}] /\ path'[s] = p /\ Only(path, path', Slots, s)
  <2>1. p \in Players \cup {Nobody}
    BY <1>3
  <2> QED BY <1>1, <1>3, <1>4, <2>1 DEF Only
<1>e. last' \in [Slots -> 0 .. scene.frames] /\ Only(last, last', Slots, s)
  BY <1>1, <1>3, <1>4, <1>6 DEF Only
<1>f. keyNext' \in [Slots -> BOOLEAN] /\ keyNext'[s] = TRUE /\ Only(keyNext, keyNext', Slots, s)
  BY <1>1, <1>3, <1>4 DEF Only
<1>g. cps' \in [Slots -> Nat] /\ cps'[s] = 0 /\ Only(cps, cps', Slots, s)
  BY <1>1, <1>3, <1>4 DEF Only
<1>h. gcs' \in [Slots -> Nat] /\ gcs'[s] = 0 /\ Only(gcs, gcs', Slots, s)
  BY <1>1, <1>3, <1>4 DEF Only
<1>9. TypeSlots'
  BY <1>2, <1>c, <1>d, <1>e, <1>f, <1>g, <1>h DEF TypeSlots
<1>10. TypeFiles'
  BY <1>1, <1>4, <1>a, <1>b DEF TypeFiles
<1>11. StartDoes(x)
  BY <1>1, <1>5, <1>a, <1>b, <1>c, <1>d, <1>e, <1>f, <1>g, <1>h DEF StartDoes, s, p, i
<1> QED BY <1>2, <1>3, <1>9, <1>10, <1>11 DEF TypeInv

\* The types of the files and of what is saved, without anything being renamed.
LEMMA FilesTyped ==
  ASSUME TypeFiles, file' \in [1 .. RunsMax -> FileOf], tmp' \in [Players -> 0 .. RunsMax],
         saved' = saved
  PROVE  TypeFiles'
BY DEF TypeFiles

\* An event is written and counted.
LEMMA EventTyped ==
  ASSUME TypeInv, Plugin, Event, NEW x, x = Head(queue)
  PROVE  TypeInv' /\ Plugin' /\ Taken(x, "EVENT") /\ GameStays /\ EventDoes(x)
<1> DEFINE s == x.slot
           cells == EventCells(EventId(x.event))
<1>1. /\ TakeSignal("EVENT") /\ UnchangedGame
      /\ IF IsOpen(s) THEN Write(s, cells) ELSE fd' = fd /\ file' = file
      /\ cps' = [cps EXCEPT ![s] = IF x.event = "checkpoint" THEN cps[s] + 1 ELSE cps[s]]
      /\ gcs' = [gcs EXCEPT ![s] = IF x.event = "gocheck" THEN gcs[s] + 1 ELSE gcs[s]]
      /\ UNCHANGED <<path, last, keyNext, tmp, saved>>
  BY DEF Event
<1>2. /\ Taken(x, "EVENT") /\ TypeGame' /\ TypeHistory' /\ Plugin' /\ scene' = scene
      /\ TypeSlots /\ TypeFiles /\ GameStays
  BY <1>1, Taking DEF GameStays
<1>3. s \in Slots /\ TypeQueue'
  BY <1>2 DEF Taken, FieldsOf
<1>4. cells \in Seq(Cell)
  BY EventIdTyped, ContentTyped, RecordsAreCells
<1> HIDE DEF s, cells
<1>5. IF IsOpen(s) THEN fd[s].inode \in 1 .. RunsMax /\ Written(s, cells, fd[s].inode, fd[s].pos)
      ELSE fd' = fd /\ file' = file
  BY <1>1, <1>2, <1>3, <1>4, Writing
<1>6. fd' \in [Slots -> [inode : 0 .. RunsMax, pos : Nat]] /\ file' \in [1 .. RunsMax -> FileOf]
  BY <1>2, <1>5 DEF Written, TypeSlots, TypeFiles
<1>7. /\ cps \in [Slots -> Nat] /\ gcs \in [Slots -> Nat]
      /\ (IF x.event = "checkpoint" THEN cps[s] + 1 ELSE cps[s]) \in Nat
      /\ (IF x.event = "gocheck" THEN gcs[s] + 1 ELSE gcs[s]) \in Nat
  BY <1>2, <1>3 DEF TypeSlots
<1>8. /\ cps' \in [Slots -> Nat] /\ Only(cps, cps', Slots, s)
      /\ cps'[s] = IF x.event = "checkpoint" THEN cps[s] + 1 ELSE cps[s]
  BY <1>1, <1>3, <1>7 DEF Only
<1>9. /\ gcs' \in [Slots -> Nat] /\ Only(gcs, gcs', Slots, s)
      /\ gcs'[s] = IF x.event = "gocheck" THEN gcs[s] + 1 ELSE gcs[s]
  BY <1>1, <1>3, <1>7 DEF Only
<1>10. TypeSlots'
  BY <1>1, <1>2, <1>6, <1>8, <1>9 DEF TypeSlots
<1>11. TypeFiles'
  BY <1>1, <1>2, <1>6, FilesTyped DEF TypeFiles
<1>12. EventDoes(x)
  BY <1>1, <1>5, <1>8, <1>9 DEF EventDoes, s, cells
<1> QED BY <1>2, <1>3, <1>10, <1>11, <1>12 DEF TypeInv

\* A frame is written.
LEMMA WriteFrameTyped ==
  ASSUME TypeInv, Plugin, WriteFrame, NEW x, x = Head(queue)
  PROVE  TypeInv' /\ Plugin' /\ Taken(x, "FRAME") /\ GameStays /\ FrameDoes(x)
<1> DEFINE s == x.slot
           cells == IF keyNext[s] THEN KeyFrameCells(Content(x.frame))
                    ELSE DeltaCells(Content(x.frame), Content(last[s]))
<1>1. /\ TakeSignal("FRAME") /\ UnchangedGame
      /\ IF IsOpen(s)
         THEN /\ Write(s, cells)
              /\ last' = [last EXCEPT ![s] = x.frame]
              /\ keyNext' = [keyNext EXCEPT ![s] = FALSE]
         ELSE fd' = fd /\ file' = file /\ last' = last /\ keyNext' = keyNext
      /\ UNCHANGED <<path, cps, gcs, tmp, saved>>
  BY DEF WriteFrame
<1>2. /\ Taken(x, "FRAME") /\ TypeGame' /\ TypeHistory' /\ Plugin' /\ scene' = scene
      /\ TypeSlots /\ TypeFiles /\ GameStays
  BY <1>1, Taking DEF GameStays
<1>3. s \in Slots /\ TypeQueue' /\ x.frame \in 0 .. scene.frames
  BY <1>2 DEF Taken, FieldsOf
<1>4. cells \in Seq(Cell)
  BY ContentTyped, RecordsAreCells
<1> HIDE DEF s, cells
<1>5. IF IsOpen(s) THEN fd[s].inode \in 1 .. RunsMax /\ Written(s, cells, fd[s].inode, fd[s].pos)
      ELSE fd' = fd /\ file' = file
  BY <1>1, <1>2, <1>3, <1>4, Writing
<1>6. fd' \in [Slots -> [inode : 0 .. RunsMax, pos : Nat]] /\ file' \in [1 .. RunsMax -> FileOf]
  BY <1>2, <1>5 DEF Written, TypeSlots, TypeFiles
<1>7. last \in [Slots -> 0 .. scene.frames] /\ keyNext \in [Slots -> BOOLEAN]
  BY <1>2 DEF TypeSlots
<1>8. /\ last' \in [Slots -> 0 .. scene.frames] /\ keyNext' \in [Slots -> BOOLEAN]
      /\ IsOpen(s) => /\ last'[s] = x.frame /\ Only(last, last', Slots, s)
                      /\ keyNext'[s] = FALSE /\ Only(keyNext, keyNext', Slots, s)
      /\ ~IsOpen(s) => last' = last /\ keyNext' = keyNext
  <2>1. CASE IsOpen(s)
    <3>1. last' = [last EXCEPT ![s] = x.frame] /\ keyNext' = [keyNext EXCEPT ![s] = FALSE]
      BY <2>1, <1>1
    <3>2. last' \in [Slots -> 0 .. scene.frames] /\ last'[s] = x.frame /\ Only(last, last', Slots, s)
      BY <3>1, <1>3, <1>7 DEF Only
    <3>3. keyNext' \in [Slots -> BOOLEAN] /\ keyNext'[s] = FALSE /\ Only(keyNext, keyNext', Slots, s)
      BY <3>1, <1>3, <1>7 DEF Only
    <3> QED BY <2>1, <3>2, <3>3
  <2>2. CASE ~IsOpen(s)
    BY <2>2, <1>1, <1>7
  <2> QED BY <2>1, <2>2
<1>9. TypeSlots'
  BY <1>1, <1>2, <1>6, <1>8 DEF TypeSlots
<1>10. TypeFiles'
  BY <1>1, <1>2, <1>6, FilesTyped DEF TypeFiles
<1>11. FrameDoes(x)
  BY <1>1, <1>5, <1>8, Zenon DEF FrameDoes, s, cells
<1> QED BY <1>2, <1>3, <1>9, <1>10, <1>11 DEF TypeInv

\* The counts are written and the file is closed.
LEMMA Closing ==
  ASSUME TypeSlots, TypeFiles, NEW s \in Slots, IsOpen(s),
         file' = [file EXCEPT ![fd[s].inode] = [@ EXCEPT !.cp = cps[s], !.gc = gcs[s]]],
         fd' = [fd EXCEPT ![s] = Closed]
  PROVE  /\ Closes(s) /\ file' \in [1 .. RunsMax -> FileOf]
         /\ fd' \in [Slots -> [inode : 0 .. RunsMax, pos : Nat]]
<1> DEFINE i == fd[s].inode
<1>1. /\ fd \in [Slots -> [inode : 0 .. RunsMax, pos : Nat]]
      /\ file \in [1 .. RunsMax -> FileOf] /\ cps \in [Slots -> Nat] /\ gcs \in [Slots -> Nat]
  BY DEF TypeSlots, TypeFiles
<1>2. i \in 1 .. RunsMax
  <2>1. fd[s] \in [inode : 0 .. RunsMax, pos : Nat]
    BY <1>1
  <2>2. i \in 0 .. RunsMax /\ i # 0
    BY <2>1 DEF IsOpen
  <2> QED BY <2>2, RecorderAssumption
<1>3. PICK g : g = [file[i] EXCEPT !.cp = cps[s], !.gc = gcs[s]]
  OBVIOUS
<1>4. /\ g \in FileOf /\ g.cells = file[i].cells /\ g.player = file[i].player
      /\ g.run = file[i].run /\ g.cp = cps[s] /\ g.gc = gcs[s]
  <2>1. file[i] \in FileOf /\ cps[s] \in Nat /\ gcs[s] \in Nat
    BY <1>1, <1>2
  <2> HIDE DEF i
  <2> QED BY <2>1, <1>3 DEF FileOf
<1>5. file' = [file EXCEPT ![i] = g]
  BY <1>3
<1> HIDE DEF i
<1>6. file' \in [1 .. RunsMax -> FileOf] /\ file'[i] = g /\ Only(file, file', 1 .. RunsMax, i)
  BY <1>1, <1>2, <1>4, <1>5 DEF Only
<1>7. Closed \in [inode : 0 .. RunsMax, pos : Nat]
  BY RecorderAssumption DEF Closed
<1>8. /\ fd' \in [Slots -> [inode : 0 .. RunsMax, pos : Nat]] /\ fd'[s] = Closed
      /\ Only(fd, fd', Slots, s)
  BY <1>1, <1>7 DEF Only
<1> QED BY <1>2, <1>4, <1>6, <1>8 DEF Closes, i

\* A pause closes the file.
LEMMA PauseTyped ==
  ASSUME TypeInv, Plugin, Pause, NEW x, x = Head(queue)
  PROVE  TypeInv' /\ Plugin' /\ Taken(x, "PAUSE") /\ GameStays /\ PauseDoes(x)
<1> DEFINE s == x.slot
<1>1. /\ TakeSignal("PAUSE") /\ UnchangedGame
      /\ IF IsOpen(s)
         THEN /\ file' = [file EXCEPT ![fd[s].inode] = [@ EXCEPT !.cp = cps[s], !.gc = gcs[s]]]
              /\ fd' = [fd EXCEPT ![s] = Closed]
         ELSE file' = file /\ fd' = fd
      /\ UNCHANGED <<path, last, keyNext, cps, gcs, tmp, saved>>
  BY DEF Pause
<1>2. /\ Taken(x, "PAUSE") /\ TypeGame' /\ TypeHistory' /\ Plugin' /\ scene' = scene
      /\ TypeSlots /\ TypeFiles /\ GameStays
  BY <1>1, Taking DEF GameStays
<1>3. s \in Slots /\ TypeQueue'
  BY <1>2 DEF Taken, FieldsOf
<1> HIDE DEF s
<1>4. /\ IF IsOpen(s) THEN Closes(s) ELSE fd' = fd /\ file' = file
      /\ file' \in [1 .. RunsMax -> FileOf]
      /\ fd' \in [Slots -> [inode : 0 .. RunsMax, pos : Nat]]
  <2>1. CASE IsOpen(s)
    BY <2>1, <1>1, <1>2, <1>3, Closing
  <2>2. CASE ~IsOpen(s)
    BY <2>2, <1>1, <1>2 DEF TypeSlots, TypeFiles
  <2> QED BY <2>1, <2>2
<1>5. TypeSlots'
  BY <1>1, <1>2, <1>4 DEF TypeSlots
<1>6. TypeFiles'
  BY <1>1, <1>2, <1>4, FilesTyped DEF TypeFiles
<1>7. PauseDoes(x)
  BY <1>1, <1>4 DEF PauseDoes, s
<1> QED BY <1>2, <1>3, <1>5, <1>6, <1>7 DEF TypeInv

\* The player's file is opened again.
LEMMA UnpauseTyped ==
  ASSUME TypeInv, Plugin, Unpause, NEW x, x = Head(queue)
  PROVE  TypeInv' /\ Plugin' /\ Taken(x, "UNPAUSE") /\ GameStays /\ UnpauseDoes(x)
<1> DEFINE s == x.slot
           p == x.player
           i == tmp[p]
<1>1. /\ TakeSignal("UNPAUSE") /\ UnchangedGame
      /\ path' = [path EXCEPT ![s] = p]
      /\ keyNext' = [keyNext EXCEPT ![s] = TRUE]
      /\ IF i # 0
         THEN /\ fd' = [fd EXCEPT ![s] = [inode |-> i, pos |-> Len(file[i].cells)]]
              /\ cps' = [cps EXCEPT ![s] = file[i].cp]
              /\ gcs' = [gcs EXCEPT ![s] = file[i].gc]
         ELSE /\ fd' = [fd EXCEPT ![s] = Closed] /\ cps' = cps /\ gcs' = gcs
      /\ UNCHANGED <<last, file, tmp, saved>>
  BY DEF Unpause
<1>2. /\ Taken(x, "UNPAUSE") /\ TypeGame' /\ TypeHistory' /\ Plugin' /\ scene' = scene
      /\ TypeSlots /\ TypeFiles /\ GameStays
  BY <1>1, Taking DEF GameStays
<1>3. s \in Slots /\ p \in Players /\ TypeQueue'
  BY <1>2 DEF Taken, FieldsOf
<1>4. /\ tmp \in [Players -> 0 .. RunsMax] /\ file \in [1 .. RunsMax -> FileOf]
      /\ fd \in [Slots -> [inode : 0 .. RunsMax, pos : Nat]]
      /\ path \in [Slots -> Players \cup {Nobody}]
      /\ keyNext \in [Slots -> BOOLEAN]
      /\ cps \in [Slots -> Nat] /\ gcs \in [Slots -> Nat]
  BY <1>2 DEF TypeSlots, TypeFiles
<1>5. i # 0 => /\ i \in 1 .. RunsMax /\ i \in 0 .. RunsMax /\ file[i] \in FileOf
               /\ Len(file[i].cells) \in Nat
  <2>1. i \in 0 .. RunsMax
    BY <1>3, <1>4
  <2>2. i # 0 => i \in 1 .. RunsMax
    BY <2>1, RecorderAssumption
  <2>3. i # 0 => file[i] \in FileOf
    BY <2>2, <1>4
  <2>4. i # 0 => file[i].cells \in Seq(Cell)
    BY <2>3 DEF FileOf
  <2> QED BY <2>1, <2>2, <2>3, <2>4, LenProperties
<1>6. Closed \in [inode : 0 .. RunsMax, pos : Nat]
  BY RecorderAssumption DEF Closed
<1> HIDE DEF i, s, p
<1>a. path' \in [Slots -> Players \cup {Nobody}] /\ path'[s] = p /\ Only(path, path', Slots, s)
  BY <1>1, <1>3, <1>4 DEF Only
<1>b. keyNext' \in [Slots -> BOOLEAN] /\ keyNext'[s] = TRUE /\ Only(keyNext, keyNext', Slots, s)
  BY <1>1, <1>3, <1>4 DEF Only
<1>c. /\ fd' \in [Slots -> [inode : 0 .. RunsMax, pos : Nat]] /\ Only(fd, fd', Slots, s)
      /\ cps' \in [Slots -> Nat] /\ Only(cps, cps', Slots, s)
      /\ gcs' \in [Slots -> Nat] /\ Only(gcs, gcs', Slots, s)
      /\ i # 0 => /\ fd'[s] = [inode |-> i, pos |-> Len(file[i].cells)]
                  /\ cps'[s] = file[i].cp /\ gcs'[s] = file[i].gc
      /\ i = 0 => fd'[s] = Closed
  <2>1. CASE i # 0
    <3>1. PICK v : v = [inode |-> i, pos |-> Len(file[i].cells)]
      OBVIOUS
    <3>2. v \in [inode : 0 .. RunsMax, pos : Nat]
      BY <2>1, <3>1, <1>5
    <3>3. fd' = [fd EXCEPT ![s] = v]
      BY <2>1, <3>1, <1>1
    <3>4. fd' \in [Slots -> [inode : 0 .. RunsMax, pos : Nat]] /\ Only(fd, fd', Slots, s) /\ fd'[s] = v
      BY <3>2, <3>3, <1>3, <1>4 DEF Only
    <3>5. file[i].cp \in Nat /\ file[i].gc \in Nat
      BY <2>1, <1>5 DEF FileOf
    <3>6. cps' = [cps EXCEPT ![s] = file[i].cp] /\ gcs' = [gcs EXCEPT ![s] = file[i].gc]
      BY <2>1, <1>1
    <3>7. cps' \in [Slots -> Nat] /\ Only(cps, cps', Slots, s) /\ cps'[s] = file[i].cp
      BY <3>5, <3>6, <1>3, <1>4 DEF Only
    <3>8. gcs' \in [Slots -> Nat] /\ Only(gcs, gcs', Slots, s) /\ gcs'[s] = file[i].gc
      BY <3>5, <3>6, <1>3, <1>4 DEF Only
    <3> QED BY <2>1, <3>1, <3>4, <3>7, <3>8
  <2>2. CASE i = 0
    BY <2>2, <1>1, <1>3, <1>4, <1>6 DEF Only
  <2> QED BY <2>1, <2>2
<1>9. TypeSlots'
  BY <1>1, <1>2, <1>a, <1>b, <1>c DEF TypeSlots
<1>10. TypeFiles'
  BY <1>1, <1>2 DEF TypeFiles
<1>11. UnpauseDoes(x)
  BY <1>1, <1>5, <1>a, <1>b, <1>c DEF UnpauseDoes, s, p, i
<1> QED BY <1>2, <1>3, <1>9, <1>10, <1>11 DEF TypeInv

\* A player's file is forgotten, or renamed.
LEMMA TmpCleared ==
  ASSUME tmp \in [Players -> 0 .. RunsMax], NEW p, tmp' = [tmp EXCEPT ![p] = 0]
  PROVE  /\ tmp' \in [Players -> 0 .. RunsMax] /\ Only(tmp, tmp', Players, p)
         /\ p \in Players => tmp'[p] = 0
<1>1. 0 \in 0 .. RunsMax
  BY RecorderAssumption
<1> QED BY <1>1 DEF Only

\* The file is closed, and forgotten if it is to be deleted.
LEMMA RejectTyped ==
  ASSUME TypeInv, Plugin, Reject, NEW x, x = Head(queue)
  PROVE  TypeInv' /\ Plugin' /\ Taken(x, "REJECT") /\ GameStays /\ RejectDoes(x)
<1> DEFINE s == x.slot
<1>1. /\ TakeSignal("REJECT") /\ UnchangedGame
      /\ fd' = [fd EXCEPT ![s] = Closed]
      /\ tmp' = IF IsOpen(s) /\ x.delete THEN [tmp EXCEPT ![path[s]] = 0] ELSE tmp
      /\ cps' = [cps EXCEPT ![s] = 0]
      /\ gcs' = [gcs EXCEPT ![s] = 0]
      /\ UNCHANGED <<path, last, keyNext, file, saved>>
  BY DEF Reject
<1>2. /\ Taken(x, "REJECT") /\ TypeGame' /\ TypeHistory' /\ Plugin' /\ scene' = scene
      /\ TypeSlots /\ TypeFiles /\ GameStays
  BY <1>1, Taking DEF GameStays
<1>3. s \in Slots /\ TypeQueue'
  BY <1>2 DEF Taken, FieldsOf
<1>4. /\ tmp \in [Players -> 0 .. RunsMax] /\ cps \in [Slots -> Nat] /\ gcs \in [Slots -> Nat]
      /\ fd \in [Slots -> [inode : 0 .. RunsMax, pos : Nat]]
      /\ Closed \in [inode : 0 .. RunsMax, pos : Nat]
  BY <1>2, RecorderAssumption DEF TypeSlots, TypeFiles, Closed
<1> HIDE DEF s
<1>5. /\ fd' \in [Slots -> [inode : 0 .. RunsMax, pos : Nat]] /\ fd'[s] = Closed
      /\ Only(fd, fd', Slots, s)
  BY <1>1, <1>3, <1>4 DEF Only
<1>6. /\ cps' \in [Slots -> Nat] /\ Only(cps, cps', Slots, s)
      /\ gcs' \in [Slots -> Nat] /\ Only(gcs, gcs', Slots, s)
  BY <1>1, <1>3, <1>4 DEF Only
<1>7. /\ tmp' \in [Players -> 0 .. RunsMax]
      /\ IF IsOpen(s) /\ x.delete
         THEN /\ Only(tmp, tmp', Players, path[s])
              /\ path[s] \in Players => tmp'[path[s]] = 0
         ELSE tmp' = tmp
  <2>1. CASE IsOpen(s) /\ x.delete
    <3>1. tmp' = [tmp EXCEPT ![path[s]] = 0]
      BY <2>1, <1>1
    <3> QED BY <2>1, <3>1, <1>4, TmpCleared
  <2>2. CASE ~(IsOpen(s) /\ x.delete)
    BY <2>2, <1>1, <1>4
  <2> QED BY <2>1, <2>2
<1>8. TypeSlots'
  BY <1>1, <1>2, <1>5, <1>6 DEF TypeSlots
<1>9. TypeFiles'
  BY <1>1, <1>2, <1>7 DEF TypeFiles
<1>10. RejectDoes(x)
  BY <1>1, <1>5, <1>6, <1>7, Zenon DEF RejectDoes, s
<1> QED BY <1>2, <1>3, <1>8, <1>9, <1>10 DEF TypeInv

\* The file is closed and renamed.
LEMMA FinishTyped ==
  ASSUME TypeInv, Plugin, Finish, NEW x, x = Head(queue)
  PROVE  TypeInv' /\ Plugin' /\ Taken(x, "FINISH") /\ GameStays /\ FinishDoes(x)
<1> DEFINE s == x.slot
           i == fd[s].inode
           r == [inode |-> i, run |-> x.run, player |-> x.player,
                 cp |-> cps[s], gc |-> gcs[s], barred |-> x.barred,
                 submit |-> x.submit, submitted |-> x.submit /\ ~noSubmit[s]]
<1>1. /\ TakeSignal("FINISH") /\ UnchangedGame
      /\ IsOpen(s) =>
           /\ file' = [file EXCEPT ![fd[s].inode] = [@ EXCEPT !.cp = cps[s], !.gc = gcs[s]]]
           /\ tmp' = [tmp EXCEPT ![path[s]] = 0]
           /\ saved' = saved \cup {r}
           /\ fd' = [fd EXCEPT ![s] = Closed]
      /\ ~IsOpen(s) => UNCHANGED <<file, tmp, saved, fd>>
      /\ UNCHANGED <<path, last, keyNext, cps, gcs>>
  BY DEF Finish
<1>2. /\ Taken(x, "FINISH") /\ TypeGame' /\ TypeHistory' /\ Plugin' /\ scene' = scene
      /\ TypeSlots /\ TypeFiles /\ GameStays
  BY <1>1, Taking DEF GameStays
<1>3. s \in Slots /\ TypeQueue' /\ x.run \in 1 .. RunsMax
  BY <1>2 DEF Taken, FieldsOf
<1>4. /\ tmp \in [Players -> 0 .. RunsMax] /\ file \in [1 .. RunsMax -> FileOf]
      /\ \A q \in saved : q.inode \in 1 .. RunsMax /\ q.run \in 1 .. RunsMax
  BY <1>2 DEF TypeFiles
<1>5. IsOpen(s) => i \in 1 .. RunsMax
  <2>1. fd[s] \in [inode : 0 .. RunsMax, pos : Nat]
    BY <1>2, <1>3 DEF TypeSlots
  <2> QED BY <2>1, RecorderAssumption DEF IsOpen
<1>6. r.inode = i /\ r.run = x.run
  OBVIOUS
<1> HIDE DEF s, i, r
<1>7. /\ file' \in [1 .. RunsMax -> FileOf] /\ tmp' \in [Players -> 0 .. RunsMax]
      /\ fd' \in [Slots -> [inode : 0 .. RunsMax, pos : Nat]]
      /\ IsOpen(s) => /\ Closes(s) /\ Only(tmp, tmp', Players, path[s])
                      /\ path[s] \in Players => tmp'[path[s]] = 0
  <2>1. CASE IsOpen(s)
    <3>1. /\ Closes(s) /\ file' \in [1 .. RunsMax -> FileOf]
          /\ fd' \in [Slots -> [inode : 0 .. RunsMax, pos : Nat]]
      BY <2>1, <1>1, <1>2, <1>3, Closing
    <3>2. /\ tmp' \in [Players -> 0 .. RunsMax] /\ Only(tmp, tmp', Players, path[s])
          /\ path[s] \in Players => tmp'[path[s]] = 0
      <4>1. PICK q : q = path[s]
        OBVIOUS
      <4>2. tmp' = [tmp EXCEPT ![q] = 0]
        BY <2>1, <4>1, <1>1
      <4> QED BY <4>1, <4>2, <1>4, TmpCleared
    <3> QED BY <2>1, <3>1, <3>2
  <2>2. CASE ~IsOpen(s)
    BY <2>2, <1>1, <1>2 DEF TypeSlots, TypeFiles
  <2> QED BY <2>1, <2>2
<1>8. TypeSlots'
  BY <1>1, <1>2, <1>7 DEF TypeSlots
<1>9. TypeFiles'
  <2>1. \A q \in saved' : q.inode \in 1 .. RunsMax /\ q.run \in 1 .. RunsMax
    <3>1. saved' = saved \/ (IsOpen(s) /\ saved' = saved \cup {r})
      BY <1>1
    <3> QED BY <3>1, <1>3, <1>4, <1>5, <1>6
  <2> QED BY <2>1, <1>7 DEF TypeFiles
<1>10. FinishDoes(x)
  BY <1>1, <1>7, Zenon DEF FinishDoes, s, i, r
<1> QED BY <1>2, <1>3, <1>8, <1>9, <1>10 DEF TypeInv

-----------------------------------------------------------------------------
(***************************************************************************)
(* Which run each slot's file is of, now and when the first k signals of   *)
(* the queue will have been dealt with.                                    *)
(***************************************************************************)
Before(x) == IF x.type \in {"START", "UNPAUSE"} THEN 0 ELSE x.run

After(x) == IF x.type \in {"PAUSE", "REJECT", "FINISH"} THEN 0 ELSE x.run

Opened == [s \in Slots |-> IF fd[s].inode = 0 THEN 0 ELSE file[fd[s].inode].run]

OpenAfter(q, op, s, k, r) ==
  \/ \E j \in 1 .. k : /\ q[j].slot = s /\ After(q[j]) = r
                       /\ \A m \in j + 1 .. k : q[m].slot # s
  \/ op[s] = r /\ \A m \in 1 .. k : q[m].slot # s

\* It is one run.
LEMMA OpenIsOne ==
  ASSUME NEW q, NEW op, NEW s, NEW k \in Nat, NEW r, NEW t,
         OpenAfter(q, op, s, k, r), OpenAfter(q, op, s, k, t)
  PROVE  r = t
<1>1. CASE op[s] = r /\ \A m \in 1 .. k : q[m].slot # s
  BY <1>1 DEF OpenAfter
<1>2. ASSUME NEW j \in 1 .. k, q[j].slot = s, After(q[j]) = r,
             \A m \in j + 1 .. k : q[m].slot # s
      PROVE  r = t
  <2>1. PICK i \in 1 .. k : /\ q[i].slot = s /\ After(q[i]) = t
                            /\ \A m \in i + 1 .. k : q[m].slot # s
    BY <1>2 DEF OpenAfter
  <2>2. i = j
    <3>1. ~(i < j)
      <4>1. i < j => j \in i + 1 .. k
        OBVIOUS
      <4> QED BY <4>1, <2>1, <1>2
    <3>2. ~(j < i)
      <4>1. j < i => i \in j + 1 .. k
        OBVIOUS
      <4> QED BY <4>1, <2>1, <1>2
    <3> QED BY <3>1, <3>2
  <2> QED BY <2>1, <2>2, <1>2
<1> QED BY <1>1, <1>2 DEF OpenAfter

\* One more signal at the end of the queue.
LEMMA OpenPushed ==
  ASSUME NEW q, NEW qq, NEW x, IsPushed(q, qq, x), NEW op, NEW s, NEW r
  PROVE  /\ \A k \in 0 .. Len(q) : OpenAfter(qq, op, s, k, r) <=> OpenAfter(q, op, s, k, r)
         /\ s = x.slot => (OpenAfter(qq, op, s, Len(q) + 1, r) <=> r = After(x))
         /\ s # x.slot => (OpenAfter(qq, op, s, Len(q) + 1, r) <=> OpenAfter(q, op, s, Len(q), r))
<1> DEFINE N == Len(q)
<1>1. /\ N \in Nat /\ \A k \in 1 .. N : qq[k] = q[k]
      /\ qq[N + 1] = x
  BY DEF IsPushed
<1> HIDE DEF N
<1>2. ASSUME NEW k \in 0 .. N
      PROVE  OpenAfter(qq, op, s, k, r) <=> OpenAfter(q, op, s, k, r)
  <2>1. \A j \in 1 .. k : qq[j] = q[j] /\ \A m \in j + 1 .. k : qq[m] = q[m]
    BY <1>1
  <2> QED BY <2>1 DEF OpenAfter
<1>3. N + 1 \in 1 .. N + 1 /\ (\A m \in (N + 1) + 1 .. N + 1 : FALSE)
      /\ \A j \in 1 .. N : j \in 1 .. N + 1 /\ N + 1 \in j + 1 .. N + 1
  BY <1>1
<1>4. \A j \in 1 .. N + 1 : j = N + 1 \/ j \in 1 .. N
  BY <1>1
<1>5. ASSUME s = x.slot
      PROVE  OpenAfter(qq, op, s, N + 1, r) <=> r = After(x)
  <2>1. ASSUME OpenAfter(qq, op, s, N + 1, r) PROVE r = After(x)
    <3>1. ~(\A m \in 1 .. N + 1 : qq[m].slot # s)
      BY <1>1, <1>3, <1>5
    <3>2. PICK j \in 1 .. N + 1 : /\ After(qq[j]) = r
                                  /\ \A m \in j + 1 .. N + 1 : qq[m].slot # s
      BY <2>1, <3>1 DEF OpenAfter
    <3>3. j = N + 1
      BY <3>2, <1>1, <1>3, <1>4, <1>5
    <3> QED BY <3>2, <3>3, <1>1
  <2>2. ASSUME r = After(x) PROVE OpenAfter(qq, op, s, N + 1, r)
    BY <2>2, <1>1, <1>3, <1>5 DEF OpenAfter
  <2> QED BY <2>1, <2>2
<1>6. ASSUME s # x.slot
      PROVE  OpenAfter(qq, op, s, N + 1, r) <=> OpenAfter(q, op, s, N, r)
  <2>1. (\A m \in 1 .. N + 1 : qq[m].slot # s) <=> (\A m \in 1 .. N : q[m].slot # s)
    BY <1>1, <1>4, <1>6, <1>3
  <2>2. ASSUME NEW j \in 1 .. N
        PROVE  /\ q[j] = qq[j]
               /\ (\A m \in j + 1 .. N + 1 : qq[m].slot # s) <=> (\A m \in j + 1 .. N : q[m].slot # s)
    <3>1. \A m \in j + 1 .. N + 1 : m = N + 1 \/ m \in j + 1 .. N
      BY <1>1
    <3>2. \A m \in j + 1 .. N : m \in 1 .. N /\ m \in j + 1 .. N + 1
      BY <1>1
    <3> QED BY <3>1, <3>2, <1>1, <1>6
  <2>3. qq[N + 1].slot # s
    BY <1>1, <1>6
  <2> QED BY <2>1, <2>2, <2>3, <1>3, <1>4 DEF OpenAfter
<1> QED BY <1>2, <1>5, <1>6 DEF N

\* One signal less at its front, which has had its effect.
LEMMA OpenPopped ==
  ASSUME NEW q, NEW qq, IsPopped(q, qq), NEW op, NEW new, NEW s, NEW r,
         q[1].slot = s => new[s] = After(q[1]),
         q[1].slot # s => new[s] = op[s]
  PROVE  \A k \in 0 .. Len(q) - 1 : OpenAfter(qq, new, s, k, r) <=> OpenAfter(q, op, s, k + 1, r)
<1> DEFINE N == Len(q)
<1>1. N \in Nat /\ N >= 1 /\ \A k \in 1 .. N - 1 : qq[k] = q[k + 1]
  BY DEF IsPopped
<1> HIDE DEF N
<1> SUFFICES ASSUME NEW k \in 0 .. N - 1
             PROVE  OpenAfter(qq, new, s, k, r) <=> OpenAfter(q, op, s, k + 1, r)
  BY DEF N
<1>2. /\ \A j \in 1 .. k : j + 1 \in 1 .. k + 1 /\ j \in 1 .. N - 1 /\ j + 1 # 1
      /\ \A j \in 1 .. k + 1 : j = 1 \/ (j - 1 \in 1 .. k /\ (j - 1) + 1 = j)
      /\ 1 \in 1 .. k + 1 /\ 1 + 1 = 2 /\ k \in Nat
  BY <1>1
<1>3. \A j \in 1 .. k : qq[j] = q[j + 1]
  BY <1>1, <1>2
<1>4. ASSUME NEW j \in 1 .. k
      PROVE  (\A m \in j + 1 .. k : qq[m].slot # s) <=> (\A m \in (j + 1) + 1 .. k + 1 : q[m].slot # s)
  <2>1. \A m \in j + 1 .. k : m + 1 \in (j + 1) + 1 .. k + 1 /\ m \in 1 .. k
    BY <1>2
  <2>2. \A m \in (j + 1) + 1 .. k + 1 : m - 1 \in j + 1 .. k /\ (m - 1) + 1 = m
    BY <1>2
  <2> QED BY <2>1, <2>2, <1>3
<1>5. (\A m \in 1 .. k : qq[m].slot # s) <=> (\A m \in 2 .. k + 1 : q[m].slot # s)
  <2>1. \A m \in 2 .. k + 1 : m - 1 \in 1 .. k /\ (m - 1) + 1 = m
    BY <1>2
  <2>2. \A m \in 1 .. k : m + 1 \in 2 .. k + 1
    BY <1>2
  <2> QED BY <2>1, <2>2, <1>3
<1>6. (\A m \in 1 .. k + 1 : q[m].slot # s) <=> q[1].slot # s /\ \A m \in 2 .. k + 1 : q[m].slot # s
  <2>1. \A m \in 1 .. k + 1 : m = 1 \/ m \in 2 .. k + 1
    BY <1>2
  <2>2. \A m \in 2 .. k + 1 : m \in 1 .. k + 1
    BY <1>2
  <2> QED BY <2>1, <2>2, <1>2
<1> DEFINE LastIs(j) == /\ q[j].slot = s /\ After(q[j]) = r
                      /\ \A m \in j + 1 .. k + 1 : q[m].slot # s
<1>7. (\E j \in 1 .. k : /\ qq[j].slot = s /\ After(qq[j]) = r
                         /\ \A m \in j + 1 .. k : qq[m].slot # s)
      <=> \E j \in 1 .. k : LastIs(j + 1)
  BY <1>3, <1>4
<1>8. (\E j \in 1 .. k + 1 : LastIs(j)) <=> LastIs(1) \/ \E j \in 1 .. k : LastIs(j + 1)
  <2> HIDE DEF LastIs
  <2>1. ASSUME NEW j \in 1 .. k + 1, LastIs(j) PROVE LastIs(1) \/ \E i \in 1 .. k : LastIs(i + 1)
    BY <2>1, <1>2
  <2>2. ASSUME NEW j \in 1 .. k, LastIs(j + 1) PROVE \E i \in 1 .. k + 1 : LastIs(i)
    BY <2>2, <1>2
  <2> QED BY <2>1, <2>2, <1>2
<1>9. LastIs(1) <=> q[1].slot = s /\ After(q[1]) = r /\ \A m \in 2 .. k + 1 : q[m].slot # s
  BY <1>2
<1>10. OpenAfter(q, op, s, k + 1, r)
       <=> (\E j \in 1 .. k + 1 : LastIs(j)) \/ (op[s] = r /\ \A m \in 1 .. k + 1 : q[m].slot # s)
  BY DEF OpenAfter
<1>11. OpenAfter(qq, new, s, k, r)
       <=> (\E j \in 1 .. k : LastIs(j + 1)) \/ (new[s] = r /\ \A m \in 1 .. k : qq[m].slot # s)
  BY <1>7 DEF OpenAfter
<1> HIDE DEF LastIs
<1> QED BY <1>5, <1>6, <1>8, <1>9, <1>10, <1>11

-----------------------------------------------------------------------------
(***************************************************************************)
(* The runs in progress in the slots; those that are in a slot or parked;  *)
(* those of which a signal is queued, or may be.                           *)
(***************************************************************************)
Current == [s \in Slots |-> Running(s)]

Alive ==
  {r \in 1 .. RunsMax : (\E s \in Slots : run[s] = r) \/ (\E p \in Players : parked[p] = r)}

Mentioned ==
  {r \in 1 .. RunsMax : r \in Alive \/ \E k \in 1 .. Len(queue) : queue[k].run = r}

\* Every player has one.
LEMMA LiveUnique ==
  ASSUME TypeInv, Plugin, NEW r \in Alive, NEW q \in Alive,
         runner[r] = runner[q]
  PROVE  r = q
<1>1. /\ SlotsKeep /\ ParkedKeep /\ OneSlotEach
      /\ run \in [Slots -> 0 .. RunsMax] /\ parked \in [Players -> 0 .. RunsMax]
      /\ occupant \in [Slots -> Players \cup {Nobody}]
      /\ r # 0 /\ q # 0
  BY RecorderAssumption DEF Plugin, TypeInv, TypeGame, Alive
<1>2. \A s \in Slots : run[s] # 0 => /\ occupant[s] \in Players /\ occupant[s] # Nobody
                                     /\ runner[run[s]] = occupant[s] /\ parked[occupant[s]] = 0
  BY <1>1 DEF SlotsKeep
<1>3. \A p \in Players : parked[p] # 0 => runner[parked[p]] = p
  BY <1>1 DEF ParkedKeep
<1>4. ASSUME NEW s \in Slots, NEW t \in Slots, run[s] = r, run[t] = q PROVE r = q
  BY <1>1, <1>2, <1>4 DEF OneSlotEach
<1>5. ASSUME NEW s \in Slots, NEW p \in Players, run[s] = r, parked[p] = q PROVE r = q
  BY <1>1, <1>2, <1>3, <1>5
<1>6. ASSUME NEW s \in Slots, NEW p \in Players, run[s] = q, parked[p] = r PROVE r = q
  BY <1>1, <1>2, <1>3, <1>6
<1>7. ASSUME NEW p \in Players, NEW o \in Players, parked[p] = r, parked[o] = q PROVE r = q
  BY <1>1, <1>3, <1>7
<1> QED BY <1>4, <1>5, <1>6, <1>7 DEF Alive

\* Live runs have been started.
LEMMA LiveKnown ==
  ASSUME TypeInv, Plugin, NEW r \in Alive
  PROVE  r <= runs
BY DEF TypeInv, Plugin, SlotsKeep, ParkedKeep, Alive

-----------------------------------------------------------------------------
(***************************************************************************)
(* The game's steps.  Some signal nothing; the others append a signal.     *)
(***************************************************************************)
Quiet ==
  /\ UNCHANGED <<queue, writer, scene, runs, frames, captured, runner, refused>>
  /\ Current' = Current
  /\ Alive' \subseteq Alive

\* Frames of a run in progress are captured.
Captures(x) ==
  IF x.type = "FRAME"
  THEN /\ frames' = frames + 1 /\ x.frame = frames'
       /\ \A r \in 1 .. RunsMax : r # x.run => captured'[r] = captured[r]
       /\ x.run # 0 => captured'[x.run] = Append(captured[x.run], x.frame)
  ELSE frames' = frames /\ captured' = captured

\* A run is started; or it goes on.
Continues(x) ==
  /\ runs' = runs /\ runner' = runner
  /\ x.run # 0 => x.run \in Alive
  /\ Alive' \subseteq Alive
  /\ x.type \in {"REJECT", "FINISH"} => x.run \notin Alive'

Begins(x) ==
  /\ runs' = runs + 1 /\ x.run = runs'
  /\ \A r \in 1 .. RunsMax : r <= runs => runner'[r] = runner[r]
  /\ Alive' \subseteq Alive \cup {x.run}

Pushed(x) ==
  /\ x \in SignalOf(scene) /\ FieldsOf(x, scene) /\ IsPushed(queue, queue', x)
  /\ UNCHANGED <<writer, scene, refused>>
  /\ Before(x) = Current[x.slot] /\ Current'[x.slot] = After(x)
  /\ Only(Current, Current', Slots, x.slot)
  /\ x.type \in {"START", "UNPAUSE", "FINISH"} => x.player = runner'[x.run]
  /\ Captures(x)
  /\ IF x.type = "START" THEN Begins(x) ELSE Continues(x)

\* A frame.
LEMMA FramePushed ==
  ASSUME TypeInv, Plugin, NEW s \in Slots, Frame(s)
  PROVE  \E x : Pushed(x)
<1> DEFINE x == [type |-> "FRAME", slot |-> s, run |-> Running(s), frame |-> frames + 1]
<1>1. TypeInv' /\ Plugin' /\ IsPushed(queue, queue', x)
  BY FrameTyped
<1>2. /\ frames' = frames + 1
      /\ captured' = IF phase[s] = "running"
                     THEN [captured EXCEPT ![run[s]] = Append(@, frames + 1)]
                     ELSE captured
      /\ UNCHANGED <<occupant, phase, run, parked, writer, scene, runs, runner, refused>>
  BY DEF Frame, player, plugin
<1>3. x.type = "FRAME" /\ x.slot = s /\ x.run = Running(s) /\ x.frame = frames + 1
  OBVIOUS
<1>4. x \in SignalOf(scene)
  <2>1. queue'[Len(queue) + 1] = x /\ Len(queue') = Len(queue) + 1 /\ Len(queue) \in Nat
    BY <1>1 DEF IsPushed
  <2>2. queue' \in Seq(SignalOf(scene))
    BY <1>1, <1>2 DEF TypeInv, TypeQueue
  <2>3. Len(queue) + 1 \in 1 .. Len(queue')
    BY <2>1
  <2> HIDE DEF x
  <2> QED BY <2>1, <2>2, <2>3, ElementOfSeq
<1> HIDE DEF x
<1>5. Current' = Current /\ Current[s] = Running(s) /\ Only(Current, Current', Slots, s)
  BY <1>2 DEF Running, Current, Only
<1>6. Alive' \subseteq Alive
  BY <1>2 DEF Alive
<1>7. /\ Running(s) # 0 => phase[s] = "running" /\ run[s] = Running(s) /\ Running(s) \in Alive
      /\ phase[s] = "running" => run[s] = Running(s)
  <2>1. run[s] \in 0 .. RunsMax
    BY DEF TypeInv, TypeGame
  <2>2. run[s] # 0 => run[s] \in 1 .. RunsMax
    BY <2>1, RecorderAssumption
  <2> QED BY <2>2 DEF Running, Alive
<1>8. captured \in [1 .. RunsMax -> Seq(Nat)] /\ run[s] \in 0 .. RunsMax
  BY DEF TypeInv, TypeHistory, TypeGame
<1>9. Captures(x)
  <2>1. CASE phase[s] = "running"
    <3>1. run[s] # 0 /\ run[s] \in 1 .. RunsMax
      BY <2>1, <1>8, RecorderAssumption DEF Plugin, SlotsKeep
    <3>2. PICK c : c = Append(captured[run[s]], frames + 1)
      OBVIOUS
    <3>3. captured' = [captured EXCEPT ![run[s]] = c]
      BY <2>1, <3>2, <1>2
    <3>4. captured'[run[s]] = c /\ \A r \in 1 .. RunsMax : r # run[s] => captured'[r] = captured[r]
      BY <3>1, <3>3, <1>8
    <3> QED BY <2>1, <3>2, <3>4, <1>2, <1>3, <1>7 DEF Captures
  <2>2. CASE phase[s] # "running"
    <3>1. Running(s) = 0 /\ captured' = captured
      BY <2>2, <1>2 DEF Running
    <3> QED BY <3>1, <1>2, <1>3 DEF Captures
  <2> QED BY <2>1, <2>2
<1>10. Continues(x)
  BY <1>2, <1>3, <1>6, <1>7 DEF Continues
<1>11. Before(x) = Running(s) /\ After(x) = Running(s)
  BY <1>3 DEF Before, After
<1>12. FieldsOf(x, scene)
  BY <1>4, SignalFields
<1>13. Pushed(x)
  BY <1>1, <1>2, <1>3, <1>4, <1>5, <1>9, <1>10, <1>11, <1>12 DEF Pushed
<1> QED BY <1>13

\* What comes of a signal that has been queued.
LEMMA QueuedSignal ==
  ASSUME TypeQueue', scene' = scene, NEW x, IsPushed(queue, queue', x)
  PROVE  x \in SignalOf(scene) /\ FieldsOf(x, scene)
<1>1. queue'[Len(queue) + 1] = x /\ Len(queue') = Len(queue) + 1 /\ Len(queue) \in Nat
  BY DEF IsPushed
<1>2. queue' \in Seq(SignalOf(scene))
  BY DEF TypeQueue
<1>3. Len(queue) + 1 \in 1 .. Len(queue')
  BY <1>1
<1>4. x \in SignalOf(scene)
  BY <1>1, <1>2, <1>3, ElementOfSeq
<1> QED BY <1>4, SignalFields

\* The run in a slot.
LEMMA RunInSlot ==
  ASSUME TypeInv, Plugin, NEW s \in Slots
  PROVE  /\ Current[s] = (IF phase[s] = "running" THEN run[s] ELSE 0)
         /\ run[s] \in 0 .. RunsMax
         /\ run[s] # 0 => /\ run[s] \in 1 .. RunsMax /\ run[s] \in Alive /\ run[s] <= runs
                          /\ runner[run[s]] = occupant[s] /\ occupant[s] \in Players
                          /\ occupant[s] # Nobody /\ parked[occupant[s]] = 0
         /\ phase[s] # "none" <=> run[s] # 0
<1>1. /\ SlotsKeep /\ run[s] \in 0 .. RunsMax /\ occupant[s] \in Players \cup {Nobody}
      /\ phase[s] \in {"none", "running", "paused"}
  BY DEF Plugin, TypeInv, TypeGame
<1>2. Current[s] = (IF phase[s] = "running" THEN run[s] ELSE 0)
  BY DEF Current, Running
<1>3. run[s] # 0 => run[s] \in 1 .. RunsMax
  BY <1>1, RecorderAssumption
<1>4. run[s] # 0 => run[s] \in Alive
  BY <1>3 DEF Alive
<1> QED BY <1>1, <1>2, <1>3, <1>4 DEF SlotsKeep

\* A run starts.
LEMMA StartPushed ==
  ASSUME TypeInv, Plugin, NEW s \in Slots, RunStarted(s)
  PROVE  \E x : Pushed(x)
<1>0. PICK x : x = StartSignal(s)
  OBVIOUS
<1>1. TypeInv' /\ Plugin' /\ IsPushed(queue, queue', x)
  BY <1>0, RunStartedTyped
<1>2. /\ phase[s] = "none" /\ runs < RunsMax /\ runs' = runs + 1
      /\ phase' = [phase EXCEPT ![s] = "running"]
      /\ run' = [run EXCEPT ![s] = runs + 1]
      /\ parked' = [parked EXCEPT ![occupant[s]] = 0]
      /\ runner' = [runner EXCEPT ![runs + 1] = occupant[s]]
      /\ UNCHANGED <<occupant, writer, scene, frames, captured, refused>>
  BY DEF RunStarted, player
<1>3. x.type = "START" /\ x.slot = s /\ x.run = runs + 1 /\ x.player = occupant[s]
  BY <1>0 DEF StartSignal
<1>4. /\ run \in [Slots -> 0 .. RunsMax] /\ parked \in [Players -> 0 .. RunsMax]
      /\ phase \in [Slots -> {"none", "running", "paused"}] /\ runs \in 0 .. RunsMax
      /\ runner \in [1 .. RunsMax -> Players \cup {Nobody}]
  BY DEF TypeInv, TypeGame, TypeHistory
<1>5. runs \in Nat /\ runs + 1 \in 1 .. RunsMax
  BY <1>2, <1>4, RecorderAssumption
<1>6. x \in SignalOf(scene) /\ FieldsOf(x, scene)
  BY <1>1, <1>2, QueuedSignal DEF TypeInv
<1>7. /\ Current[s] = 0 /\ Current'[s] = runs + 1 /\ Only(Current, Current', Slots, s)
  <2>1. phase'[s] = "running" /\ run'[s] = runs + 1
    BY <1>2, <1>4
  <2>2. \A t \in Slots : t # s => phase'[t] = phase[t] /\ run'[t] = run[t]
    BY <1>2, <1>4
  <2> QED BY <2>1, <2>2, <1>2 DEF Current, Running, Only
<1>8. Alive' \subseteq Alive \cup {x.run}
  <2> SUFFICES ASSUME NEW r \in Alive', r # runs + 1 PROVE r \in Alive
    BY <1>3
  <2>1. r \in 1 .. RunsMax /\ r # 0
    BY DEF Alive
  <2>2. \A t \in Slots : run'[t] = r => run[t] = r
    BY <1>2, <1>4
  <2>3. \A p \in Players : parked'[p] = r => parked[p] = r
    BY <2>1, <1>2, <1>4
  <2> QED BY <2>1, <2>2, <2>3 DEF Alive
<1>9. \A r \in 1 .. RunsMax : r <= runs => runner'[r] = runner[r]
  <2>1. \A r \in 1 .. RunsMax : r <= runs => r # runs + 1
    BY <1>5
  <2> QED BY <2>1, <1>2, <1>4
<1>10. runner'[x.run] = x.player
  BY <1>2, <1>3, <1>4, <1>5
<1>11. Begins(x)
  BY <1>2, <1>3, <1>8, <1>9 DEF Begins
<1>12. Captures(x)
  BY <1>2, <1>3 DEF Captures
<1>13. Before(x) = 0 /\ After(x) = runs + 1
  BY <1>3 DEF Before, After
<1> QED BY <1>1, <1>2, <1>3, <1>6, <1>7, <1>10, <1>11, <1>12, <1>13 DEF Pushed

\* A checkpoint or a gocheck.
LEMMA EventPushed ==
  ASSUME TypeInv, Plugin, NEW s \in Slots, NEW ev \in {"checkpoint", "gocheck"}, RunEvent(s, ev)
  PROVE  \E x : Pushed(x)
<1>0. PICK x : x = EventSignal(s, ev)
  OBVIOUS
<1>1. TypeInv' /\ Plugin' /\ IsPushed(queue, queue', x)
  BY <1>0, RunEventTyped
<1>2. phase[s] = "running"
      /\ UNCHANGED <<phase, run, parked, writer, scene, runs, frames, captured, runner, refused>>
  BY DEF RunEvent, plugin
<1>3. x.type = "EVENT" /\ x.slot = s /\ x.run = run[s]
  BY <1>0 DEF EventSignal
<1>4. x \in SignalOf(scene) /\ FieldsOf(x, scene)
  BY <1>1, <1>2, QueuedSignal DEF TypeInv
<1>5. Current' = Current /\ Alive' = Alive /\ Only(Current, Current', Slots, s)
  BY <1>2 DEF Current, Running, Alive, Only
<1>6. Current[s] = run[s] /\ (run[s] # 0 => run[s] \in Alive)
  BY <1>2, RunInSlot
<1>7. Before(x) = run[s] /\ After(x) = run[s]
  BY <1>3 DEF Before, After
<1>8. Continues(x) /\ Captures(x)
  BY <1>2, <1>3, <1>5, <1>6 DEF Continues, Captures
<1> QED BY <1>1, <1>2, <1>3, <1>4, <1>5, <1>6, <1>7, <1>8 DEF Pushed

\* A pause.
LEMMA PausePushed ==
  ASSUME TypeInv, Plugin, NEW s \in Slots, RunPaused(s)
  PROVE  \E x : Pushed(x)
<1>0. PICK x : x = PauseSignal(s)
  OBVIOUS
<1>1. TypeInv' /\ Plugin' /\ IsPushed(queue, queue', x)
  BY <1>0, RunPausedTyped
<1>2. /\ phase[s] = "running" /\ phase' = [phase EXCEPT ![s] = "paused"]
      /\ UNCHANGED <<run, parked, writer, scene, runs, frames, captured, runner, refused>>
  BY DEF RunPaused, count
<1>3. x.type = "PAUSE" /\ x.slot = s /\ x.run = run[s]
  BY <1>0 DEF PauseSignal
<1>4. x \in SignalOf(scene) /\ FieldsOf(x, scene)
  BY <1>1, <1>2, QueuedSignal DEF TypeInv
<1>5. Current'[s] = 0 /\ Alive' = Alive /\ Only(Current, Current', Slots, s)
  <2>1. phase \in [Slots -> {"none", "running", "paused"}]
    BY DEF TypeInv, TypeGame
  <2>2. phase'[s] = "paused" /\ \A t \in Slots : t # s => phase'[t] = phase[t]
    BY <2>1, <1>2
  <2> QED BY <2>2, <1>2 DEF Current, Running, Alive, Only
<1>6. Current[s] = run[s] /\ (run[s] # 0 => run[s] \in Alive)
  BY <1>2, RunInSlot
<1>7. Before(x) = run[s] /\ After(x) = 0
  BY <1>3 DEF Before, After
<1>8. Continues(x) /\ Captures(x)
  BY <1>2, <1>3, <1>5, <1>6 DEF Continues, Captures
<1> QED BY <1>1, <1>2, <1>3, <1>4, <1>5, <1>6, <1>7, <1>8 DEF Pushed

\* The run goes on.
LEMMA UnpausePushed ==
  ASSUME TypeInv, Plugin, NEW s \in Slots, RunUnpaused(s)
  PROVE  \E x : Pushed(x)
<1>0. PICK x : x = UnpauseSignal(s, run'[s])
  OBVIOUS
<1>1. TypeInv' /\ Plugin' /\ IsPushed(queue, queue', x)
  BY <1>0, RunUnpausedTyped
<1>2. /\ occupant[s] # Nobody
      /\ \/ phase[s] = "paused" /\ UNCHANGED <<run, parked>>
         \/ /\ phase[s] = "none" /\ parked[occupant[s]] # 0
            /\ run' = [run EXCEPT ![s] = parked[occupant[s]]]
            /\ parked' = [parked EXCEPT ![occupant[s]] = 0]
      /\ phase' = [phase EXCEPT ![s] = "running"]
      /\ UNCHANGED <<occupant, writer, scene, runs, frames, captured, runner, refused>>
  BY DEF RunUnpaused, count, player
<1>3. x.type = "UNPAUSE" /\ x.slot = s /\ x.run = run'[s] /\ x.player = occupant[s]
  BY <1>0 DEF UnpauseSignal
<1>4. x \in SignalOf(scene) /\ FieldsOf(x, scene)
  BY <1>1, <1>2, QueuedSignal DEF TypeInv
<1>5. /\ phase \in [Slots -> {"none", "running", "paused"}] /\ run \in [Slots -> 0 .. RunsMax]
      /\ parked \in [Players -> 0 .. RunsMax] /\ occupant[s] \in Players
  BY <1>2 DEF TypeInv, TypeGame
<1>6. /\ phase'[s] = "running" /\ phase[s] # "running" /\ run'[s] \in 1 .. RunsMax
      /\ \A t \in Slots : t # s => phase'[t] = phase[t] /\ run'[t] = run[t]
  <2>1. phase'[s] = "running" /\ \A t \in Slots : t # s => phase'[t] = phase[t] /\ run'[t] = run[t]
    BY <1>2, <1>5
  <2>2. run'[s] \in 1 .. RunsMax
    BY <1>3, <1>4 DEF FieldsOf
  <2> QED BY <2>1, <2>2, <1>2
<1>7. run'[s] \in Alive /\ Alive' \subseteq Alive
  <2>1. CASE phase[s] = "paused"
    <3>1. run' = run /\ parked' = parked
      BY <2>1, <1>2
    <3> QED BY <3>1, <1>6 DEF Alive
  <2>2. CASE phase[s] # "paused"
    <3>1. run'[s] = parked[occupant[s]]
      BY <2>2, <1>2, <1>5
    <3>2. \A p \in Players : parked'[p] # 0 => parked'[p] = parked[p]
      BY <2>2, <1>2, <1>5
    <3>3. run'[s] \in Alive
      BY <3>1, <1>5, <1>6 DEF Alive
    <3>4. ASSUME NEW r \in Alive' PROVE r \in Alive
      <4>1. r \in 1 .. RunsMax /\ r # 0
        BY DEF Alive
      <4>2. CASE \E t \in Slots : run'[t] = r
        BY <4>1, <4>2, <3>3, <1>6 DEF Alive
      <4>3. CASE \E p \in Players : parked'[p] = r
        BY <4>1, <4>3, <3>2 DEF Alive
      <4> QED BY <4>2, <4>3 DEF Alive
    <3> QED BY <3>3, <3>4
  <2> QED BY <2>1, <2>2
<1>8. Current'[s] = run'[s] /\ Current[s] = 0 /\ Only(Current, Current', Slots, s)
  BY <1>6 DEF Current, Running, Only
<1>9. Before(x) = 0 /\ After(x) = run'[s]
  BY <1>3 DEF Before, After
<1>10. runner'[x.run] = x.player
  <2>1. TypeInv' /\ Plugin'
    BY <1>1
  <2>2. run'[s] # 0
    BY <1>6, RecorderAssumption
  <2> QED BY <2>1, <2>2, <1>2, <1>3 DEF Plugin, SlotsKeep
<1>11. Continues(x) /\ Captures(x)
  BY <1>2, <1>3, <1>7 DEF Continues, Captures
<1> QED BY <1>1, <1>2, <1>3, <1>4, <1>8, <1>9, <1>10, <1>11 DEF Pushed

\* A run ends.
LEMMA EndPushed ==
  ASSUME TypeInv, Plugin, NEW s \in Slots, NEW x \in SignalOf(scene), RunEnds(s, x),
         x.type \in {"REJECT", "FINISH"}, x.slot = s, x.run = Running(s),
         x.type = "FINISH" => x.player = occupant[s] /\ phase[s] = "running"
  PROVE  refused' \/ Pushed(x)
<1>1. /\ TypeInv' /\ Plugin'
      /\ refused' \/ (refused' = refused /\ IsPushed(queue, queue', x))
  BY RunEndsTyped
<1> SUFFICES ASSUME ~refused' PROVE Pushed(x)
  OBVIOUS
<1>2. /\ phase' = [phase EXCEPT ![s] = "none"] /\ run' = [run EXCEPT ![s] = 0]
      /\ UNCHANGED <<occupant, parked, writer, scene, runs, frames, captured, runner>>
  BY DEF RunEnds, count, player
<1>3. refused' = refused /\ IsPushed(queue, queue', x) /\ FieldsOf(x, scene)
  BY <1>1, SignalFields
<1>4. /\ phase \in [Slots -> {"none", "running", "paused"}] /\ run \in [Slots -> 0 .. RunsMax]
      /\ parked \in [Players -> 0 .. RunsMax] /\ ParkedKeep /\ OneSlotEach
  BY DEF TypeInv, TypeGame, Plugin
<1>5. /\ phase'[s] = "none" /\ run'[s] = 0
      /\ \A t \in Slots : t # s => phase'[t] = phase[t] /\ run'[t] = run[t]
  BY <1>2, <1>4
<1>6. /\ Current'[s] = 0 /\ Current[s] = x.run /\ Only(Current, Current', Slots, s)
      /\ Alive' \subseteq Alive
  <2>1. ASSUME NEW r \in Alive' PROVE r \in Alive
    <3>1. r \in 1 .. RunsMax /\ r # 0
      BY DEF Alive
    <3> QED BY <3>1, <1>2, <1>5 DEF Alive
  <2> QED BY <2>1, <1>5 DEF Current, Running, Only
<1>7. x.run # 0 => /\ x.run = run[s] /\ x.run \in Alive /\ runner[run[s]] = occupant[s]
                   /\ occupant[s] \in Players /\ occupant[s] # Nobody
                   /\ parked[occupant[s]] = 0
  BY RunInSlot DEF Running
<1>8. x.run \notin Alive'
  <2> SUFFICES ASSUME x.run \in Alive' PROVE FALSE
    OBVIOUS
  <2>1. x.run \in 1 .. RunsMax /\ x.run # 0
    BY DEF Alive
  <2>2. PICK a \in Slots : run'[a] = x.run \/ \E p \in Players : parked'[p] = x.run
    BY DEF Alive
  <2>3. ASSUME NEW t \in Slots, run'[t] = x.run PROVE FALSE
    <3>1. t # s /\ run[t] = x.run
      BY <2>1, <2>3, <1>5
    <3>2. runner[run[t]] = occupant[t]
      BY <3>1, <2>1, RunInSlot
    <3> QED BY <3>1, <3>2, <2>1, <1>4, <1>7 DEF OneSlotEach
  <2>4. ASSUME NEW p \in Players, parked'[p] = x.run PROVE FALSE
    <3>1. parked[p] = x.run
      BY <2>4, <1>2
    <3>2. runner[x.run] = p
      BY <3>1, <2>1, <1>4 DEF ParkedKeep
    <3> QED BY <3>1, <3>2, <2>1, <1>7
  <2> QED BY <2>2, <2>3, <2>4
<1>9. Before(x) = x.run /\ After(x) = 0
  BY DEF Before, After
<1>10. Continues(x) /\ Captures(x)
  BY <1>2, <1>6, <1>7, <1>8 DEF Continues, Captures
<1>11. x.type \in {"START", "UNPAUSE", "FINISH"} => x.player = runner'[x.run]
  <2>1. x.type = "FINISH" => phase[s] = "running" /\ run[s] # 0
    BY RunInSlot
  <2> QED BY <2>1, <1>2, <1>7 DEF Running
<1> QED BY <1>2, <1>3, <1>6, <1>9, <1>10, <1>11 DEF Pushed

\* Every step of the game is quiet, or queues a signal, or finds the queue full.
LEMMA GameSteps ==
  ASSUME TypeInv, Plugin, Game
  PROVE  TypeInv' /\ Plugin' /\ (refused' \/ Quiet \/ \E x : Pushed(x))
<1>1. ASSUME NEW s \in Slots, NEW p \in Players, Join(s, p)
      PROVE  TypeInv' /\ Plugin' /\ Quiet
  <2>1. UNCHANGED <<queue, writer, scene, runs, frames, captured, runner, refused, phase, run, parked>>
    BY <1>1 DEF Join, plugin
  <2>2. Quiet
    BY <2>1 DEF Quiet, Current, Running, Alive
  <2> QED BY <2>2, <1>1, JoinTyped
<1>2. ASSUME (\E s \in Slots : BanAnswer(s)) \/ LeaveMap \/ EnterMap
      PROVE  TypeInv' /\ Plugin' /\ Quiet
  <2>1. UNCHANGED <<queue, writer, scene, runs, frames, captured, runner, refused, phase, run, parked>>
    BY <1>2 DEF BanAnswer, LeaveMap, EnterMap, plugin, count
  <2>2. Quiet
    BY <2>1 DEF Quiet, Current, Running, Alive
  <2> QED BY <2>2, <1>2, MapTyped
<1>3. ASSUME NEW s \in Slots, Drop(s)
      PROVE  TypeInv' /\ Plugin' /\ Quiet
  <2>1. /\ UNCHANGED <<queue, writer, scene, runs, frames, captured, runner, refused>>
        /\ phase[s] # "running" /\ occupant[s] # Nobody
        /\ \/ UNCHANGED <<phase, run, parked>>
           \/ /\ phase' = [phase EXCEPT ![s] = "none"] /\ run' = [run EXCEPT ![s] = 0]
              /\ parked' = [parked EXCEPT ![occupant[s]] = run[s]]
    BY <1>3 DEF Drop, plugin
  <2>2. /\ phase \in [Slots -> {"none", "running", "paused"}] /\ run \in [Slots -> 0 .. RunsMax]
        /\ parked \in [Players -> 0 .. RunsMax] /\ occupant[s] \in Players
    BY <2>1 DEF TypeInv, TypeGame
  <2>3. Current' = Current
    <3>1. \A t \in Slots : (IF phase'[t] = "running" THEN run'[t] ELSE 0)
                           = (IF phase[t] = "running" THEN run[t] ELSE 0)
      BY <2>1, <2>2
    <3> QED BY <3>1 DEF Current, Running
  <2>4. Alive' \subseteq Alive
    <3>1. ASSUME NEW r \in Alive' PROVE r \in Alive
      <4>1. r \in 1 .. RunsMax /\ r # 0
        BY DEF Alive
      <4>2. \A t \in Slots : run'[t] = r => run[t] = r
        BY <4>1, <2>1, <2>2
      <4>3. \A p \in Players : parked'[p] = r => parked[p] = r \/ run[s] = r
        BY <4>1, <2>1, <2>2
      <4> QED BY <4>1, <4>2, <4>3 DEF Alive
    <3> QED BY <3>1
  <2>5. Quiet
    BY <2>1, <2>3, <2>4 DEF Quiet
  <2> QED BY <2>5, <1>3, DropTyped
<1>4. ASSUME NEW s \in Slots, Frame(s) PROVE TypeInv' /\ Plugin' /\ \E x : Pushed(x)
  BY <1>4, FrameTyped, FramePushed
<1>5. ASSUME NEW s \in Slots, RunStarted(s) PROVE TypeInv' /\ Plugin' /\ \E x : Pushed(x)
  BY <1>5, RunStartedTyped, StartPushed
<1>6. ASSUME NEW s \in Slots, RunPaused(s) PROVE TypeInv' /\ Plugin' /\ \E x : Pushed(x)
  BY <1>6, RunPausedTyped, PausePushed
<1>7. ASSUME NEW s \in Slots, RunUnpaused(s) PROVE TypeInv' /\ Plugin' /\ \E x : Pushed(x)
  BY <1>7, RunUnpausedTyped, UnpausePushed
<1>8. ASSUME NEW s \in Slots, NEW ev \in {"checkpoint", "gocheck"}, RunEvent(s, ev)
      PROVE  TypeInv' /\ Plugin' /\ \E x : Pushed(x)
  BY <1>8, RunEventTyped, EventPushed
<1>9. ASSUME NEW s \in Slots, NEW b \in BOOLEAN, RunRejected(s, b)
      PROVE  TypeInv' /\ Plugin' /\ (refused' \/ \E x : Pushed(x))
  <2>1. RunEnds(s, RejectSignal(s, b))
    BY <1>9 DEF RunRejected, RejectSignal
  <2>2. RejectSignal(s, b) \in SignalOf(scene)
    BY EndSignals
  <2>3. /\ RejectSignal(s, b).type = "REJECT" /\ RejectSignal(s, b).slot = s
        /\ RejectSignal(s, b).run = Running(s)
    BY DEF RejectSignal
  <2>4. PICK x : x = RejectSignal(s, b)
    OBVIOUS
  <2>5. /\ RunEnds(s, x) /\ x \in SignalOf(scene) /\ x.type \in {"REJECT", "FINISH"}
        /\ x.type # "FINISH" /\ x.slot = s /\ x.run = Running(s)
    BY <2>1, <2>2, <2>3, <2>4
  <2>6. refused' \/ Pushed(x)
    BY <2>5, EndPushed
  <2>7. TypeInv' /\ Plugin'
    BY <2>5, RunEndsTyped
  <2> QED BY <2>6, <2>7
<1>10. ASSUME NEW s \in Slots, NEW b \in BOOLEAN, RunFinished(s, b)
       PROVE  TypeInv' /\ Plugin' /\ (refused' \/ \E x : Pushed(x))
  <2>1. RunEnds(s, FinishSignal(s, b)) /\ phase[s] = "running"
    BY <1>10 DEF RunFinished, FinishSignal
  <2>2. FinishSignal(s, b) \in SignalOf(scene)
    BY <2>1, EndSignals
  <2>3. /\ FinishSignal(s, b).type = "FINISH" /\ FinishSignal(s, b).slot = s
        /\ FinishSignal(s, b).run = Running(s) /\ FinishSignal(s, b).player = occupant[s]
    BY <2>1 DEF FinishSignal, Running
  <2>4. PICK x : x = FinishSignal(s, b)
    OBVIOUS
  <2>5. /\ RunEnds(s, x) /\ x \in SignalOf(scene) /\ x.type \in {"REJECT", "FINISH"}
        /\ x.slot = s /\ x.run = Running(s) /\ x.player = occupant[s]
    BY <2>1, <2>2, <2>3, <2>4
  <2>6. refused' \/ Pushed(x)
    BY <2>1, <2>5, EndPushed
  <2>7. TypeInv' /\ Plugin'
    BY <2>5, RunEndsTyped
  <2> QED BY <2>6, <2>7
<1> QED BY <1>1, <1>2, <1>3, <1>4, <1>5, <1>6, <1>7, <1>8, <1>9, <1>10 DEF Game
=============================================================================
