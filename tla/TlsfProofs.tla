------------------------------ MODULE TlsfProofs ------------------------------
(***************************************************************************)
(* Proofs about the heap: for pools and requests of any size and any       *)
(* sequence of calls, the tags and the free lists describe the same        *)
(* blocks, and the regions that callers hold are long enough and apart.    *)
(***************************************************************************)
EXTENDS Tlsf, TLAPS, WellFoundedInduction, FiniteSetTheorems

-----------------------------------------------------------------------------
(* Numbers. *)
LEMMA LeastOf ==
  ASSUME NEW S \in SUBSET Nat, S # {}
  PROVE  \E m \in S : \A y \in S : m <= y
  <1>1. PICK m \in S : \A y \in S : ~(<<y, m>> \in OpToRel(<, Nat))
    BY WFMin, NatLessThanWellFounded, Zenon
  <1>2. \A y \in S : m <= y
    <2> TAKE y \in S
    <2>1. <<y, m>> \in Nat \X Nat /\ ~(<<y, m>> \in OpToRel(<, Nat))
      BY <1>1
    <2>2. ~(y < m)
      BY <2>1 DEF OpToRel
    <2> QED BY <2>2
  <1> QED BY <1>2

LEMMA AllNumbers ==
  ASSUME NEW S, 0 \in S, \A n \in Nat : n \in S => n + 1 \in S
  PROVE  \A n \in Nat : n \in S
  <1> DEFINE T == {n \in Nat : n \notin S}
  <1>1. ASSUME T # {} PROVE FALSE
    <2>1. T \in SUBSET Nat
      OBVIOUS
    <2>2. PICK m \in T : \A y \in T : m <= y
      BY <1>1, <2>1, LeastOf
    <2>3. m \in Nat /\ m \notin S /\ m # 0
      BY <2>2
    <2>4. m - 1 \in Nat /\ m - 1 \notin T /\ (m - 1) + 1 = m
      BY <2>2, <2>3
    <2>5. m - 1 \in S
      BY <2>4
    <2> QED BY <2>3, <2>4, <2>5
  <1> QED BY <1>1

LEMMA DivMod ==
  ASSUME NEW a \in Nat, NEW q \in Nat \ {0}
  PROVE  /\ a = (q * (a \div q)) + (a % q)
         /\ a % q \in 0 .. q - 1 /\ a \div q \in Nat
  OBVIOUS

LEMMA DivOf ==
  ASSUME NEW a \in Nat, NEW q \in Nat \ {0}, NEW r \in 0 .. q - 1
  PROVE  (q * a + r) \div q = a /\ (q * a + r) % q = r
  OBVIOUS

LEMMA DivGrows ==
  ASSUME NEW a \in Nat, NEW b \in Nat, a <= b, NEW q \in Nat \ {0}
  PROVE  a \div q <= b \div q
  OBVIOUS

LEMMA ModOfProduct ==
  ASSUME NEW a \in Nat, NEW q \in Nat \ {0}
  PROVE  (q * a) % q = 0 /\ (q * a) \div q = a
  <1>1. 0 \in 0 .. q - 1 /\ q * a + 0 = q * a
    OBVIOUS
  <1> QED BY <1>1, DivOf

LEMMA ModSum ==
  ASSUME NEW a \in Nat, NEW b \in Nat, NEW q \in Nat \ {0}, a % q = 0, b % q = 0
  PROVE  (a + b) % q = 0 /\ (a >= b => (a - b) % q = 0)
  <1>1. a = q * (a \div q) /\ b = q * (b \div q) /\ a \div q \in Nat /\ b \div q \in Nat
    BY DivMod
  <1> DEFINE x == a \div q
             y == b \div q
  <1>2. a + b = q * (x + y) /\ x + y \in Nat
    BY <1>1
  <1>3. a >= b => a - b = q * (x - y) /\ x - y \in Nat
    <2>1. SUFFICES ASSUME a >= b PROVE a - b = q * (x - y) /\ x - y \in Nat
      OBVIOUS
    <2>2. x >= y
      BY <2>1, DivGrows
    <2> QED BY <1>1, <2>2
  <1> HIDE DEF x, y
  <1> QED BY <1>2, <1>3, ModOfProduct

(* Multiples that differ do so by the factor at least. *)
LEMMA ModGap ==
  ASSUME NEW a \in Nat, NEW b \in Nat, NEW q \in Nat \ {0}, a % q = 0, b % q = 0, a < b
  PROVE  a + q <= b
  <1>1. a = q * (a \div q) /\ b = q * (b \div q) /\ a \div q \in Nat /\ b \div q \in Nat
    BY DivMod
  <1> DEFINE x == a \div q
             y == b \div q
  <1>2. x < y
    BY <1>1, DivGrows
  <1> HIDE DEF x, y
  <1>3. q * x + q <= q * y
    BY <1>1, <1>2 DEF x, y
  <1> QED BY <1>1, <1>3 DEF x, y

(* Powers of two, from the number of subsets. *)
LEMMA PowerDoubles ==
  ASSUME NEW k \in Nat PROVE 2 ^ (k + 1) = 2 ^ k + 2 ^ k
  <1> DEFINE S == SUBSET (1 .. k)
             T == SUBSET (1 .. k + 1)
             U == {X \cup {k + 1} : X \in S}
  <1>1. IsFiniteSet(1 .. k) /\ Cardinality(1 .. k) = k /\ IsFiniteSet(1 .. k + 1) /\ Cardinality(1 .. k + 1) = k + 1
    <2>1. IsFiniteSet(1 .. k) /\ Cardinality(1 .. k) = IF 1 > k THEN 0 ELSE k - 1 + 1
      BY FS_Interval
    <2>2. IsFiniteSet(1 .. k + 1) /\ Cardinality(1 .. k + 1) = IF 1 > k + 1 THEN 0 ELSE k + 1 - 1 + 1
      BY FS_Interval
    <2> QED BY <2>1, <2>2
  <1>2. IsFiniteSet(S) /\ Cardinality(S) = 2 ^ k /\ IsFiniteSet(T) /\ Cardinality(T) = 2 ^ (k + 1)
    BY <1>1, FS_SUBSET
  <1>3. T = S \cup U
    <2>1. ASSUME NEW X \in T PROVE X \in S \cup U
      <3>1. CASE k + 1 \in X
        <4>1. X \ {k + 1} \in S /\ X = (X \ {k + 1}) \cup {k + 1}
          BY <3>1
        <4> QED BY <4>1
      <3>2. CASE k + 1 \notin X
        BY <3>2
      <3> QED BY <3>1, <3>2
    <2>2. S \subseteq T
      OBVIOUS
    <2>3. U \subseteq T
      <3> SUFFICES ASSUME NEW X \in S PROVE X \cup {k + 1} \in T
        OBVIOUS
      <3>1. X \subseteq 1 .. k + 1 /\ k + 1 \in 1 .. k + 1
        OBVIOUS
      <3> QED BY <3>1
    <2> HIDE DEF S, T, U
    <2> QED BY <2>1, <2>2, <2>3
  <1>4. S \cap U = {}
    OBVIOUS
  <1>5. ExistsBijection(S, U)
    <2> DEFINE f == [X \in S |-> X \cup {k + 1}]
    <2>1. \A X \in S : k + 1 \notin X
      OBVIOUS
    <2>2. \A X, Y \in S : f[X] = f[Y] => X = Y
      BY <2>1
    <2>3. f \in Injection(S, U)
      <3>1. f \in [S -> U]
        OBVIOUS
      <3> HIDE DEF f, U, S
      <3> QED BY <2>2, <3>1 DEF Injection, IsInjective
    <2>4. f \in Surjection(S, U)
      BY DEF Surjection
    <2> QED BY <2>3, <2>4 DEF ExistsBijection, Bijection
  <1>6. IsFiniteSet(U) /\ Cardinality(U) = Cardinality(S)
    <2> HIDE DEF U, S
    <2> QED BY <1>2, <1>5, FS_Bijection
  <1>7. Cardinality(S \cup U) = Cardinality(S) + Cardinality(U) - Cardinality(S \cap U)
    <2> HIDE DEF U, S
    <2> QED BY <1>2, <1>6, FS_Union
  <1>8. Cardinality(S \cap U) = 0
    BY <1>4, FS_EmptySet
  <1>9. Cardinality(S) \in Nat
    BY <1>2, FS_CardinalityType
  <1>10. Cardinality(S \cup U) = Cardinality(S) + Cardinality(S)
    <2> HIDE DEF U, S
    <2> QED BY <1>6, <1>7, <1>8, <1>9
  <1> HIDE DEF S, T, U
  <1> QED BY <1>2, <1>3, <1>10

LEMMA PowerZero == 2 ^ 0 = 1
  <1>1. IsFiniteSet({}) /\ Cardinality({}) = 0
    BY FS_EmptySet
  <1>2. Cardinality(SUBSET {}) = 2 ^ 0
    BY <1>1, FS_SUBSET
  <1>3. SUBSET {} = {{}}
    OBVIOUS
  <1>4. Cardinality({{}}) = 1
    BY FS_Singleton
  <1> QED BY <1>2, <1>3, <1>4

LEMMA PowerIsNat ==
  ASSUME NEW k \in Nat PROVE 2 ^ k \in Nat \ {0}
  <1> DEFINE S == {n \in Nat : 2 ^ n \in Nat \ {0}}
  <1>1. 0 \in S
    BY PowerZero
  <1>2. ASSUME NEW n \in Nat, n \in S PROVE n + 1 \in S
    BY <1>2, PowerDoubles
  <1> HIDE DEF S
  <1>3. k \in S
    BY <1>1, <1>2, AllNumbers
  <1> QED BY <1>3 DEF S

(* 2^(i+d) = 2^i * 2^d. *)
LEMMA PowerSum ==
  ASSUME NEW i \in Nat, NEW d \in Nat
  PROVE  2 ^ (i + d) = 2 ^ i * 2 ^ d
  <1> DEFINE S == {n \in Nat : 2 ^ (i + n) = 2 ^ i * 2 ^ n}
  <1>1. 0 \in S
    <2>1. i + 0 = i /\ 2 ^ i \in Nat
      BY PowerIsNat
    <2> QED BY <2>1, PowerZero
  <1>2. ASSUME NEW n \in Nat, n \in S PROVE n + 1 \in S
    <2> DEFINE x == 2 ^ i
               y == 2 ^ n
    <2>1. x \in Nat /\ y \in Nat
      BY PowerIsNat
    <2>2. i + (n + 1) = (i + n) + 1 /\ i + n \in Nat
      OBVIOUS
    <2>3. 2 ^ ((i + n) + 1) = x * y + x * y
      BY <1>2, <2>2, PowerDoubles
    <2>4. 2 ^ (n + 1) = y + y
      BY PowerDoubles
    <2>5. x * (y + y) = x * y + x * y
      <3> HIDE DEF x, y
      <3> QED BY <2>1
    <2> QED BY <2>2, <2>3, <2>4, <2>5
  <1> HIDE DEF S
  <1>3. d \in S
    BY <1>1, <1>2, AllNumbers
  <1> QED BY <1>3 DEF S

LEMMA PowerGrows ==
  ASSUME NEW i \in Nat, NEW j \in Nat, i < j
  PROVE  2 ^ i + 2 ^ i <= 2 ^ j /\ 2 ^ i < 2 ^ j /\ 2 ^ i \in Nat /\ 2 ^ j \in Nat
  <1> DEFINE d == j - (i + 1)
             x == 2 ^ (i + 1)
             y == 2 ^ d
  <1>1. d \in Nat /\ j = (i + 1) + d /\ i + 1 \in Nat
    OBVIOUS
  <1>2. 2 ^ j = x * y /\ x \in Nat /\ y \in Nat \ {0}
    BY <1>1, PowerSum, PowerIsNat
  <1>3. x = 2 ^ i + 2 ^ i /\ 2 ^ i \in Nat \ {0} /\ 2 ^ j \in Nat
    BY PowerDoubles, PowerIsNat
  <1> HIDE DEF x, y, d
  <1>4. x <= x * y
    BY <1>2
  <1> QED BY <1>2, <1>3, <1>4

(* A smaller power divides a larger one. *)
LEMMA PowerDivides ==
  ASSUME NEW i \in Nat, NEW j \in Nat, i <= j
  PROVE  2 ^ j = 2 ^ i * 2 ^ (j - i) /\ 2 ^ j % 2 ^ i = 0 /\ 2 ^ j \div 2 ^ i = 2 ^ (j - i)
  <1>1. j - i \in Nat /\ j = i + (j - i)
    OBVIOUS
  <1>2. 2 ^ j = 2 ^ i * 2 ^ (j - i)
    BY <1>1, PowerSum
  <1>3. 2 ^ i \in Nat \ {0} /\ 2 ^ (j - i) \in Nat
    BY <1>1, PowerIsNat
  <1> QED BY <1>2, <1>3, ModOfProduct

-----------------------------------------------------------------------------
(* Size classes. *)
Step == SmallBlock \div MaxSli
LEMMA ConstantsAre ==
  /\ Align \in Nat \ {0} /\ MaxSli \in Nat \ {0} /\ SmallBlock \in Nat \ {0} /\ Step \in Nat \ {0}
  /\ SmallBlock = MaxSli * Step /\ Step <= Align /\ LargestSize \in Nat
  /\ FliOffset + 1 \in Nat /\ FliOffset + RealFli \in Nat
  <1>1. Align \in Nat \ {0}
    <2>1. PICK k \in 0 .. 30 : Align = 2 ^ k
      BY MappingAssumption
    <2> QED BY <2>1, PowerIsNat
  <1>2. MaxLog2Sli \in Nat /\ FliOffset + 1 \in Nat /\ FliOffset + RealFli \in Nat
    BY MappingAssumption
  <1>3. MaxSli \in Nat \ {0} /\ SmallBlock \in Nat \ {0} /\ LargestSize \in Nat
    BY <1>2, MappingAssumption, PowerIsNat DEF MaxSli, LargestSize
  <1>4. MaxLog2Sli <= FliOffset + 1 /\ SmallBlock = 2 ^ (FliOffset + 1) /\ SmallBlock \div MaxSli <= Align
    BY MappingAssumption
  <1>5. SmallBlock = MaxSli * 2 ^ ((FliOffset + 1) - MaxLog2Sli) /\ Step = 2 ^ ((FliOffset + 1) - MaxLog2Sli)
    BY <1>2, <1>4, PowerDivides DEF MaxSli, Step
  <1>6. (FliOffset + 1) - MaxLog2Sli \in Nat
    BY <1>2, <1>4
  <1>7. Step \in Nat \ {0}
    BY <1>5, <1>6, PowerIsNat
  <1> QED BY <1>1, <1>2, <1>3, <1>4, <1>5, <1>7 DEF Step

(* The highest bit is what ms_bit says, and no other. *)
LEMMA MsBitIs ==
  ASSUME NEW r \in Nat, r > 0, r < LargestSize
  PROVE  /\ MsBit(r) \in 0 .. FliOffset + RealFli - 1
         /\ 2 ^ MsBit(r) <= r /\ r < 2 ^ (MsBit(r) + 1)
         /\ \A k \in Nat : 2 ^ k <= r /\ r < 2 ^ (k + 1) => k = MsBit(r)
  <1> DEFINE top == FliOffset + RealFli - 1
             S == {k \in Nat : r < 2 ^ (k + 1)}
  <1>1. top \in Nat /\ top + 1 = FliOffset + RealFli /\ top <= 30
    BY MappingAssumption
  <1>2. top \in S
    BY <1>1 DEF LargestSize
  <1>3. PICK k \in S : \A y \in S : k <= y
    <2> HIDE DEF S
    <2>1. S \in SUBSET Nat
      BY DEF S
    <2> QED BY <1>2, <2>1, LeastOf
  <1>4. k \in 0 .. top /\ r < 2 ^ (k + 1)
    BY <1>1, <1>2, <1>3
  <1>5. 2 ^ k <= r
    <2>1. CASE k = 0
      BY <2>1, PowerZero
    <2>2. CASE k # 0
      <3>1. k - 1 \in Nat /\ (k - 1) + 1 = k /\ k - 1 \notin S
        BY <1>3, <2>2
      <3>2. ~(r < 2 ^ k)
        BY <3>1
      <3> QED BY <3>2, PowerIsNat
    <2> QED BY <2>1, <2>2
  <1>6. ASSUME NEW i \in Nat, 2 ^ i <= r, r < 2 ^ (i + 1),
               NEW j \in Nat, 2 ^ j <= r, r < 2 ^ (j + 1)
        PROVE  i = j
    <2>1. ASSUME NEW m \in Nat, NEW n \in Nat, m < n, 2 ^ n <= r, r < 2 ^ (m + 1) PROVE FALSE
      <3>1. m + 1 = n \/ m + 1 < n
        BY <2>1
      <3>2. 2 ^ (m + 1) <= 2 ^ n
        BY <3>1, PowerGrows, PowerIsNat
      <3>3. 2 ^ (m + 1) \in Nat /\ 2 ^ n \in Nat
        BY PowerIsNat
      <3> QED BY <2>1, <3>2, <3>3
    <2>2. ~(i < j) /\ ~(j < i)
      BY <1>6, <2>1
    <2> QED BY <2>2
  <1>7. k \in 0 .. 31 /\ 2 ^ k <= r /\ r < 2 ^ (k + 1)
    BY <1>1, <1>4, <1>5
  <1>8. MsBit(r) \in 0 .. 31 /\ 2 ^ MsBit(r) <= r /\ r < 2 ^ (MsBit(r) + 1)
    BY <1>7 DEF MsBit
  <1>9. MsBit(r) = k
    BY <1>6, <1>7, <1>8
  <1> QED BY <1>4, <1>6, <1>8, <1>9

(* Sizes of SmallBlock and above: the first index is the highest bit, the   *)
(* second one counts steps of t from it.                                    *)
Unit(r) == 2 ^ (MsBit(r) - MaxLog2Sli)
LEMMA LargeIs ==
  ASSUME NEW r \in Nat, SmallBlock <= r, r < LargestSize
  PROVE  /\ MsBit(r) \in FliOffset + 1 .. FliOffset + RealFli - 1
         /\ Unit(r) \in Nat \ {0} /\ 2 ^ MsBit(r) = Unit(r) * MaxSli
         /\ 2 ^ (MsBit(r) + 1) = Unit(r) * (2 * MaxSli)
         /\ 2 ^ MsBit(r) <= r /\ r < 2 ^ (MsBit(r) + 1)
         /\ r \div Unit(r) \in MaxSli .. 2 * MaxSli - 1
         /\ MappingInsert(r) = <<MsBit(r) - FliOffset, (r \div Unit(r)) - MaxSli>>
  <1> DEFINE f == MsBit(r)
             t == Unit(r)
             M == MaxSli
  <1>1. SmallBlock \in Nat \ {0} /\ M \in Nat \ {0}
    BY ConstantsAre
  <1>2. f \in 0 .. FliOffset + RealFli - 1 /\ 2 ^ f <= r /\ r < 2 ^ (f + 1)
    BY <1>1, MsBitIs
  <1>3. f >= FliOffset + 1
    <2>1. SUFFICES ASSUME f + 1 <= FliOffset + 1 PROVE FALSE
      BY <1>2, MappingAssumption
    <2>2. f + 1 \in Nat /\ FliOffset + 1 \in Nat
      BY <1>2, MappingAssumption
    <2>3. 2 ^ (f + 1) <= 2 ^ (FliOffset + 1)
      <3>1. f + 1 = FliOffset + 1 \/ f + 1 < FliOffset + 1
        BY <2>1, <2>2
      <3> QED BY <2>2, <3>1, PowerGrows, PowerIsNat
    <2>4. 2 ^ (f + 1) \in Nat /\ 2 ^ (FliOffset + 1) \in Nat /\ SmallBlock = 2 ^ (FliOffset + 1)
      BY <2>2, PowerIsNat, MappingAssumption
    <2> QED BY <1>2, <2>3, <2>4
  <1>4. f \in Nat /\ MaxLog2Sli \in Nat /\ MaxLog2Sli <= f /\ f - MaxLog2Sli \in Nat
    BY <1>2, <1>3, MappingAssumption
  <1>5. 2 ^ f = M * t /\ t \in Nat \ {0}
    BY <1>4, PowerDivides, PowerIsNat DEF Unit, MaxSli
  <1>6. 2 ^ (f + 1) = 2 ^ f + 2 ^ f
    BY <1>4, PowerDoubles
  <1>7. /\ f = MsBit(r) /\ t = Unit(r) /\ M = MaxSli
        /\ MappingInsert(r) = <<f - FliOffset, (r \div t) - M>>
    BY <1>1 DEF MappingInsert, Unit
  <1> HIDE DEF f, t, M
  <1>8. 2 ^ f = t * M /\ 2 ^ (f + 1) = t * (2 * M)
    BY <1>1, <1>5, <1>6
  <1>9. r \div t \in M .. 2 * M - 1
    <2> DEFINE d == r \div t
    <2>1. r = t * d + (r % t) /\ r % t \in 0 .. t - 1 /\ d \in Nat
      BY <1>5, DivMod
    <2>2. d >= M
      <3>1. (t * M) \div t = M /\ t * M \in Nat
        BY <1>1, <1>5, ModOfProduct
      <3>2. t * M <= r
        BY <1>2, <1>8
      <3> QED BY <1>5, <3>1, <3>2, DivGrows
    <2>3. d < 2 * M
      <3>1. SUFFICES ASSUME d >= 2 * M PROVE FALSE
        BY <1>1, <2>1
      <3> HIDE DEF d
      <3>2. t * d >= t * (2 * M)
        BY <1>1, <1>5, <2>1, <3>1
      <3> QED BY <1>2, <1>8, <2>1, <3>2, <1>1, <1>5
    <2> QED BY <1>1, <2>1, <2>2, <2>3
  <1> QED BY <1>2, <1>3, <1>5, <1>7, <1>8, <1>9, MappingAssumption

LEMMA SmallIs ==
  ASSUME NEW r \in Nat, r < SmallBlock
  PROVE  MappingInsert(r) = <<0, r \div Step>> /\ r \div Step \in 0 .. MaxSli - 1
  <1>1. SmallBlock = Step * MaxSli /\ Step \in Nat \ {0} /\ MaxSli \in Nat \ {0}
    BY ConstantsAre
  <1> DEFINE d == r \div Step
  <1>2. r = Step * d + (r % Step) /\ r % Step \in 0 .. Step - 1 /\ d \in Nat
    BY <1>1, DivMod
  <1>3. d < MaxSli
    <2>1. SUFFICES ASSUME d >= MaxSli PROVE FALSE
      BY <1>1, <1>2
    <2> HIDE DEF d
    <2>2. Step * d >= Step * MaxSli
      BY <1>1, <1>2, <2>1
    <2> QED BY <1>1, <1>2, <2>2
  <1> QED BY <1>1, <1>2, <1>3 DEF MappingInsert, Step

(* Every size below the largest has a list. *)
LEMMA HasClass ==
  ASSUME NEW r \in Nat, r < LargestSize PROVE MappingInsert(r) \in Class
  <1>1. CASE r < SmallBlock
    BY <1>1, SmallIs, MappingAssumption DEF Class
  <1>2. CASE SmallBlock <= r
    BY <1>2, LargeIs, ConstantsAre, MappingAssumption DEF Class
  <1> QED BY <1>1, <1>2, ConstantsAre

(* A larger size is in no earlier list. *)
LEMMA ClassesGrow ==
  ASSUME NEW r \in Nat, NEW s \in Nat, r <= s, s < LargestSize
  PROVE  Before(MappingInsert(r), MappingInsert(s))
  <1>1. SmallBlock \in Nat /\ LargestSize \in Nat /\ Step \in Nat \ {0} /\ MaxSli \in Nat /\ FliOffset \in Nat
    BY ConstantsAre, MappingAssumption
  <1>2. CASE s < SmallBlock
    <2>1. MappingInsert(r) = <<0, r \div Step>> /\ MappingInsert(s) = <<0, s \div Step>>
      BY <1>1, <1>2, SmallIs
    <2>2. r \div Step <= s \div Step
      BY <1>1, DivGrows
    <2> QED BY <2>1, <2>2 DEF Before
  <1>3. CASE r < SmallBlock /\ SmallBlock <= s
    <2>1. MappingInsert(r) = <<0, r \div Step>>
      BY <1>3, SmallIs
    <2>2. MappingInsert(s)[1] > 0
      BY <1>1, <1>3, LargeIs
    <2> QED BY <2>1, <2>2 DEF Before
  <1>4. CASE SmallBlock <= r
    <2> DEFINE f == MsBit(r)
               g == MsBit(s)
    <2>1. /\ f \in Nat /\ Unit(r) \in Nat \ {0} /\ 2 ^ f <= r /\ r < 2 ^ (f + 1)
          /\ MappingInsert(r) = <<f - FliOffset, (r \div Unit(r)) - MaxSli>>
      BY <1>1, <1>4, LargeIs
    <2>2. /\ g \in Nat /\ Unit(s) \in Nat \ {0} /\ 2 ^ g <= s /\ s < 2 ^ (g + 1)
          /\ MappingInsert(s) = <<g - FliOffset, (s \div Unit(s)) - MaxSli>>
      BY <1>1, <1>4, LargeIs
    <2>3. f = g => Unit(r) = Unit(s) /\ r \div Unit(r) <= s \div Unit(s)
      <3>1. f = g => Unit(r) = Unit(s)
        BY DEF Unit
      <3> QED BY <2>1, <3>1, DivGrows
    <2>4. r \div Unit(r) \in Nat /\ s \div Unit(s) \in Nat
      BY <2>1, <2>2, DivMod
    <2> HIDE DEF f, g
    <2>5. f <= g
      <3>1. SUFFICES ASSUME g + 1 <= f PROVE FALSE
        BY <2>1, <2>2
      <3>2. 2 ^ (g + 1) \in Nat /\ 2 ^ f \in Nat
        BY <2>1, <2>2, PowerIsNat
      <3>3. 2 ^ (g + 1) <= 2 ^ f
        <4>1. g + 1 = f \/ g + 1 < f
          BY <2>1, <2>2, <3>1
        <4> QED BY <2>1, <2>2, <3>2, <4>1, PowerGrows
      <3> QED BY <2>1, <2>2, <3>2, <3>3
    <2> QED BY <1>1, <2>1, <2>2, <2>3, <2>4, <2>5 DEF Before
  <1> QED BY <1>1, <1>2, <1>3, <1>4

(* What a request is rounded to. *)
LEMMA SearchIs ==
  ASSUME NEW r \in Nat, r % Align = 0, r < LargestSize, SearchSize(r) < LargestSize
  PROVE  LET m == SearchSize(r)
         IN  /\ m \in Nat /\ m >= r /\ m % Align = 0
             /\ r < SmallBlock => m = r
             /\ SmallBlock <= r => m % Unit(m) = 0
  <1> DEFINE m == SearchSize(r)
  <1>1. SmallBlock \in Nat \ {0} /\ MaxSli \in Nat \ {0} /\ Align \in Nat \ {0}
    BY ConstantsAre
  <1>2. CASE r < SmallBlock
    BY <1>1, <1>2 DEF SearchSize
  <1>3. CASE SmallBlock <= r
    <2> DEFINE f == MsBit(r)
               t == Unit(r)
               x == r + t - 1
               k == x \div t
    <2>1. /\ f \in Nat /\ t \in Nat \ {0} /\ 2 ^ f <= r /\ r < 2 ^ (f + 1)
          /\ 2 ^ (f + 1) = t * (2 * MaxSli) /\ 2 ^ f = t * MaxSli
          /\ f \in FliOffset + 1 .. FliOffset + RealFli - 1
      BY <1>1, <1>3, LargeIs, MappingAssumption
    <2>2. m = x - (x % t) /\ x \in Nat
      BY <1>1, <1>3, <2>1 DEF SearchSize, Unit
    <2>3. x = t * k + (x % t) /\ x % t \in 0 .. t - 1 /\ k \in Nat
      BY <2>1, <2>2, DivMod
    <2>4. t = Unit(r) /\ f = MsBit(r)
      OBVIOUS
    <2>5. x = r + t - 1
      OBVIOUS
    <2> HIDE DEF f, t, x, k
    <2> HIDE DEF m
    <2>6. m = t * k /\ t * k \in Nat
      <3> DEFINE y == t * k
                 e == x % t
      <3>1. y \in Nat
        BY <2>1, <2>3
      <3>2. m = x - e /\ x = y + e /\ e \in 0 .. t - 1
        BY <2>2, <2>3
      <3> HIDE DEF y, e
      <3>3. m = y
        BY <2>1, <3>1, <3>2
      <3> QED BY <3>1, <3>3 DEF y
    <2>7. m \in Nat /\ m >= r /\ m < r + t /\ m % t = 0
      <3>1. m % t = 0
        BY <2>1, <2>3, <2>6, ModOfProduct
      <3> DEFINE e == x % t
      <3>2. m = x - e /\ e \in 0 .. t - 1
        BY <2>2, <2>3
      <3> HIDE DEF e
      <3>3. m >= r /\ m < r + t
        BY <2>1, <2>2, <2>5, <3>2
      <3> QED BY <2>6, <3>1, <3>3
    <2>8. m <= 2 ^ (f + 1) /\ 2 ^ (f + 1) % t = 0 /\ 2 ^ (f + 1) \in Nat
      <3>1. 2 ^ (f + 1) % t = 0 /\ 2 ^ (f + 1) \in Nat
        <4>1. 2 * MaxSli \in Nat /\ f + 1 \in Nat
          BY <1>1, <2>1
        <4> QED BY <2>1, <4>1, ModOfProduct, PowerIsNat
      <3>2. 2 ^ (f + 1) < m => 2 ^ (f + 1) + t <= m
        BY <2>1, <2>7, <3>1, ModGap
      <3> QED BY <2>1, <2>7, <3>1, <3>2
    <2>9. m % Align = 0
      <3>1. PICK a \in 0 .. 30 : Align = 2 ^ a
        BY MappingAssumption
      <3> DEFINE j == f - MaxLog2Sli
      <3>2. t = 2 ^ j /\ j \in Nat
        BY <2>1, <2>4, MappingAssumption DEF Unit
      <3> HIDE DEF j
      <3>3. CASE a <= j
        <4>1. t = Align * 2 ^ (j - a) /\ 2 ^ (j - a) \in Nat
          BY <3>1, <3>2, <3>3, PowerDivides, PowerIsNat
        <4> DEFINE y == 2 ^ (j - a)
        <4> HIDE DEF y
        <4>2. t = Align * y /\ y \in Nat
          BY <4>1 DEF y
        <4>3. m = Align * (y * k) /\ y * k \in Nat
          BY <1>1, <2>3, <2>6, <4>2
        <4> QED BY <1>1, <4>3, ModOfProduct
      <3>4. CASE j <= a
        <4>1. Align = t * 2 ^ (a - j) /\ 2 ^ (a - j) \in Nat
          BY <3>1, <3>2, <3>4, PowerDivides, PowerIsNat
        <4> DEFINE y == 2 ^ (a - j)
                   z == r \div Align
        <4>2. r = Align * z /\ z \in Nat
          <5>1. r = Align * z + (r % Align) /\ z \in Nat
            BY <1>1, DivMod
          <5> HIDE DEF z
          <5>2. Align * z \in Nat
            BY <1>1, <5>1
          <5> QED BY <5>1, <5>2
        <4> HIDE DEF y, z
        <4>3. Align = t * y /\ y \in Nat
          BY <4>1 DEF y
        <4>4. r = t * (y * z) /\ y * z \in Nat
          BY <2>1, <4>2, <4>3
        <4>5. r % t = 0
          BY <2>1, <4>4, ModOfProduct
        <4>6. r < m => r + t <= m
          BY <2>1, <2>7, <4>5, ModGap
        <4>7. m = r
          BY <2>1, <2>7, <4>6
        <4> QED BY <4>7
      <3> QED BY <3>1, <3>2, <3>3, <3>4
    <2>10. m % Unit(m) = 0
      <3>1. m < LargestSize /\ m > 0
        BY <1>1, <1>3, <2>7 DEF m
      <3>2. CASE m < 2 ^ (f + 1)
        <4>1. 2 ^ f <= m
          BY <2>1, <2>7, PowerIsNat
        <4>2. f = MsBit(m)
          BY <2>1, <2>7, <3>1, <3>2, <4>1, MsBitIs
        <4> QED BY <2>4, <2>7, <4>2 DEF Unit
      <3>3. CASE m = 2 ^ (f + 1)
        <4>1. f + 1 \in Nat /\ 2 ^ (f + 1) < 2 ^ ((f + 1) + 1)
          BY <2>1, PowerGrows
        <4>2. f + 1 = MsBit(m)
          BY <2>7, <3>1, <3>3, <4>1, MsBitIs
        <4>3. SmallBlock <= m
          BY <1>1, <1>3, <2>7
        <4>4. m = Unit(m) * MaxSli /\ Unit(m) \in Nat \ {0}
          BY <2>7, <3>1, <3>3, <4>2, <4>3, LargeIs
        <4> QED BY <1>1, <4>4, ModOfProduct
      <3> QED BY <2>7, <2>8, <3>2, <3>3
    <2> QED BY <1>1, <1>3, <2>7, <2>9, <2>10 DEF m
  <1> QED BY <1>1, <1>2, <1>3

(* Every block of the list that a request is sent to, or of a later one, is *)
(* long enough.                                                             *)
LEMMA ClassIsEnough ==
  ASSUME NEW r \in Nat, r % Align = 0, r < LargestSize, SearchSize(r) < LargestSize,
         NEW s \in Nat, s % Align = 0, s < LargestSize, Before(SearchClass(r), MappingInsert(s))
  PROVE  s >= SearchSize(r)
  <1> DEFINE m == SearchSize(r)
  <1>1. /\ SmallBlock \in Nat \ {0} /\ MaxSli \in Nat \ {0} /\ Align \in Nat \ {0} /\ Step \in Nat \ {0}
        /\ Step <= Align /\ FliOffset \in Nat
    BY ConstantsAre, MappingAssumption
  <1>2. m \in Nat /\ m >= r /\ m % Align = 0 /\ m < LargestSize /\ Before(MappingInsert(m), MappingInsert(s))
    BY SearchIs DEF SearchClass
  <1>3. r < SmallBlock => m = r
    BY SearchIs
  <1>4. SmallBlock <= r => m % Unit(m) = 0
    BY SearchIs
  <1> HIDE DEF m
  <1>5. SUFFICES ASSUME s < m PROVE FALSE
    BY <1>2 DEF m
  <1>6. CASE r < SmallBlock
    <2>1. /\ MappingInsert(m) = <<0, m \div Step>> /\ MappingInsert(s) = <<0, s \div Step>>
          /\ m \div Step \in Nat /\ s \div Step \in Nat
      BY <1>1, <1>2, <1>3, <1>5, <1>6, SmallIs
    <2>2. s + Align <= m
      BY <1>1, <1>2, <1>5, ModGap
    <2>3. (s + Step) \div Step <= m \div Step
      <3>1. s + Step <= m /\ s + Step \in Nat
        BY <1>1, <1>2, <2>2
      <3> QED BY <1>1, <1>2, <3>1, DivGrows
    <2>4. (s + Step) \div Step = (s \div Step) + 1
      <3> DEFINE d == s \div Step
                 e == s % Step
      <3>1. s = Step * d + e /\ e \in 0 .. Step - 1 /\ d \in Nat
        BY <1>1, DivMod
      <3> HIDE DEF d, e
      <3>2. s + Step = Step * (d + 1) + e /\ d + 1 \in Nat
        BY <1>1, <3>1
      <3>3. (s + Step) \div Step = d + 1
        <4> DEFINE a == d + 1
        <4>1. a \in Nat /\ s + Step = Step * a + e
          BY <3>2
        <4> HIDE DEF a
        <4>2. (Step * a + e) \div Step = a
          BY <1>1, <3>1, <4>1, DivOf
        <4> QED BY <4>1, <4>2 DEF a
      <3> QED BY <3>3 DEF d
    <2> QED BY <1>2, <2>1, <2>3, <2>4 DEF Before
  <1>7. CASE SmallBlock <= r
    <2> DEFINE f == MsBit(m)
               g == MsBit(s)
               u == Unit(m)
    <2>1. SmallBlock <= m
      BY <1>1, <1>2, <1>7
    <2>2. /\ f \in Nat /\ f > FliOffset /\ u \in Nat \ {0} /\ m < 2 ^ (f + 1)
          /\ MappingInsert(m) = <<f - FliOffset, (m \div u) - MaxSli>>
      BY <1>1, <1>2, <2>1, LargeIs
    <2>3. CASE s < SmallBlock
      <3>1. MappingInsert(s)[1] = 0
        BY <2>3, SmallIs
      <3> QED BY <1>1, <1>2, <2>2, <3>1 DEF Before
    <2>4. CASE SmallBlock <= s
      <3>1. /\ g \in Nat /\ Unit(s) \in Nat \ {0} /\ 2 ^ g <= s
            /\ MappingInsert(s) = <<g - FliOffset, (s \div Unit(s)) - MaxSli>>
        BY <1>1, <2>4, LargeIs
      <3>2. m \div u \in Nat /\ s \div Unit(s) \in Nat
        BY <1>2, <2>2, <3>1, DivMod
      <3>3. f < g \/ (f = g /\ m \div u <= s \div Unit(s))
        <4> HIDE DEF f, g, u
        <4> QED BY <1>1, <1>2, <2>2, <3>1, <3>2 DEF Before
      <3>4. CASE f < g
        <4> HIDE DEF f, g
        <4>1. f + 1 = g \/ f + 1 < g
          BY <2>2, <3>1, <3>4
        <4>2. 2 ^ (f + 1) <= 2 ^ g /\ 2 ^ (f + 1) \in Nat /\ 2 ^ g \in Nat
          BY <2>2, <3>1, <4>1, PowerGrows, PowerIsNat
        <4> QED BY <1>2, <1>5, <2>2, <3>1, <4>2
      <3>5. CASE f = g /\ m \div u <= s \div Unit(s)
        <4>1. Unit(s) = u
          BY <3>5 DEF Unit
        <4>2. m = u * (m \div u) + (m % u) /\ m % u = 0
          BY <1>2, <1>4, <1>7, <2>2, DivMod
        <4>3. s = u * (s \div u) + (s % u) /\ s % u \in 0 .. u - 1
          BY <2>2, DivMod
        <4> DEFINE x == m \div u
                   y == s \div u
        <4>4. x \in Nat /\ y \in Nat /\ x <= y
          BY <3>2, <3>5, <4>1
        <4> HIDE DEF x, y, u
        <4>5. u * x <= u * y
          BY <2>2, <4>4
        <4> QED BY <1>2, <1>5, <2>2, <4>2, <4>3, <4>4, <4>5 DEF x, y
      <3> QED BY <3>3, <3>4, <3>5
    <2> QED BY <1>1, <2>3, <2>4
  <1> QED BY <1>1, <1>6, <1>7

(* Rounding costs less than one part in MaxSli. *)
LEMMA RoundingIsSmall ==
  ASSUME NEW r \in Nat, SmallBlock <= r, r < LargestSize
  PROVE  MaxSli * (SearchSize(r) - r) < r
  <1> DEFINE f == MsBit(r)
             t == Unit(r)
             x == r + t - 1
             e == x % t
             d == SearchSize(r) - r
  <1>1. SmallBlock \in Nat \ {0} /\ MaxSli \in Nat \ {0}
    BY ConstantsAre
  <1>2. f \in Nat /\ t \in Nat \ {0} /\ 2 ^ f <= r /\ 2 ^ f = t * MaxSli
    BY <1>1, LargeIs, MappingAssumption
  <1>3. SearchSize(r) = x - e
    BY <1>1 DEF SearchSize, Unit
  <1>4. e \in 0 .. t - 1
    <2>1. x \in Nat
      BY <1>2
    <2> HIDE DEF t, x
    <2> QED BY <1>2, <2>1, DivMod
  <1>5. x = r + t - 1
    OBVIOUS
  <1> HIDE DEF t, x, e
  <1>6. t - 1 - d \in Nat /\ t = d + 1 + (t - 1 - d) /\ d \in Int
    BY <1>2, <1>3, <1>4, <1>5
  <1> DEFINE k == t - 1 - d
  <1>7. d \in Int /\ k \in Nat /\ t = d + 1 + k
    BY <1>6
  <1> HIDE DEF d, k
  <1>8. t * MaxSli = MaxSli * d + MaxSli + k * MaxSli
    BY <1>1, <1>7
  <1>9. MaxSli * d \in Int /\ k * MaxSli \in Nat /\ t * MaxSli \in Nat
    BY <1>1, <1>2, <1>7
  <1>10. MaxSli * d < r
    BY <1>1, <1>2, <1>8, <1>9
  <1> QED BY <1>10 DEF d

(* A request is rounded up, to a multiple of Align. *)
LEMMA AdjustIs ==
  ASSUME NEW n \in Nat, n + Align <= WordMod
  PROVE  Adjust(n) \in Nat /\ Adjust(n) >= n /\ Adjust(n) >= MinBlock /\ Adjust(n) % Align = 0
         /\ Adjust(n) <= n + Align
  <1>1. Align \in Nat \ {0} /\ WordMod \in Nat
    BY ConstantsAre, MappingAssumption
  <1>2. CASE n < MinBlock
    <2>1. Align % Align = 0
      <3>1. Align * 1 = Align
        BY <1>1
      <3> QED BY <1>1, <3>1, ModOfProduct
    <2> QED BY <1>1, <1>2, <2>1 DEF Adjust, MinBlock
  <1>3. CASE MinBlock <= n
    <2> DEFINE s == n + Align - 1
               k == s \div Align
               e == s % Align
    <2>1. s \in Nat /\ s < WordMod
      BY <1>1
    <2>2. s % WordMod = s
      BY <1>1, <2>1
    <2>3. s = Align * k + e /\ e \in 0 .. Align - 1 /\ k \in Nat
      BY <1>1, <2>1, DivMod
    <2>4. Adjust(n) = s - e
      <3>1. Adjust(n) = RoundUp(n)
        BY <1>1, <1>3 DEF Adjust, MinBlock
      <3>2. RoundUp(n) = (s % WordMod) - ((s % WordMod) % Align)
        BY DEF RoundUp
      <3> QED BY <2>2, <3>1, <3>2
    <2>5. Align <= n
      BY <1>3 DEF MinBlock
    <2>6. s = n + Align - 1
      OBVIOUS
    <2> HIDE DEF s, k, e
    <2>7. Adjust(n) = Align * k /\ Align * k \in Nat
      BY <1>1, <2>3, <2>4
    <2>8. Adjust(n) % Align = 0
      BY <1>1, <2>3, <2>7, ModOfProduct
    <2>9. Adjust(n) >= n /\ Adjust(n) < n + Align
      BY <1>1, <2>3, <2>4, <2>6
    <2> QED BY <1>1, <2>5, <2>7, <2>8, <2>9 DEF MinBlock
  <1> QED BY <1>1, <1>2, <1>3 DEF MinBlock

(* A request is sent to a list whose blocks, like those of all later lists,  *)
(* are long enough for it, though no block that is long enough is in a list *)
(* before its own, and is rounded up by less than one part in MaxSli        *)
(* (tlsf.c:317-349), as long as its list exists.                            *)
THEOREM EveryClassIsGood ==
  ASSUME NEW n \in Nat, n + Align <= WordMod, Adjust(n) < LargestSize, SearchSize(Adjust(n)) < LargestSize,
         NEW s \in Nat, s % Align = 0, s < LargestSize
  PROVE  GoodClass(n, s)
  <1> DEFINE r == Adjust(n)
             m == SearchSize(r)
  <1>1. r \in Nat /\ r >= n /\ r % Align = 0 /\ r < LargestSize
    BY AdjustIs
  <1>2. m \in Nat /\ m >= r /\ m % Align = 0
    BY <1>1, SearchIs
  <1>3. r >= SmallBlock => MaxSli * (m - r) < r
    BY <1>1, RoundingIsSmall
  <1>4. MappingInsert(s) \in Class
    BY HasClass
  <1>5. Before(SearchClass(r), MappingInsert(s)) => s >= m
    BY <1>1, ClassIsEnough
  <1>6. s >= r => Before(MappingInsert(r), MappingInsert(s))
    BY <1>1, ClassesGrow
  <1> HIDE DEF r, m
  <1>7. m >= n
    BY <1>1, <1>2
  <1> QED BY <1>2, <1>3, <1>4, <1>5, <1>6, <1>7 DEF GoodClass, r, m

(* A rounded size is rounded to itself. *)
LEMMA AdjustAgain ==
  ASSUME NEW r \in Nat, r >= MinBlock, r % Align = 0, r + Align <= WordMod
  PROVE  Adjust(r) = r
  <1> DEFINE a == Adjust(r)
  <1>1. Align \in Nat \ {0} /\ WordMod \in Nat
    BY ConstantsAre, MappingAssumption
  <1> DEFINE s == r + Align - 1
             e == s % Align
  <1>2. s \in Nat /\ s < WordMod /\ s % WordMod = s
    BY <1>1
  <1>3. Adjust(r) = s - e /\ e \in 0 .. Align - 1
    BY <1>1, <1>2, DivMod DEF Adjust, RoundUp, MinBlock
  <1>4. a \in Nat /\ a >= r /\ a % Align = 0
    BY AdjustIs
  <1>5. a < r + Align
    BY <1>1, <1>3
  <1> HIDE DEF a
  <1>6. r < a => r + Align <= a
    BY <1>1, <1>4, ModGap
  <1> QED BY <1>1, <1>4, <1>5, <1>6 DEF a

-----------------------------------------------------------------------------
(* Heaps, and what a step does to them field by field. *)
Links == Addr \cup {Null}
Headers == [size : Int, free : BOOLEAN, prevFree : BOOLEAN, prevHdr : Links,
            next : Links, prev : Links]
Heaps == [hdr : [Addr -> Headers], matrix : [Class -> Links], sl : SUBSET Class,
          fl : SUBSET (0 .. RealFli - 1)]

SameTag(h, k, a) ==
  /\ k.hdr[a].size = h.hdr[a].size /\ k.hdr[a].free = h.hdr[a].free
  /\ k.hdr[a].prevFree = h.hdr[a].prevFree /\ k.hdr[a].prevHdr = h.hdr[a].prevHdr
SameTags(h, k) == \A a \in Addr : SameTag(h, k, a)
SameLink(h, k, a) == k.hdr[a].next = h.hdr[a].next /\ k.hdr[a].prev = h.hdr[a].prev
SameLists(h, k) ==
  /\ k.matrix = h.matrix /\ k.sl = h.sl /\ k.fl = h.fl
  /\ \A a \in Addr : SameLink(h, k, a)

LEMMA SetsPrev ==
  ASSUME NEW h \in Heaps, NEW b \in Addr, NEW p \in Links
  PROVE  LET k == [h EXCEPT !.hdr[b].prev = p]
         IN  /\ k \in Heaps /\ SameTags(h, k)
             /\ k.matrix = h.matrix /\ k.sl = h.sl /\ k.fl = h.fl
             /\ \A a \in Addr : /\ k.hdr[a].next = h.hdr[a].next
                                /\ k.hdr[a].prev = IF a = b THEN p ELSE h.hdr[a].prev
  BY DEF Heaps, Headers, SameTags, SameTag

LEMMA SetsNext ==
  ASSUME NEW h \in Heaps, NEW b \in Addr, NEW n \in Links
  PROVE  LET k == [h EXCEPT !.hdr[b].next = n]
         IN  /\ k \in Heaps /\ SameTags(h, k)
             /\ k.matrix = h.matrix /\ k.sl = h.sl /\ k.fl = h.fl
             /\ \A a \in Addr : /\ k.hdr[a].prev = h.hdr[a].prev
                                /\ k.hdr[a].next = IF a = b THEN n ELSE h.hdr[a].next
  BY DEF Heaps, Headers, SameTags, SameTag

LEMMA SetsFirst ==
  ASSUME NEW h \in Heaps, NEW c \in Class, NEW n \in Links
  PROVE  LET k == [h EXCEPT !.matrix[c] = n]
         IN  /\ k \in Heaps /\ k.hdr = h.hdr /\ k.sl = h.sl /\ k.fl = h.fl
             /\ \A d \in Class : k.matrix[d] = IF d = c THEN n ELSE h.matrix[d]
  BY DEF Heaps

LEMMA SetsLink ==
  ASSUME NEW h \in Heaps, NEW b \in Addr, NEW n \in Links, NEW p \in Links
  PROVE  LET k == SetLink(h, b, n, p)
         IN  /\ k \in Heaps /\ SameTags(h, k)
             /\ k.matrix = h.matrix /\ k.sl = h.sl /\ k.fl = h.fl
             /\ \A a \in Addr : /\ k.hdr[a].next = IF a = b THEN n ELSE h.hdr[a].next
                                /\ k.hdr[a].prev = IF a = b THEN p ELSE h.hdr[a].prev
  <1> DEFINE k1 == [h EXCEPT !.hdr[b].next = n]
             k2 == [k1 EXCEPT !.hdr[b].prev = p]
  <1>1. k1 \in Heaps /\ SameTags(h, k1) /\ k1.matrix = h.matrix /\ k1.sl = h.sl /\ k1.fl = h.fl
    BY SetsNext
  <1>2. \A a \in Addr : /\ k1.hdr[a].prev = h.hdr[a].prev
                        /\ k1.hdr[a].next = IF a = b THEN n ELSE h.hdr[a].next
    BY SetsNext
  <1>3. SetLink(h, b, n, p) = k2
    BY DEF SetLink
  <1> HIDE DEF k1
  <1>4. k2 \in Heaps /\ SameTags(k1, k2) /\ k2.matrix = k1.matrix /\ k2.sl = k1.sl /\ k2.fl = k1.fl
    BY <1>1, SetsPrev
  <1>5. \A a \in Addr : /\ k2.hdr[a].next = k1.hdr[a].next
                        /\ k2.hdr[a].prev = IF a = b THEN p ELSE k1.hdr[a].prev
    BY <1>1, SetsPrev
  <1> HIDE DEF k2
  <1>6. SameTags(h, k2)
    BY <1>1, <1>4 DEF SameTags, SameTag
  <1>7. \A a \in Addr : /\ k2.hdr[a].next = IF a = b THEN n ELSE h.hdr[a].next
                        /\ k2.hdr[a].prev = IF a = b THEN p ELSE h.hdr[a].prev
    BY <1>2, <1>5
  <1> QED BY <1>1, <1>3, <1>4, <1>6, <1>7

LEMMA ClearsBits ==
  ASSUME NEW h \in Heaps, NEW c \in Class, h.fl = {d[1] : d \in h.sl}
  PROVE  LET k == ClearBits(h, c)
         IN  /\ k \in Heaps /\ k.hdr = h.hdr /\ k.matrix = h.matrix
             /\ k.sl = h.sl \ {c} /\ k.fl = {d[1] : d \in k.sl}
  <1> DEFINE k == ClearBits(h, c)
  <1>1. k.hdr = h.hdr /\ k.matrix = h.matrix /\ k.sl = h.sl \ {c}
    BY DEF Heaps, ClearBits
  <1>2. k.fl = IF \E d \in h.sl \ {c} : d[1] = c[1] THEN h.fl ELSE h.fl \ {c[1]}
    BY DEF Heaps, ClearBits
  <1>3. k \in Heaps
    BY DEF Heaps, ClearBits
  <1> HIDE DEF k
  <1>4. k.fl = {d[1] : d \in h.sl \ {c}}
    BY <1>2
  <1> QED BY <1>1, <1>3, <1>4 DEF k

(* Replaces one header. *)
LEMMA SetsHeader ==
  ASSUME NEW h \in Heaps, NEW b \in Addr, NEW r \in Headers
  PROVE  LET k == [h EXCEPT !.hdr[b] = r]
         IN  /\ k \in Heaps /\ k.matrix = h.matrix /\ k.sl = h.sl /\ k.fl = h.fl
             /\ \A a \in Addr : k.hdr[a] = IF a = b THEN r ELSE h.hdr[a]
  BY DEF Heaps

-----------------------------------------------------------------------------
(* The free lists of a heap hold the blocks of F; rank counts along a list. *)
ClassOf(h, b) == MappingInsert(h.hdr[b].size)
Ranked(h, F, rank) ==
  /\ F \subseteq Addr
  /\ rank \in [F -> Nat]
  /\ \A b \in F : ClassOf(h, b) \in Class /\ h.matrix[ClassOf(h, b)] # Null
  /\ \A c \in Class : h.matrix[c] # Null =>
       /\ h.matrix[c] \in F /\ ClassOf(h, h.matrix[c]) = c
       /\ h.hdr[h.matrix[c]].prev = Null
  /\ \A b \in F : h.hdr[b].next # Null =>
       /\ h.hdr[b].next \in F /\ ClassOf(h, h.hdr[b].next) = ClassOf(h, b)
       /\ h.hdr[h.hdr[b].next].prev = b /\ rank[b] < rank[h.hdr[b].next]
  /\ \A b \in F : b # h.matrix[ClassOf(h, b)] =>
       /\ h.hdr[b].prev \in F /\ ClassOf(h, h.hdr[b].prev) = ClassOf(h, b)
       /\ h.hdr[h.hdr[b].prev].next = b
  /\ \A a \in Addr \ F : h.hdr[a].next = Null /\ h.hdr[a].prev = Null
  /\ h.sl = {c \in Class : h.matrix[c] # Null}
  /\ h.fl = {c[1] : c \in h.sl}
Lists(h, F) == \E rank : Ranked(h, F, rank)

LEMMA NullIsNone == Null \notin Addr
  BY DEF Null, Addr

(* The only block of a list is its first and last. *)
LEMMA OnlyBlock ==
  ASSUME NEW h \in Heaps, NEW F, NEW rank, Ranked(h, F, rank),
         NEW b \in F, h.hdr[b].next = Null, h.matrix[ClassOf(h, b)] = b
  PROVE  \A a \in F : ClassOf(h, a) = ClassOf(h, b) => a = b
  <1> DEFINE c == ClassOf(h, b)
             O == {a \in F : ClassOf(h, a) = c /\ a # b}
             R == {rank[a] : a \in O}
  <1>1. SUFFICES ASSUME O # {} PROVE FALSE
    OBVIOUS
  <1>2. R \in SUBSET Nat /\ R # {}
    BY <1>1 DEF Ranked
  <1>3. PICK m \in R : \A y \in R : m <= y
    <2> HIDE DEF R
    <2> QED BY <1>2, LeastOf
  <1>4. PICK a \in O : m = rank[a]
    BY <1>3
  <1> DEFINE p == h.hdr[a].prev
  <1>5. p \in F /\ ClassOf(h, p) = c /\ h.hdr[p].next = a
    BY <1>4 DEF Ranked
  <1>6. a # Null /\ a \in F
    BY <1>4, NullIsNone DEF Ranked
  <1>7. p # b
    BY <1>5, <1>6
  <1>8. rank[p] < rank[a] /\ rank[p] \in Nat /\ rank[a] \in Nat
    BY <1>5, <1>6 DEF Ranked
  <1>9. rank[p] \in R
    BY <1>5, <1>7
  <1> HIDE DEF O, R, p
  <1> QED BY <1>3, <1>4, <1>8, <1>9

(* What unlinking b does to the fields, in either of the two forms. *)
Unlinked(h, k, b) ==
  LET n == h.hdr[b].next
      p == h.hdr[b].prev
      c == ClassOf(h, b)
  IN  /\ k \in Heaps /\ SameTags(h, k)
      /\ \A a \in Addr :
           /\ k.hdr[a].next = IF a = b THEN Null ELSE IF a = p THEN n ELSE h.hdr[a].next
           /\ k.hdr[a].prev = IF a = b THEN Null ELSE IF a = n THEN p ELSE h.hdr[a].prev
      /\ \A d \in Class : k.matrix[d] = IF d = c /\ h.matrix[c] = b THEN n ELSE h.matrix[d]
      /\ k.sl = IF h.matrix[c] = b /\ n = Null THEN h.sl \ {c} ELSE h.sl
      /\ k.fl = {d[1] : d \in k.sl}

LEMMA ExtractUnlinks ==
  ASSUME NEW h \in Heaps, NEW F, NEW rank, Ranked(h, F, rank), NEW b \in F
  PROVE  Unlinked(h, Extract(h, b, ClassOf(h, b)), b)
  <1> DEFINE c == ClassOf(h, b)
             n == h.hdr[b].next
             p == h.hdr[b].prev
             h1 == IF n = Null THEN h ELSE [h EXCEPT !.hdr[n].prev = p]
             h2 == IF p = Null THEN h1 ELSE [h1 EXCEPT !.hdr[p].next = n]
             h3 == IF h2.matrix[c] # b THEN h2 ELSE [h2 EXCEPT !.matrix[c] = n]
             h4 == IF h2.matrix[c] = b /\ n = Null THEN ClearBits(h3, c) ELSE h3
             k == SetLink(h4, b, Null, Null)
  <1>0. Extract(h, b, c) = k
    BY DEF Extract
  <1>1. b \in Addr /\ n \in Links /\ p \in Links /\ c \in Class /\ Null \in Links /\ h.fl = {d[1] : d \in h.sl}
    BY DEF Ranked, Heaps, Headers, Links
  <1>2. (n # Null => n \in Addr) /\ (p # Null => p \in Addr)
    BY <1>1 DEF Links
  <1>3. c = ClassOf(h, b) /\ n = h.hdr[b].next /\ p = h.hdr[b].prev
    OBVIOUS
  <1> HIDE DEF c, n, p
  <1>4. /\ h1 \in Heaps /\ SameTags(h, h1) /\ h1.matrix = h.matrix /\ h1.sl = h.sl /\ h1.fl = h.fl
        /\ \A a \in Addr : /\ h1.hdr[a].next = h.hdr[a].next
                           /\ h1.hdr[a].prev = IF a = n THEN p ELSE h.hdr[a].prev
    <2>1. CASE n = Null
      BY <2>1, NullIsNone DEF SameTags, SameTag
    <2>2. CASE n # Null
      BY <1>1, <1>2, <2>2, SetsPrev
    <2> QED BY <2>1, <2>2
  <1> HIDE DEF h1
  <1>5. /\ h2 \in Heaps /\ SameTags(h1, h2) /\ h2.matrix = h1.matrix /\ h2.sl = h1.sl /\ h2.fl = h1.fl
        /\ \A a \in Addr : /\ h2.hdr[a].prev = h1.hdr[a].prev
                           /\ h2.hdr[a].next = IF a = p THEN n ELSE h1.hdr[a].next
    <2>1. CASE p = Null
      BY <1>4, <2>1, NullIsNone DEF SameTags, SameTag
    <2>2. CASE p # Null
      <3>1. h2 = [h1 EXCEPT !.hdr[p].next = n]
        BY <2>2
      <3>2. h1 \in Heaps /\ p \in Addr /\ n \in Links
        BY <1>1, <1>2, <1>4, <2>2
      <3> HIDE DEF h2
      <3> QED BY <3>1, <3>2, SetsNext
    <2> QED BY <2>1, <2>2
  <1> HIDE DEF h2
  <1>6. /\ h3 \in Heaps /\ h3.hdr = h2.hdr /\ h3.sl = h2.sl /\ h3.fl = h2.fl
        /\ \A d \in Class : h3.matrix[d] = IF d = c /\ h2.matrix[c] = b THEN n ELSE h2.matrix[d]
    <2>1. CASE h2.matrix[c] # b
      BY <1>5, <2>1
    <2>2. CASE h2.matrix[c] = b
      BY <1>1, <1>5, <2>2, SetsFirst
    <2> QED BY <2>1, <2>2
  <1> HIDE DEF h3
  <1>7. /\ h4 \in Heaps /\ h4.hdr = h3.hdr /\ h4.matrix = h3.matrix
        /\ h4.sl = (IF h2.matrix[c] = b /\ n = Null THEN h3.sl \ {c} ELSE h3.sl)
        /\ h4.fl = {d[1] : d \in h4.sl}
    <2>1. h3.fl = {d[1] : d \in h3.sl}
      BY <1>1, <1>4, <1>5, <1>6
    <2>2. CASE h2.matrix[c] = b /\ n = Null
      BY <1>1, <1>6, <2>1, <2>2, ClearsBits
    <2>3. CASE ~(h2.matrix[c] = b /\ n = Null)
      BY <1>6, <2>1, <2>3
    <2> QED BY <2>2, <2>3
  <1> HIDE DEF h4
  <1>8. /\ k \in Heaps /\ SameTags(h4, k) /\ k.matrix = h4.matrix /\ k.sl = h4.sl /\ k.fl = h4.fl
        /\ \A a \in Addr : /\ k.hdr[a].next = IF a = b THEN Null ELSE h4.hdr[a].next
                           /\ k.hdr[a].prev = IF a = b THEN Null ELSE h4.hdr[a].prev
    <2>1. h4 \in Heaps /\ b \in Addr /\ Null \in Links
      BY <1>1, <1>7
    <2> QED BY <2>1, SetsLink
  <1> HIDE DEF k
  <1>9. SameTags(h, k)
    BY <1>4, <1>5, <1>6, <1>7, <1>8 DEF SameTags, SameTag
  <1>10. \A a \in Addr :
           /\ k.hdr[a].next = IF a = b THEN Null ELSE IF a = p THEN n ELSE h.hdr[a].next
           /\ k.hdr[a].prev = IF a = b THEN Null ELSE IF a = n THEN p ELSE h.hdr[a].prev
    BY <1>4, <1>5, <1>6, <1>7, <1>8
  <1>11. \A d \in Class : k.matrix[d] = IF d = c /\ h.matrix[c] = b THEN n ELSE h.matrix[d]
    BY <1>4, <1>5, <1>6, <1>7, <1>8
  <1>12. k.sl = (IF h.matrix[c] = b /\ n = Null THEN h.sl \ {c} ELSE h.sl) /\ k.fl = {d[1] : d \in k.sl}
    BY <1>4, <1>5, <1>6, <1>7, <1>8
  <1> QED BY <1>0, <1>3, <1>8, <1>9, <1>10, <1>11, <1>12 DEF Unlinked

LEMMA ExtractHdrUnlinks ==
  ASSUME NEW h \in Heaps, NEW F, NEW rank, Ranked(h, F, rank),
         NEW c \in Class, h.matrix[c] # Null
  PROVE  h.matrix[c] \in F /\ Unlinked(h, ExtractHdr(h, h.matrix[c], c), h.matrix[c])
  <1> DEFINE b == h.matrix[c]
             n == h.hdr[b].next
             h1 == [h EXCEPT !.matrix[c] = n]
             h2 == IF n = Null THEN ClearBits(h1, c) ELSE [h1 EXCEPT !.hdr[n].prev = Null]
             k == SetLink(h2, b, Null, Null)
  <1>0. ExtractHdr(h, b, c) = k
    BY DEF ExtractHdr
  <1>1. b \in F /\ h.hdr[b].prev = Null /\ ClassOf(h, b) = c /\ h.fl = {d[1] : d \in h.sl}
    BY DEF Ranked
  <1>2. b \in Addr /\ n \in Links /\ Null \in Links /\ (n # Null => n \in Addr)
    BY <1>1 DEF Ranked, Heaps, Headers, Links
  <1>3. b = h.matrix[c] /\ n = h.hdr[b].next
    OBVIOUS
  <1> HIDE DEF b, n
  <1>4. /\ h1 \in Heaps /\ h1.hdr = h.hdr /\ h1.sl = h.sl /\ h1.fl = h.fl
        /\ \A d \in Class : h1.matrix[d] = IF d = c THEN n ELSE h.matrix[d]
    BY <1>2, SetsFirst
  <1> HIDE DEF h1
  <1>5. /\ h2 \in Heaps /\ SameTags(h1, h2) /\ h2.matrix = h1.matrix
        /\ \A a \in Addr : /\ h2.hdr[a].next = h1.hdr[a].next
                           /\ h2.hdr[a].prev = IF a = n THEN Null ELSE h1.hdr[a].prev
        /\ h2.sl = (IF n = Null THEN h1.sl \ {c} ELSE h1.sl)
        /\ h2.fl = {d[1] : d \in h2.sl}
    <2>1. h1.fl = {d[1] : d \in h1.sl}
      BY <1>1, <1>4
    <2>2. CASE n = Null
      <3>1. h2 = ClearBits(h1, c)
        BY <2>2
      <3> HIDE DEF h2
      <3>2. /\ h2 \in Heaps /\ h2.hdr = h1.hdr /\ h2.matrix = h1.matrix
            /\ h2.sl = h1.sl \ {c} /\ h2.fl = {d[1] : d \in h2.sl}
        <4>1. h1 \in Heaps
          BY <1>4
        <4> QED BY <2>1, <3>1, <4>1, ClearsBits
      <3> QED BY <2>2, <3>2, NullIsNone DEF SameTags, SameTag
    <2>3. CASE n # Null
      <3>1. h2 = [h1 EXCEPT !.hdr[n].prev = Null]
        BY <2>3
      <3>2. /\ h2 \in Heaps /\ SameTags(h1, h2) /\ h2.matrix = h1.matrix /\ h2.sl = h1.sl /\ h2.fl = h1.fl
            /\ \A a \in Addr : /\ h2.hdr[a].next = h1.hdr[a].next
                               /\ h2.hdr[a].prev = IF a = n THEN Null ELSE h1.hdr[a].prev
        BY <1>2, <1>4, <2>3, <3>1, SetsPrev
      <3> HIDE DEF h2
      <3> QED BY <2>1, <2>3, <3>2
    <2> QED BY <2>2, <2>3
  <1> HIDE DEF h2
  <1>6. /\ k \in Heaps /\ SameTags(h2, k) /\ k.matrix = h2.matrix /\ k.sl = h2.sl /\ k.fl = h2.fl
        /\ \A a \in Addr : /\ k.hdr[a].next = IF a = b THEN Null ELSE h2.hdr[a].next
                           /\ k.hdr[a].prev = IF a = b THEN Null ELSE h2.hdr[a].prev
    <2>1. h2 \in Heaps /\ b \in Addr /\ Null \in Links
      BY <1>2, <1>5
    <2> QED BY <2>1, SetsLink
  <1> HIDE DEF k
  <1>7. SameTags(h, k)
    BY <1>4, <1>5, <1>6 DEF SameTags, SameTag
  <1>8. \A a \in Addr :
           /\ k.hdr[a].next = IF a = b THEN Null ELSE IF a = Null THEN n ELSE h.hdr[a].next
           /\ k.hdr[a].prev = IF a = b THEN Null ELSE IF a = n THEN Null ELSE h.hdr[a].prev
    BY <1>4, <1>5, <1>6, NullIsNone
  <1>9. \A d \in Class : k.matrix[d] = IF d = c THEN n ELSE h.matrix[d]
    BY <1>4, <1>5, <1>6
  <1>10. k.sl = (IF n = Null THEN h.sl \ {c} ELSE h.sl) /\ k.fl = {d[1] : d \in k.sl}
    BY <1>4, <1>5, <1>6
  <1>11. \A d \in Class : k.matrix[d] = IF d = c /\ h.matrix[c] = b THEN n ELSE h.matrix[d]
    BY <1>3, <1>9
  <1>12. k.sl = IF h.matrix[c] = b /\ n = Null THEN h.sl \ {c} ELSE h.sl
    BY <1>3, <1>10
  <1>13. Unlinked(h, k, b)
    <2> DEFINE p == h.hdr[b].prev
    <2>1. p = Null
      BY <1>1
    <2>2. \A a \in Addr :
           /\ k.hdr[a].next = IF a = b THEN Null ELSE IF a = p THEN n ELSE h.hdr[a].next
           /\ k.hdr[a].prev = IF a = b THEN Null ELSE IF a = n THEN p ELSE h.hdr[a].prev
      BY <1>8, <2>1
    <2>3. n = h.hdr[b].next /\ c = ClassOf(h, b) /\ k \in Heaps /\ k.fl = {d[1] : d \in k.sl}
      BY <1>1, <1>3, <1>6, <1>10
    <2> HIDE DEF p
    <2> QED BY <1>7, <1>11, <1>12, <2>2, <2>3 DEF Unlinked, p
  <1> QED BY <1>0, <1>1, <1>3, <1>13

(* Without b the lists hold the other blocks. *)
LEMMA UnlinkedLists ==
  ASSUME NEW h \in Heaps, NEW F, NEW rank, Ranked(h, F, rank), NEW b \in F,
         NEW k, Unlinked(h, k, b)
  PROVE  Lists(k, F \ {b})
  <1> DEFINE c == ClassOf(h, b)
             n == h.hdr[b].next
             p == h.hdr[b].prev
             G == F \ {b}
             r == [a \in G |-> rank[a]]
  <1>1. /\ k \in Heaps /\ k.fl = {d[1] : d \in k.sl}
        /\ k.sl = (IF h.matrix[c] = b /\ n = Null THEN h.sl \ {c} ELSE h.sl)
        /\ \A a \in Addr :
             /\ k.hdr[a].next = IF a = b THEN Null ELSE IF a = p THEN n ELSE h.hdr[a].next
             /\ k.hdr[a].prev = IF a = b THEN Null ELSE IF a = n THEN p ELSE h.hdr[a].prev
        /\ \A d \in Class : k.matrix[d] = IF d = c /\ h.matrix[c] = b THEN n ELSE h.matrix[d]
    BY DEF Unlinked
  <1>2. \A a \in Addr : ClassOf(k, a) = ClassOf(h, a)
    BY DEF Unlinked, SameTags, SameTag, ClassOf
  <1>3. F \subseteq Addr /\ b \in Addr /\ b # Null /\ b \in F
    BY NullIsNone DEF Ranked
  <1>4. c \in Class /\ h.matrix[c] # Null
    BY DEF Ranked
  (* Where b's neighbours are. *)
  <1>5. n # Null => n \in F /\ ClassOf(h, n) = c /\ h.hdr[n].prev = b /\ rank[b] < rank[n]
    BY DEF Ranked
  <1>6. h.matrix[c] = b => p = Null
    BY <1>4 DEF Ranked
  <1>7. h.matrix[c] # b => /\ p \in F /\ ClassOf(h, p) = c /\ h.hdr[p].next = b
                           /\ rank[p] < rank[b]
    BY <1>3 DEF Ranked
  <1>8. rank \in [F -> Nat]
    BY DEF Ranked
  <1>9. n # b /\ p # b
    BY <1>3, <1>5, <1>6, <1>7, <1>8
  <1>10. \A a \in F : h.hdr[a].next = b => h.matrix[c] # b /\ a = p
    <2> SUFFICES ASSUME NEW a \in F, h.hdr[a].next = b PROVE h.matrix[c] # b /\ a = p
      OBVIOUS
    <2>1. h.hdr[b].prev = a
      BY <1>3 DEF Ranked
    <2>2. a # Null
      BY <1>3, NullIsNone
    <2> QED BY <1>6, <2>1, <2>2
  <1>11. \A a \in F : a # h.matrix[ClassOf(h, a)] /\ h.hdr[a].prev = b => a = n
    BY DEF Ranked
  <1>12. n # Null => n # h.matrix[c]
    BY <1>3, <1>4, <1>5 DEF Ranked
  <1>20. c = ClassOf(h, b) /\ n = h.hdr[b].next /\ p = h.hdr[b].prev
    OBVIOUS
  <1> HIDE DEF c, n, p
  <1>14. \A a \in G : ClassOf(k, a) \in Class /\ k.matrix[ClassOf(k, a)] # Null
    <2> TAKE a \in G
    <2>1. ClassOf(k, a) = ClassOf(h, a) /\ ClassOf(h, a) \in Class /\ h.matrix[ClassOf(h, a)] # Null
      BY <1>2, <1>3 DEF Ranked
    <2>2. CASE ClassOf(h, a) = c /\ h.matrix[c] = b
      <3>1. n # Null
        BY <1>20, <2>2, OnlyBlock
      <3> QED BY <1>1, <2>1, <2>2, <3>1
    <2>3. CASE ~(ClassOf(h, a) = c /\ h.matrix[c] = b)
      BY <1>1, <2>1, <2>3
    <2> QED BY <2>2, <2>3
  <1>15. \A d \in Class : k.matrix[d] # Null =>
           /\ k.matrix[d] \in G /\ ClassOf(k, k.matrix[d]) = d
           /\ k.hdr[k.matrix[d]].prev = Null
    <2> SUFFICES ASSUME NEW d \in Class, k.matrix[d] # Null
                 PROVE  /\ k.matrix[d] \in G /\ ClassOf(k, k.matrix[d]) = d
                        /\ k.hdr[k.matrix[d]].prev = Null
      OBVIOUS
    <2>1. CASE d = c /\ h.matrix[c] = b
      <3>1. k.matrix[d] = n /\ n # Null
        BY <1>1, <2>1
      <3>2. n \in G /\ ClassOf(h, n) = c /\ n \in Addr
        BY <1>3, <1>5, <1>9, <3>1
      <3>3. k.hdr[n].prev = p
        BY <1>1, <1>9, <3>2
      <3> QED BY <1>2, <1>6, <2>1, <3>1, <3>2, <3>3
    <2>2. CASE ~(d = c /\ h.matrix[c] = b)
      <3> DEFINE m == h.matrix[d]
      <3>1. k.matrix[d] = m /\ m # Null
        BY <1>1, <2>2
      <3>2. m \in F /\ ClassOf(h, m) = d /\ h.hdr[m].prev = Null /\ m \in Addr
        BY <1>3, <3>1 DEF Ranked
      <3>3. m # b
        BY <1>20, <2>2, <3>2
      <3>4. m # n
        BY <1>3, <1>5, <3>1, <3>2
      <3>5. k.hdr[m].prev = Null
        BY <1>1, <3>2, <3>3, <3>4
      <3> QED BY <1>2, <3>1, <3>2, <3>3, <3>5
    <2> QED BY <2>1, <2>2
  <1>16. \A a \in G : k.hdr[a].next # Null =>
           /\ k.hdr[a].next \in G /\ ClassOf(k, k.hdr[a].next) = ClassOf(k, a)
           /\ k.hdr[k.hdr[a].next].prev = a /\ r[a] < r[k.hdr[a].next]
    <2> SUFFICES ASSUME NEW a \in G, k.hdr[a].next # Null
                 PROVE  /\ k.hdr[a].next \in G /\ ClassOf(k, k.hdr[a].next) = ClassOf(k, a)
                        /\ k.hdr[k.hdr[a].next].prev = a /\ r[a] < r[k.hdr[a].next]
      OBVIOUS
    <2>0. a \in F /\ a \in Addr /\ a # b
      BY <1>3
    <2>1. CASE a = p
      <3>1. k.hdr[a].next = n /\ n # Null
        BY <1>1, <2>0, <2>1
      <3>2. n \in G /\ n \in Addr /\ ClassOf(h, n) = c /\ rank[b] < rank[n]
        BY <1>3, <1>5, <1>9, <3>1
      <3>3. ClassOf(h, a) = c /\ rank[a] < rank[b]
        BY <1>6, <1>7, <2>0, <2>1, <1>3, NullIsNone
      <3>4. k.hdr[n].prev = a
        BY <1>1, <1>9, <2>1, <3>2
      <3>5. r[a] < r[n]
        BY <1>3, <1>8, <2>0, <3>2, <3>3
      <3> HIDE DEF r
      <3> QED BY <1>2, <2>0, <3>1, <3>2, <3>3, <3>4, <3>5
    <2>2. CASE a # p
      <3> DEFINE m == h.hdr[a].next
      <3>1. k.hdr[a].next = m /\ m # Null
        BY <1>1, <2>0, <2>2
      <3>2. m \in F /\ ClassOf(h, m) = ClassOf(h, a) /\ h.hdr[m].prev = a /\ rank[a] < rank[m] /\ m \in Addr
        BY <1>3, <2>0, <3>1 DEF Ranked
      <3>3. m # b
        BY <1>10, <2>0, <2>2
      <3>4. m # n
        BY <1>3, <1>5, <2>0, <3>1, <3>2
      <3>5. k.hdr[m].prev = a
        BY <1>1, <3>2, <3>3, <3>4
      <3>6. r[a] < r[m]
        BY <2>0, <3>2, <3>3
      <3> HIDE DEF r, m
      <3> QED BY <1>2, <2>0, <3>1, <3>2, <3>3, <3>5, <3>6
    <2> QED BY <2>1, <2>2
  <1>17. \A a \in G : a # k.matrix[ClassOf(k, a)] =>
           /\ k.hdr[a].prev \in G /\ ClassOf(k, k.hdr[a].prev) = ClassOf(k, a)
           /\ k.hdr[k.hdr[a].prev].next = a
    <2> SUFFICES ASSUME NEW a \in G, a # k.matrix[ClassOf(k, a)]
                 PROVE  /\ k.hdr[a].prev \in G /\ ClassOf(k, k.hdr[a].prev) = ClassOf(k, a)
                        /\ k.hdr[k.hdr[a].prev].next = a
      OBVIOUS
    <2>0. a \in F /\ a \in Addr /\ a # b /\ ClassOf(k, a) = ClassOf(h, a) /\ ClassOf(h, a) \in Class
      BY <1>2, <1>3 DEF Ranked
    <2>1. CASE a = n
      <3>1. k.hdr[a].prev = p
        BY <1>1, <2>0, <2>1
      <3>2. n # Null /\ ClassOf(h, a) = c
        BY <1>3, <1>5, <2>0, <2>1, NullIsNone
      <3>3. h.matrix[c] # b
        BY <1>1, <1>4, <2>0, <2>1, <3>2
      <3>4. p \in G /\ p \in Addr /\ ClassOf(h, p) = c
        BY <1>3, <1>7, <1>9, <3>3
      <3>5. k.hdr[p].next = n
        BY <1>1, <1>9, <3>4
      <3> QED BY <1>2, <2>0, <2>1, <3>1, <3>2, <3>4, <3>5
    <2>2. CASE a # n
      <3> DEFINE m == h.hdr[a].prev
      <3>1. k.hdr[a].prev = m
        BY <1>1, <2>0, <2>2
      <3>2. a # h.matrix[ClassOf(h, a)]
        <4>1. SUFFICES ASSUME a = h.matrix[ClassOf(h, a)] PROVE FALSE
          OBVIOUS
        <4>2. ~(ClassOf(h, a) = c /\ h.matrix[c] = b)
          BY <2>0, <4>1
        <4>3. k.matrix[ClassOf(h, a)] = a
          BY <1>1, <2>0, <4>1, <4>2
        <4> QED BY <2>0, <4>3
      <3>3. m \in F /\ ClassOf(h, m) = ClassOf(h, a) /\ h.hdr[m].next = a /\ m \in Addr
        BY <1>3, <2>0, <3>2 DEF Ranked
      <3>4. m # b
        BY <1>11, <2>0, <2>2, <3>2
      <3>5. m # p
        <4>1. SUFFICES ASSUME m = p PROVE FALSE
          OBVIOUS
        <4>2. h.matrix[c] # b
          BY <1>6, <3>3, <4>1, NullIsNone
        <4> QED BY <1>7, <2>0, <3>3, <4>1, <4>2
      <3>6. k.hdr[m].next = a
        BY <1>1, <3>3, <3>4, <3>5
      <3> QED BY <1>2, <2>0, <3>1, <3>3, <3>4, <3>6
    <2> QED BY <2>1, <2>2
  <1>18. \A a \in Addr \ G : k.hdr[a].next = Null /\ k.hdr[a].prev = Null
    <2> TAKE a \in Addr \ G
    <2>1. CASE a = b
      BY <1>1, <1>3, <2>1
    <2>2. CASE a # b
      <3>1. a \notin F /\ h.hdr[a].next = Null /\ h.hdr[a].prev = Null
        BY <2>2 DEF Ranked
      <3>2. a # p /\ a # n
        BY <1>5, <1>6, <1>7, <3>1, NullIsNone
      <3> QED BY <1>1, <2>2, <3>1, <3>2
    <2> QED BY <2>1, <2>2
  <1>19. k.sl = {d \in Class : k.matrix[d] # Null}
    <2>1. h.sl = {d \in Class : h.matrix[d] # Null}
      BY DEF Ranked
    <2>2. CASE h.matrix[c] = b /\ n = Null
      BY <1>1, <1>4, <2>1, <2>2
    <2>3. CASE ~(h.matrix[c] = b /\ n = Null)
      <3>1. k.sl = h.sl
        BY <1>1, <2>3
      <3>2. \A d \in Class : (k.matrix[d] # Null) <=> (h.matrix[d] # Null)
        BY <1>1, <1>4, <2>3
      <3> QED BY <2>1, <3>1, <3>2
    <2> QED BY <2>2, <2>3
  <1>21. G \subseteq Addr /\ r \in [G -> Nat]
    BY <1>3, <1>8
  <1> HIDE DEF r, G
  <1>22. Ranked(k, G, r)
    BY <1>1, <1>14, <1>15, <1>16, <1>17, <1>18, <1>19, <1>21 DEF Ranked
  <1> QED BY <1>22 DEF Lists, G

(* What linking b in front of its list does to the fields. *)
Linked(h, k, b) ==
  LET c == ClassOf(h, b)
      m == h.matrix[c]
  IN  /\ k \in Heaps /\ SameTags(h, k)
      /\ \A a \in Addr :
           /\ k.hdr[a].next = IF a = b THEN m ELSE h.hdr[a].next
           /\ k.hdr[a].prev = IF a = b THEN Null ELSE IF a = m THEN b ELSE h.hdr[a].prev
      /\ \A d \in Class : k.matrix[d] = IF d = c THEN b ELSE h.matrix[d]
      /\ k.sl = h.sl \cup {c} /\ k.fl = h.fl \cup {c[1]}

LEMMA InsertLinks ==
  ASSUME NEW h \in Heaps, NEW b \in Addr, ClassOf(h, b) \in Class
  PROVE  Linked(h, InsertFree(h, b), b)
  <1> DEFINE c == ClassOf(h, b)
             m == h.matrix[c]
             h1 == IF m = Null THEN h ELSE [h EXCEPT !.hdr[m].prev = b]
             h2 == SetLink(h1, b, m, Null)
             k == [h2 EXCEPT !.matrix[c] = b, !.sl = h.sl \cup {c}, !.fl = h.fl \cup {c[1]}]
  <1>0. InsertFree(h, b) = k
    BY Zenon DEF InsertFree, ClassOf
  <1>1. c = ClassOf(h, b) /\ m = h.matrix[c] /\ c \in Class
    OBVIOUS
  <1>2. m \in Links /\ Null \in Links /\ b \in Links /\ (m # Null => m \in Addr)
    BY DEF Heaps, Links
  <1> HIDE DEF c, m
  <1>3. /\ h1 \in Heaps /\ SameTags(h, h1) /\ h1.matrix = h.matrix /\ h1.sl = h.sl /\ h1.fl = h.fl
        /\ \A a \in Addr : /\ h1.hdr[a].next = h.hdr[a].next
                           /\ h1.hdr[a].prev = IF a = m THEN b ELSE h.hdr[a].prev
    <2>1. CASE m = Null
      BY <2>1, NullIsNone DEF SameTags, SameTag
    <2>2. CASE m # Null
      BY <1>2, <2>2, SetsPrev
    <2> QED BY <2>1, <2>2
  <1> HIDE DEF h1
  <1>4. /\ h2 \in Heaps /\ SameTags(h1, h2) /\ h2.matrix = h1.matrix /\ h2.sl = h1.sl /\ h2.fl = h1.fl
        /\ \A a \in Addr : /\ h2.hdr[a].next = IF a = b THEN m ELSE h1.hdr[a].next
                           /\ h2.hdr[a].prev = IF a = b THEN Null ELSE h1.hdr[a].prev
    <2>1. h1 \in Heaps
      BY <1>3
    <2> QED BY <1>2, <2>1, SetsLink
  <1> HIDE DEF h2
  <1>5. /\ k \in Heaps /\ k.hdr = h2.hdr /\ k.sl = h2.sl \cup {c} /\ k.fl = h2.fl \cup {c[1]}
        /\ \A d \in Class : k.matrix[d] = IF d = c THEN b ELSE h2.matrix[d]
    <2>1. c[1] \in 0 .. RealFli - 1
      BY <1>1 DEF Class
    <2>2. h2 \in Heaps /\ h2.sl = h.sl /\ h2.fl = h.fl
      BY <1>3, <1>4
    <2>3. h.sl \in SUBSET Class /\ h.fl \in SUBSET (0 .. RealFli - 1)
      BY DEF Heaps
    <2> QED BY <1>1, <1>2, <2>1, <2>2, <2>3 DEF Heaps
  <1> HIDE DEF k
  <1>6. SameTags(h, k)
    BY <1>3, <1>4, <1>5 DEF SameTags, SameTag
  <1>7. \A a \in Addr :
           /\ k.hdr[a].next = IF a = b THEN m ELSE h.hdr[a].next
           /\ k.hdr[a].prev = IF a = b THEN Null ELSE IF a = m THEN b ELSE h.hdr[a].prev
    BY <1>3, <1>4, <1>5
  <1>8. /\ \A d \in Class : k.matrix[d] = IF d = c THEN b ELSE h.matrix[d]
        /\ k.sl = h.sl \cup {c} /\ k.fl = h.fl \cup {c[1]} /\ k \in Heaps
    BY <1>3, <1>4, <1>5
  <1> QED BY <1>0, <1>1, <1>6, <1>7, <1>8 DEF Linked

LEMMA LinkedLists ==
  ASSUME NEW h \in Heaps, NEW F, Lists(h, F), NEW b \in Addr, b \notin F,
         ClassOf(h, b) \in Class, NEW k, Linked(h, k, b)
  PROVE  Lists(k, F \cup {b})
  <1> DEFINE c == ClassOf(h, b)
             m == h.matrix[c]
             G == F \cup {b}
  <1>1. PICK rank : Ranked(h, F, rank)
    BY DEF Lists
  <1> DEFINE r == [a \in G |-> IF a = b THEN 0 ELSE rank[a] + 1]
  <1>2. /\ k \in Heaps /\ k.sl = h.sl \cup {c} /\ k.fl = h.fl \cup {c[1]}
        /\ \A a \in Addr :
             /\ k.hdr[a].next = IF a = b THEN m ELSE h.hdr[a].next
             /\ k.hdr[a].prev = IF a = b THEN Null ELSE IF a = m THEN b ELSE h.hdr[a].prev
        /\ \A d \in Class : k.matrix[d] = IF d = c THEN b ELSE h.matrix[d]
    BY DEF Linked
  <1>3. \A a \in Addr : ClassOf(k, a) = ClassOf(h, a)
    BY DEF Linked, SameTags, SameTag, ClassOf
  <1>4. F \subseteq Addr /\ b # Null /\ c \in Class /\ Null \notin F /\ rank \in [F -> Nat]
    BY <1>1, NullIsNone DEF Ranked
  <1>5. m # Null => m \in F /\ ClassOf(h, m) = c /\ h.hdr[m].prev = Null
    BY <1>1 DEF Ranked
  <1>6. c = ClassOf(h, b)
    OBVIOUS
  <1>7. \A a \in F : ClassOf(h, a) = c => m # Null
    BY <1>1 DEF Ranked
  <1> DEFINE HasNext(a) ==
               /\ k.hdr[a].next \in G /\ ClassOf(k, k.hdr[a].next) = ClassOf(k, a)
               /\ k.hdr[k.hdr[a].next].prev = a /\ r[a] < r[k.hdr[a].next]
             HasPrev(a) ==
               /\ k.hdr[a].prev \in G /\ ClassOf(k, k.hdr[a].prev) = ClassOf(k, a)
               /\ k.hdr[k.hdr[a].prev].next = a
  <1>8. ASSUME NEW a \in F, h.hdr[a].next # Null PROVE HasNext(a)
    <2> DEFINE n == h.hdr[a].next
    <2>1. n \in F /\ ClassOf(h, n) = ClassOf(h, a) /\ h.hdr[n].prev = a /\ rank[a] < rank[n]
      BY <1>1, <1>8 DEF Ranked
    <2>2. n # m
      BY <1>4, <1>5, <2>1
    <2>3. r[a] < r[n]
      BY <1>4, <2>1
    <2>4. k.hdr[a].next = n
      BY <1>2, <1>4
    <2> HIDE DEF r, n, m, c
    <2>5. k.hdr[n].prev = a
      BY <1>2, <1>4, <2>1, <2>2
    <2>6. n \in G /\ ClassOf(k, n) = ClassOf(k, a)
      BY <1>3, <1>4, <2>1
    <2> HIDE DEF G
    <2> QED BY <2>3, <2>4, <2>5, <2>6
  <1>9. ASSUME m # Null PROVE HasNext(b)
    <2>1. m \in F /\ ClassOf(h, m) = c /\ k.hdr[b].next = m
      BY <1>2, <1>5, <1>9
    <2>2. r[b] < r[m]
      BY <1>4, <2>1
    <2> HIDE DEF r, m
    <2>3. k.hdr[m].prev = b
      BY <1>2, <1>4, <2>1
    <2>4. m \in G /\ ClassOf(k, m) = ClassOf(k, b)
      BY <1>3, <1>4, <2>1
    <2> HIDE DEF G
    <2> QED BY <2>1, <2>2, <2>3, <2>4
  <1>10. ASSUME NEW a \in F, a # k.matrix[ClassOf(k, a)] PROVE HasPrev(a)
    <2>1. ClassOf(k, a) = ClassOf(h, a) /\ ClassOf(h, a) \in Class
      BY <1>1, <1>3, <1>4 DEF Ranked
    <2>2. CASE a = m
      <3>1. k.hdr[a].prev = b /\ k.hdr[b].next = a /\ b \in G
        BY <1>2, <1>4, <2>2
      <3>2. ClassOf(k, b) = ClassOf(k, a)
        BY <1>3, <1>4, <1>5, <2>1, <2>2
      <3> HIDE DEF G
      <3> QED BY <3>1, <3>2
    <2>3. CASE a # m
      <3> DEFINE p == h.hdr[a].prev
      <3>1. a # h.matrix[ClassOf(h, a)]
        BY <1>2, <1>10, <2>1, <2>3
      <3>2. p \in F /\ ClassOf(h, p) = ClassOf(h, a) /\ h.hdr[p].next = a
        BY <1>1, <3>1 DEF Ranked
      <3>3. k.hdr[a].prev = p
        BY <1>2, <1>4, <2>3
      <3> HIDE DEF p
      <3>4. k.hdr[p].next = a /\ p \in G /\ ClassOf(k, p) = ClassOf(k, a)
        BY <1>2, <1>3, <1>4, <3>2
      <3> HIDE DEF G
      <3> QED BY <3>3, <3>4
    <2> QED BY <2>2, <2>3
  <1>11. \A a \in G : k.hdr[a].next # Null => HasNext(a)
    <2> SUFFICES ASSUME NEW a \in G, k.hdr[a].next # Null PROVE HasNext(a)
      OBVIOUS
    <2>1. CASE a = b
      <3>1. m # Null
        BY <1>2, <2>1
      <3> HIDE DEF HasNext
      <3> QED BY <1>9, <2>1, <3>1
    <2>2. CASE a # b
      <3>1. a \in F /\ h.hdr[a].next # Null
        BY <1>2, <1>4, <2>2
      <3> HIDE DEF HasNext
      <3> QED BY <1>8, <3>1
    <2> QED BY <2>1, <2>2
  <1>12. \A a \in G : a # k.matrix[ClassOf(k, a)] => HasPrev(a)
    <2> SUFFICES ASSUME NEW a \in G, a # k.matrix[ClassOf(k, a)] PROVE HasPrev(a)
      OBVIOUS
    <2>1. a # b
      BY <1>2, <1>3, <1>4
    <2> HIDE DEF HasPrev
    <2> QED BY <1>10, <2>1
  <1>13. \A a \in G : ClassOf(k, a) \in Class /\ k.matrix[ClassOf(k, a)] # Null
    <2> TAKE a \in G
    <2>1. CASE a = b
      BY <1>2, <1>3, <1>4, <2>1
    <2>2. CASE a # b
      <3>1. a \in F /\ a \in Addr
        BY <1>4, <2>2
      <3>2. ClassOf(h, a) \in Class /\ h.matrix[ClassOf(h, a)] # Null /\ ClassOf(k, a) = ClassOf(h, a)
        BY <1>1, <1>3, <3>1 DEF Ranked
      <3> QED BY <1>2, <1>4, <3>2
    <2> QED BY <2>1, <2>2
  <1>14. \A d \in Class : k.matrix[d] # Null =>
           /\ k.matrix[d] \in G /\ ClassOf(k, k.matrix[d]) = d
           /\ k.hdr[k.matrix[d]].prev = Null
    <2> SUFFICES ASSUME NEW d \in Class, k.matrix[d] # Null
                 PROVE  /\ k.matrix[d] \in G /\ ClassOf(k, k.matrix[d]) = d
                        /\ k.hdr[k.matrix[d]].prev = Null
      OBVIOUS
    <2>1. CASE d = c
      BY <1>2, <1>3, <2>1
    <2>2. CASE d # c
      <3> DEFINE x == h.matrix[d]
      <3>1. k.matrix[d] = x /\ x # Null
        BY <1>2, <2>2
      <3>2. x \in F /\ ClassOf(h, x) = d /\ h.hdr[x].prev = Null
        BY <1>1, <3>1 DEF Ranked
      <3>3. x # m
        BY <1>4, <1>5, <2>2, <3>2
      <3> HIDE DEF x, m, c
      <3>4. k.hdr[x].prev = Null
        BY <1>2, <1>4, <3>2, <3>3
      <3> QED BY <1>3, <1>4, <3>1, <3>2, <3>4
    <2> QED BY <2>1, <2>2
  <1>15. \A a \in Addr \ G : k.hdr[a].next = Null /\ k.hdr[a].prev = Null
    <2> TAKE a \in Addr \ G
    <2>1. a \notin F /\ a # b /\ h.hdr[a].next = Null /\ h.hdr[a].prev = Null
      BY <1>1 DEF Ranked
    <2>2. a # m
      BY <1>5, <2>1, NullIsNone
    <2> QED BY <1>2, <2>1, <2>2
  <1>16. k.sl = {d \in Class : k.matrix[d] # Null} /\ k.fl = {d[1] : d \in k.sl}
    <2>1. h.sl = {d \in Class : h.matrix[d] # Null} /\ h.fl = {d[1] : d \in h.sl}
      BY <1>1 DEF Ranked
    <2>2. k.sl = {d \in Class : k.matrix[d] # Null}
      BY <1>2, <1>4, <2>1
    <2>3. k.fl = {d[1] : d \in k.sl}
      <3> HIDE DEF c, m
      <3> QED BY <1>2, <2>1
    <2> QED BY <2>2, <2>3
  <1>17. G \subseteq Addr /\ r \in [G -> Nat]
    BY <1>4
  <1> HIDE DEF r, G
  <1>18. Ranked(k, G, r)
    BY <1>11, <1>12, <1>13, <1>14, <1>15, <1>16, <1>17 DEF Ranked
  <1> QED BY <1>18 DEF Lists, G

(* Tags of blocks outside the lists, and tags other than sizes, are free to change. *)
LEMMA ListsStay ==
  ASSUME NEW h \in Heaps, NEW k \in Heaps, NEW F, Lists(h, F), SameLists(h, k),
         \A a \in F : k.hdr[a].size = h.hdr[a].size
  PROVE  Lists(k, F)
  <1>1. PICK rank : Ranked(h, F, rank)
    BY DEF Lists
  <1>2. \A a \in F : a \in Addr /\ ClassOf(k, a) = ClassOf(h, a) /\ SameLink(h, k, a)
    BY <1>1 DEF Ranked, ClassOf, SameLists
  <1>3. k.matrix = h.matrix /\ k.sl = h.sl /\ k.fl = h.fl
    BY DEF SameLists
  <1>4. \A a \in Addr \ F : k.hdr[a].next = Null /\ k.hdr[a].prev = Null
    BY <1>1 DEF Ranked, SameLists, SameLink
  <1>5. \A b \in F : k.hdr[b].next # Null =>
       /\ k.hdr[b].next \in F /\ ClassOf(k, k.hdr[b].next) = ClassOf(k, b)
       /\ k.hdr[k.hdr[b].next].prev = b /\ rank[b] < rank[k.hdr[b].next]
    BY <1>1, <1>2 DEF Ranked, SameLink
  <1>6. \A b \in F : b # k.matrix[ClassOf(k, b)] =>
       /\ k.hdr[b].prev \in F /\ ClassOf(k, k.hdr[b].prev) = ClassOf(k, b)
       /\ k.hdr[k.hdr[b].prev].next = b
    BY <1>1, <1>2, <1>3 DEF Ranked, SameLink
  <1>7. \A c \in Class : k.matrix[c] # Null =>
       /\ k.matrix[c] \in F /\ ClassOf(k, k.matrix[c]) = c
       /\ k.hdr[k.matrix[c]].prev = Null
    BY <1>1, <1>2, <1>3 DEF Ranked, SameLink
  <1>8. /\ \A b \in F : ClassOf(k, b) \in Class /\ k.matrix[ClassOf(k, b)] # Null
        /\ k.sl = {c \in Class : k.matrix[c] # Null} /\ k.fl = {c[1] : c \in k.sl}
        /\ F \subseteq Addr /\ rank \in [F -> Nat]
    BY <1>1, <1>2, <1>3 DEF Ranked
  <1>9. Ranked(k, F, rank)
    BY <1>4, <1>5, <1>6, <1>7, <1>8 DEF Ranked
  <1> QED BY <1>9 DEF Lists

-----------------------------------------------------------------------------
(* Blocks tile the pool. *)
Bl(h) == {a \in Addr : h.hdr[a].size >= 0}
Fr(h) == {a \in Bl(h) : h.hdr[a].free}
Held(h, b) == {a \in Bl(h) \ {b} : ~h.hdr[a].free}
Empty(h, a) == /\ h.hdr[a].size = -1 /\ ~h.hdr[a].free
               /\ ~h.hdr[a].prevFree /\ h.hdr[a].prevHdr = Null
Fits(h, b) ==
  /\ h.hdr[b].size >= MinBlock /\ h.hdr[b].size % Align = 0
  /\ NextBlock(h, b) \in Bl(h)
  /\ \A a \in Bl(h) : a <= b \/ a >= NextBlock(h, b)
Layout(h) ==
  /\ h \in Heaps
  /\ \A a \in Addr : h.hdr[a].size < 0 => Empty(h, a)
  /\ {0, LastBlock} \subseteq Bl(h) /\ h.hdr[LastBlock].size = 0
  /\ ~h.hdr[0].free /\ ~h.hdr[LastBlock].free
  /\ \A b \in Bl(h) \ {LastBlock} : Fits(h, b)

LEMMA AddrIs ==
  /\ PoolSize \in Nat /\ LastBlock = PoolSize - Align /\ LastBlock \in Addr /\ 0 \in Addr
  /\ FirstBlock \in Addr /\ FirstBlock = 2 * Align /\ FirstBlock + 3 * Align <= LastBlock
  /\ \A a \in Addr : a \in Nat /\ a % Align = 0 /\ a <= LastBlock
  /\ \A a \in Nat : a % Align = 0 /\ a <= LastBlock => a \in Addr
  <1>1. Align \in Nat \ {0} /\ PoolSize \in Nat /\ PoolSize % Align = 0 /\ PoolSize >= 6 * Align
    BY ConstantsAre, TlsfAssumption
  <1>2. Align % Align = 0 /\ (2 * Align) % Align = 0 /\ 0 % Align = 0 /\ 2 * Align \in Nat
    <2>1. Align * 1 = Align /\ Align * 2 = 2 * Align /\ Align * 0 = 0 /\ 2 * Align \in Nat
      BY <1>1
    <2>2. (Align * 1) % Align = 0 /\ (Align * 2) % Align = 0 /\ (Align * 0) % Align = 0
      BY <1>1, ModOfProduct
    <2> QED BY <2>1, <2>2
  <1>3. LastBlock = PoolSize - Align /\ (PoolSize - Align) % Align = 0
    <2>1. PoolSize >= Align
      BY <1>1
    <2> QED BY <1>1, <1>2, <2>1, ModSum DEF LastBlock, Overhead
  <1>4. ASSUME NEW a \in Addr PROVE a \in Nat /\ a % Align = 0 /\ a <= LastBlock
    <2>1. a \in Nat /\ a < PoolSize /\ a % Align = 0
      BY <1>1 DEF Addr
    <2>2. a + Align <= PoolSize
      BY <1>1, <2>1, ModGap
    <2> QED BY <1>1, <1>3, <2>1, <2>2
  <1>5. ASSUME NEW a \in Nat, a % Align = 0, a <= LastBlock PROVE a \in Addr
    BY <1>1, <1>3, <1>5 DEF Addr
  <1>6. FirstBlock = 2 * Align /\ FirstBlock + 3 * Align <= LastBlock /\ LastBlock \in Nat
    BY <1>1, <1>3 DEF FirstBlock, Overhead
  <1>7. 0 \in Addr /\ FirstBlock \in Addr /\ LastBlock \in Addr
    <2>1. FirstBlock <= LastBlock /\ FirstBlock \in Nat /\ FirstBlock % Align = 0 /\ 0 <= LastBlock
      BY <1>1, <1>2, <1>6
    <2> QED BY <1>2, <1>3, <1>5, <1>6, <2>1
  <1> QED BY <1>1, <1>3, <1>4, <1>5, <1>6, <1>7

(* The block behind b. *)
LEMMA NextIs ==
  ASSUME NEW h, Layout(h), NEW b \in Bl(h) \ {LastBlock}
  PROVE  LET n == NextBlock(h, b)
             s == h.hdr[b].size
         IN  /\ s \in Nat /\ s >= Align /\ s % Align = 0 /\ n = b + Align + s /\ n \in Bl(h)
             /\ b \in Addr /\ n \in Addr /\ n > b /\ n # 0
  <1>1. Fits(h, b) /\ h \in Heaps /\ b \in Addr
    BY DEF Layout, Bl
  <1>2. h.hdr[b].size \in Int
    BY <1>1 DEF Heaps, Headers
  <1>3. Align \in Nat \ {0} /\ b \in Nat
    BY <1>1, ConstantsAre, AddrIs
  <1>4. h.hdr[b].size >= Align /\ h.hdr[b].size % Align = 0 /\ NextBlock(h, b) \in Bl(h)
    BY <1>1 DEF Fits, MinBlock
  <1>5. NextBlock(h, b) = b + Align + h.hdr[b].size /\ NextBlock(h, b) \in Addr
    BY <1>4 DEF NextBlock, After, Overhead, Bl
  <1> QED BY <1>1, <1>2, <1>3, <1>4, <1>5

LEMMA Apart ==
  ASSUME NEW h, Layout(h), NEW b \in Bl(h) \ {LastBlock}, NEW a \in Bl(h)
  PROVE  a <= b \/ a >= NextBlock(h, b)
  BY DEF Layout, Fits

LEMMA OnePrev ==
  ASSUME NEW h, Layout(h), NEW a \in Bl(h) \ {LastBlock}, NEW b \in Bl(h) \ {LastBlock},
         NextBlock(h, a) = NextBlock(h, b)
  PROVE  a = b
  <1>1. a \in Nat /\ b \in Nat /\ a < NextBlock(h, a) /\ b < NextBlock(h, b) /\ NextBlock(h, a) \in Nat
    BY NextIs, AddrIs
  <1>2. (a <= b \/ a >= NextBlock(h, b)) /\ (b <= a \/ b >= NextBlock(h, a))
    BY Apart
  <1> QED BY <1>1, <1>2

(* Every block but the first has one in front of it. *)
LEMMA PrevIs ==
  ASSUME NEW h, Layout(h), NEW b \in Bl(h), b # 0
  PROVE  \E q \in Bl(h) \ {LastBlock} : NextBlock(h, q) = b /\ q # b
  <1> DEFINE T == {b - a : a \in {x \in Bl(h) : x < b}}
  <1>1. b \in Nat /\ b > 0 /\ b <= LastBlock /\ LastBlock \in Nat /\ 0 \in Bl(h)
    BY AddrIs DEF Bl, Layout
  <1>2. \A x \in Bl(h) : x \in Nat
    BY AddrIs DEF Bl
  <1>3. b \in T
    BY <1>1
  <1>4. T \in SUBSET Nat
    BY <1>1, <1>2
  <1>5. PICK m \in T : \A y \in T : m <= y
    <2> HIDE DEF T
    <2> QED BY <1>3, <1>4, LeastOf
  <1>6. PICK q \in Bl(h) : q < b /\ m = b - q
    BY <1>5
  <1>7. q # LastBlock /\ q \in Nat
    BY <1>1, <1>2, <1>6
  <1> DEFINE n == NextBlock(h, q)
  <1>8. n \in Bl(h) /\ n > q /\ n \in Nat
    BY <1>2, <1>7, NextIs
  <1>9. b >= n
    BY <1>1, <1>2, <1>6, <1>7, Apart
  <1> HIDE DEF n
  <1>10. ~(n < b)
    <2>1. SUFFICES ASSUME n < b PROVE FALSE
      OBVIOUS
    <2>2. b - n \in T
      BY <1>8, <2>1
    <2>3. m <= b - n
      BY <1>5, <2>2
    <2> QED BY <1>1, <1>6, <1>7, <1>8, <2>3
  <1>11. n = b
    BY <1>1, <1>8, <1>9, <1>10
  <1> QED BY <1>1, <1>6, <1>7, <1>11 DEF n

(* The lists are made for every block that can be free. *)
LEMMA SizeIs ==
  ASSUME NEW h, Layout(h), NEW b \in Bl(h) \ {0, LastBlock}
  PROVE  /\ b >= 2 * Align /\ b + Align + h.hdr[b].size <= LastBlock
         /\ h.hdr[b].size < LargestSize /\ ClassOf(h, b) \in Class
  <1>1. 0 \in Bl(h) \ {LastBlock} /\ b \in Bl(h) \ {LastBlock} /\ Align \in Nat \ {0} /\ b \in Nat
    BY AddrIs, ConstantsAre DEF Layout, Bl
  <1>2. b <= 0 \/ b >= NextBlock(h, 0)
    BY <1>1, Apart
  <1>3. NextBlock(h, 0) = 0 + Align + h.hdr[0].size /\ h.hdr[0].size \in Nat /\ h.hdr[0].size >= Align
    BY <1>1, NextIs
  <1>4. b >= 2 * Align
    BY <1>1, <1>2, <1>3
  <1> DEFINE s == h.hdr[b].size
  <1>5. s \in Nat /\ NextBlock(h, b) = b + Align + s /\ NextBlock(h, b) \in Addr
    BY <1>1, NextIs
  <1>6. b + Align + s <= LastBlock
    BY <1>5, AddrIs
  <1>7. LastBlock = PoolSize - Align /\ PoolSize \in Nat /\ PoolSize - 4 * Align < LargestSize /\ LargestSize \in Nat
    BY AddrIs, TlsfAssumption, ConstantsAre
  <1> HIDE DEF s
  <1>8. s < LargestSize
    BY <1>1, <1>4, <1>5, <1>6, <1>7
  <1> QED BY <1>4, <1>5, <1>6, <1>8, HasClass DEF s, ClassOf

(* Heaps whose blocks have the same sizes. *)
LEMMA SizesStay ==
  ASSUME NEW h, Layout(h), NEW k \in Heaps,
         \A a \in Addr : k.hdr[a].size = h.hdr[a].size /\ (h.hdr[a].size < 0 => Empty(k, a)),
         ~k.hdr[0].free, ~k.hdr[LastBlock].free
  PROVE  /\ Layout(k) /\ Bl(k) = Bl(h)
         /\ \A a \in Addr : NextBlock(k, a) = NextBlock(h, a)
  <1>1. Bl(k) = Bl(h)
    BY DEF Bl
  <1>2. \A a \in Addr : NextBlock(k, a) = NextBlock(h, a)
    BY DEF NextBlock
  <1>3. \A b \in Bl(k) \ {LastBlock} : Fits(k, b)
    <2> TAKE b \in Bl(k) \ {LastBlock}
    <2>1. Fits(h, b) /\ b \in Addr
      BY <1>1 DEF Layout, Bl
    <2> QED BY <1>1, <1>2, <2>1 DEF Fits
  <1> QED BY <1>1, <1>2, <1>3, AddrIs DEF Layout

LEMMA TagsStay ==
  ASSUME NEW h, Layout(h), NEW k \in Heaps, SameTags(h, k)
  PROVE  /\ Layout(k) /\ Bl(k) = Bl(h) /\ Fr(k) = Fr(h)
         /\ \A b : Held(k, b) = Held(h, b)
         /\ \A a \in Addr : NextBlock(k, a) = NextBlock(h, a)
  <1>1. \A a \in Addr : k.hdr[a].size = h.hdr[a].size /\ (h.hdr[a].size < 0 => Empty(k, a))
    BY DEF SameTags, SameTag, Layout, Empty
  <1>2. ~k.hdr[0].free /\ ~k.hdr[LastBlock].free
    BY AddrIs DEF SameTags, SameTag, Layout
  <1>3. /\ Layout(k) /\ Bl(k) = Bl(h)
        /\ \A a \in Addr : NextBlock(k, a) = NextBlock(h, a)
    BY <1>1, <1>2, SizesStay
  <1>4. \A a \in Bl(h) : k.hdr[a].free = h.hdr[a].free
    BY DEF Bl, SameTags, SameTag
  <1> QED BY <1>3, <1>4 DEF Fr, Held

(* What a tag says of the block behind it. *)
Tag(h, a) ==
  LET n == NextBlock(h, a)
  IN  /\ h.hdr[n].prevFree = h.hdr[a].free
      /\ h.hdr[a].free => h.hdr[n].prevHdr = a /\ ~h.hdr[n].free

LEMMA TagStays ==
  ASSUME NEW h, Layout(h), NEW k, SameTags(h, k), NEW a \in Bl(h) \ {LastBlock}, Tag(h, a)
  PROVE  Tag(k, a)
  <1>1. a \in Addr /\ NextBlock(h, a) \in Addr
    BY NextIs
  <1>2. SameTag(h, k, a) /\ SameTag(h, k, NextBlock(h, a))
    BY <1>1 DEF SameTags
  <1>3. NextBlock(k, a) = NextBlock(h, a)
    BY <1>2 DEF SameTag, NextBlock
  <1> QED BY <1>2, <1>3 DEF Tag, SameTag

(* k is h with b and the block behind it made one. *)
Joined(h, k, b) ==
  LET n == NextBlock(h, b)
  IN  /\ k \in Heaps /\ Empty(k, n)
      /\ k.hdr[b].size = MergedSize(h, b, n) /\ k.hdr[b].free = h.hdr[b].free
      /\ k.hdr[b].prevFree = h.hdr[b].prevFree /\ k.hdr[b].prevHdr = h.hdr[b].prevHdr
      /\ \A a \in Addr \ {b, n} : SameTag(h, k, a)

LEMMA JoinedIs ==
  ASSUME NEW h, Layout(h), NEW b \in Bl(h) \ {LastBlock}, NextBlock(h, b) # LastBlock,
         NEW k, Joined(h, k, b)
  PROVE  LET n == NextBlock(h, b)
         IN  /\ n \in Bl(h) \ {0, LastBlock, b}
             /\ Layout(k) /\ Bl(k) = Bl(h) \ {n} /\ NextBlock(k, b) = NextBlock(h, n)
             /\ \A a \in Bl(h) \ {b, n} : NextBlock(k, a) = NextBlock(h, a)
             /\ \A a \in Bl(h) \ {b, n, LastBlock} : Tag(h, a) => Tag(k, a)
  <1> DEFINE n == NextBlock(h, b)
             m == NextBlock(h, n)
             s == h.hdr[b].size
             t == h.hdr[n].size
  <1>1. /\ n \in Bl(h) \ {0, LastBlock, b} /\ n \in Addr /\ b \in Addr
        /\ s \in Nat /\ s >= Align /\ s % Align = 0 /\ n = b + Align + s /\ n > b
    <2>1. /\ s \in Nat /\ s >= Align /\ s % Align = 0 /\ n = b + Align + s /\ n \in Bl(h)
          /\ b \in Addr /\ n \in Addr /\ n > b /\ n # 0 /\ n # LastBlock
      BY NextIs
    <2>2. b \in Nat /\ n \in Nat
      BY <2>1, AddrIs
    <2> HIDE DEF n, s
    <2> QED BY <2>1, <2>2
  <1>2. /\ m \in Bl(h) /\ m \in Addr /\ t \in Nat /\ t >= Align /\ t % Align = 0
        /\ m = n + Align + t /\ m > n
    BY <1>1, NextIs
  <1>3. /\ k \in Heaps /\ Empty(k, n) /\ k.hdr[b].size = s + t + Align
        /\ k.hdr[b].free = h.hdr[b].free /\ k.hdr[b].prevFree = h.hdr[b].prevFree
        /\ k.hdr[b].prevHdr = h.hdr[b].prevHdr /\ \A a \in Addr \ {b, n} : SameTag(h, k, a)
    BY DEF Joined, MergedSize, Overhead
  <1>4. n = NextBlock(h, b) /\ m = NextBlock(h, n) /\ n # LastBlock /\ h \in Heaps
    BY <1>1 DEF Layout
  <1>5. Align \in Nat \ {0} /\ Align % Align = 0 /\ b \in Nat
    <2>1. Align * 1 = Align /\ Align \in Nat \ {0}
      BY ConstantsAre
    <2>2. Align % Align = 0
      BY <2>1, ModOfProduct
    <2>3. b \in Nat
      BY <1>1, AddrIs
    <2> QED BY <2>1, <2>2, <2>3
  <1> HIDE DEF n, m, s, t
  <1>6. Bl(k) = Bl(h) \ {n}
    <2>1. \A a \in Addr : (k.hdr[a].size >= 0) <=> (h.hdr[a].size >= 0 /\ a # n)
      <3> TAKE a \in Addr
      <3>1. CASE a = n
        BY <1>3, <3>1 DEF Empty
      <3>2. CASE a = b
        BY <1>1, <1>2, <1>3, <1>5, <3>2 DEF s
      <3>3. CASE a # b /\ a # n
        BY <1>3, <3>3 DEF SameTag
      <3> QED BY <3>1, <3>2, <3>3
    <2> QED BY <2>1 DEF Bl
  <1>7. NextBlock(k, b) = m
    BY <1>1, <1>2, <1>3, <1>5 DEF NextBlock, After, Overhead
  <1>8. \A a \in Bl(h) \ {b, n} : NextBlock(k, a) = NextBlock(h, a)
    BY <1>3 DEF NextBlock, SameTag, Bl
  <1>9. \A a \in Bl(h) \ {b, n, LastBlock} : NextBlock(h, a) # n /\ NextBlock(h, a) \in Bl(h)
    <2> TAKE a \in Bl(h) \ {b, n, LastBlock}
    <2>1. b \in Bl(h) \ {LastBlock}
      OBVIOUS
    <2>2. NextBlock(h, a) # NextBlock(h, b)
      BY <2>1, OnePrev
    <2> QED BY <1>4, <2>2, NextIs
  <1>10. (s + t) + Align \in Nat /\ (s + t + Align) % Align = 0
    <2>0. s \in Nat /\ t \in Nat /\ Align \in Nat \ {0} /\ Align \in Nat /\ s % Align = 0 /\ t % Align = 0
      BY <1>1, <1>2, <1>5
    <2>1. (s + t) % Align = 0 /\ s + t \in Nat
      <3>1. (s + t) % Align = 0
        BY <2>0, ModSum, Zenon
      <3> QED BY <2>0, <3>1
    <2>2. ((s + t) + Align) % Align = 0
      BY <1>5, <2>0, <2>1, ModSum
    <2> QED BY <1>1, <1>2, <1>5, <2>2
  <1>11. \A a \in Bl(k) \ {LastBlock} : Fits(k, a)
    <2> TAKE a \in Bl(k) \ {LastBlock}
    <2>1. CASE a = b
      <3>1. k.hdr[b].size >= MinBlock /\ k.hdr[b].size % Align = 0
        BY <1>1, <1>2, <1>3, <1>5, <1>10 DEF MinBlock
      <3>2. m \in Bl(k)
        <4>1. m # n
          BY <1>1, <1>2, AddrIs
        <4> QED BY <1>2, <1>6, <4>1
      <3>3. ASSUME NEW x \in Bl(k) PROVE x <= b \/ x >= m
        <4>1. x \in Bl(h) /\ x # n /\ x \in Nat /\ n \in Nat /\ m \in Nat
          BY <1>1, <1>2, <1>6, AddrIs DEF Bl
        <4>2. n \in Bl(h) \ {LastBlock}
          BY <1>1, <1>4
        <4>3. (x <= b \/ x >= n) /\ (x <= n \/ x >= m)
          BY <1>4, <4>1, <4>2, Apart
        <4> QED BY <1>5, <4>1, <4>3
      <3> QED BY <1>7, <2>1, <3>1, <3>2, <3>3 DEF Fits
    <2>2. CASE a # b
      <3>1. a \in Bl(h) \ {b, n, LastBlock} /\ a \in Addr
        BY <1>6, <2>2 DEF Bl
      <3>2. Fits(h, a) /\ SameTag(h, k, a) /\ NextBlock(k, a) = NextBlock(h, a) /\ NextBlock(h, a) # n
        BY <1>3, <1>8, <1>9, <3>1 DEF Layout
      <3> QED BY <1>6, <3>2 DEF Fits, SameTag
    <2> QED BY <2>1, <2>2
  <1>12. \A a \in Addr : k.hdr[a].size < 0 => Empty(k, a)
    <2> SUFFICES ASSUME NEW a \in Addr, k.hdr[a].size < 0 PROVE Empty(k, a)
      OBVIOUS
    <2>1. a # b
      BY <1>1, <1>2, <1>3, <1>5
    <2>2. CASE a = n
      BY <1>3, <2>2
    <2>3. CASE a # n
      BY <1>3, <2>1, <2>3 DEF SameTag, Layout, Empty
    <2> QED BY <2>2, <2>3
  <1>13. /\ {0, LastBlock} \subseteq Bl(k) /\ k.hdr[LastBlock].size = 0
         /\ ~k.hdr[0].free /\ ~k.hdr[LastBlock].free
    <2>1. {0, LastBlock} \subseteq Bl(k)
      BY <1>1, <1>6 DEF Layout
    <2>2. SameTag(h, k, LastBlock)
      BY <1>1, <1>3, AddrIs
    <2>3. k.hdr[0].free = h.hdr[0].free
      BY <1>1, <1>3, AddrIs DEF SameTag
    <2> QED BY <2>1, <2>2, <2>3 DEF Layout, SameTag
  <1>14. Layout(k)
    BY <1>3, <1>11, <1>12, <1>13 DEF Layout
  <1>15. ASSUME NEW a \in Bl(h) \ {b, n, LastBlock}, Tag(h, a) PROVE Tag(k, a)
    <2> DEFINE y == NextBlock(h, a)
    <2>1. a \in Addr /\ SameTag(h, k, a) /\ NextBlock(k, a) = y
      BY <1>3, <1>8, <1>15 DEF Bl
    <2>2. y \in Addr /\ y # n
      BY <1>9 DEF Bl
    <2>3. k.hdr[y].free = h.hdr[y].free /\ k.hdr[y].prevFree = h.hdr[y].prevFree /\ k.hdr[y].prevHdr = h.hdr[y].prevHdr
      BY <1>3, <2>2 DEF SameTag
    <2> QED BY <1>15, <2>1, <2>3 DEF Tag, SameTag
  <1> QED BY <1>1, <1>4, <1>6, <1>7, <1>8, <1>14, <1>15 DEF n

(* k is h with b cut to s bytes and a free block of the rest. *)
Cut(h, k, b, s) ==
  LET c == After(b, s)
      n == NextBlock(h, b)
  IN  /\ k \in Heaps /\ k.hdr[b].size = s /\ ~k.hdr[b].free
      /\ k.hdr[b].prevFree = h.hdr[b].prevFree /\ k.hdr[b].prevHdr = h.hdr[b].prevHdr
      /\ k.hdr[c].size = h.hdr[b].size - s - Align /\ k.hdr[c].free /\ ~k.hdr[c].prevFree
      /\ k.hdr[n].size = h.hdr[n].size /\ k.hdr[n].free = h.hdr[n].free
      /\ k.hdr[n].prevFree /\ k.hdr[n].prevHdr = c
      /\ \A a \in Addr \ {b, c, n} : SameTag(h, k, a)

LEMMA CutAt ==
  ASSUME NEW h, Layout(h), NEW b \in Bl(h) \ {LastBlock},
         NEW s \in Nat, s >= Align, s % Align = 0, h.hdr[b].size - s >= 2 * Align
  PROVE  LET c == After(b, s)
             n == NextBlock(h, b)
         IN  /\ c \in Addr /\ c > b /\ c < n /\ c \notin Bl(h) /\ c # 0 /\ c # LastBlock
             /\ c = b + Align + s /\ n \in Bl(h) /\ n \in Addr /\ n # b
             /\ h.hdr[b].size \in Nat /\ n = b + Align + h.hdr[b].size
  <1> DEFINE c == After(b, s)
             n == NextBlock(h, b)
             t == h.hdr[b].size
  <1>1. /\ n \in Bl(h) /\ n \in Addr /\ n \in Nat /\ b \in Addr /\ b \in Nat /\ n # b /\ n <= LastBlock
        /\ t \in Nat /\ n = b + Align + t /\ b % Align = 0 /\ t - s >= 2 * Align /\ LastBlock \in Nat
    BY NextIs, AddrIs
  <1>2. Align \in Nat \ {0} /\ Align % Align = 0
    <2>1. Align * 1 = Align /\ Align \in Nat \ {0}
      BY ConstantsAre
    <2> QED BY <2>1, ModOfProduct
  <1>3. c = b + Align + s
    BY DEF After, Overhead
  <1>4. c = NextBlock(h, b) => FALSE
    BY <1>1, <1>2, <1>3
  <1> HIDE DEF c, t
  <1>5. c \in Nat /\ c > b /\ c < n /\ c <= LastBlock /\ c # 0 /\ c # LastBlock
    <2> HIDE DEF n
    <2> QED BY <1>1, <1>2, <1>3
  <1>6. c % Align = 0
    <2>0. b \in Nat /\ Align \in Nat \ {0} /\ Align \in Nat /\ b % Align = 0 /\ Align % Align = 0
      BY <1>1, <1>2
    <2>1. (b + Align) % Align = 0 /\ b + Align \in Nat
      <3>1. (b + Align) % Align = 0
        BY <2>0, ModSum, Zenon
      <3> QED BY <2>0, <3>1
    <2>2. ((b + Align) + s) % Align = 0
      BY <2>0, <2>1, ModSum
    <2> QED BY <1>3, <2>2
  <1>7. c \in Addr
    BY <1>5, <1>6, AddrIs
  <1>8. c \notin Bl(h)
    <2>1. SUFFICES ASSUME c \in Bl(h) PROVE FALSE
      OBVIOUS
    <2>2. c <= b \/ c >= n
      BY <2>1, Apart
    <2> HIDE DEF n
    <2> QED BY <1>1, <1>5, <2>2
  <1> QED BY <1>1, <1>3, <1>5, <1>7, <1>8 DEF c, t

LEMMA CutIs ==
  ASSUME NEW h, Layout(h), NEW b \in Bl(h) \ {LastBlock},
         NEW s \in Nat, s >= Align, s % Align = 0, h.hdr[b].size - s >= 2 * Align,
         NEW k, Cut(h, k, b, s)
  PROVE  LET c == After(b, s)
             n == NextBlock(h, b)
         IN  /\ Layout(k) /\ Bl(k) = Bl(h) \cup {c}
             /\ \A a \in Bl(h) \ {b, LastBlock} : Tag(h, a) => Tag(k, a)
             /\ ~h.hdr[n].free => Tag(k, b) /\ Tag(k, c)
  <1> DEFINE c == After(b, s)
             n == NextBlock(h, b)
             t == h.hdr[b].size
  <1>1. /\ c \in Addr /\ c > b /\ c < n /\ c \notin Bl(h) /\ c # 0 /\ c # LastBlock
        /\ c = b + Align + s /\ n \in Bl(h) /\ n \in Addr /\ n # b
        /\ t \in Nat /\ n = b + Align + t /\ t - s >= 2 * Align
    BY CutAt
  <1>2. /\ k \in Heaps /\ k.hdr[b].size = s /\ ~k.hdr[b].free
        /\ k.hdr[b].prevFree = h.hdr[b].prevFree /\ k.hdr[b].prevHdr = h.hdr[b].prevHdr
        /\ k.hdr[c].size = t - s - Align /\ k.hdr[c].free /\ ~k.hdr[c].prevFree
        /\ k.hdr[n].size = h.hdr[n].size /\ k.hdr[n].free = h.hdr[n].free
        /\ k.hdr[n].prevFree /\ k.hdr[n].prevHdr = c
        /\ \A a \in Addr \ {b, c, n} : SameTag(h, k, a)
    BY DEF Cut
  <1>3. /\ Align \in Nat \ {0} /\ b \in Addr /\ b \in Nat /\ c \in Nat /\ n \in Nat /\ h \in Heaps
        /\ Align % Align = 0 /\ t % Align = 0
    <2>1. Align * 1 = Align /\ Align \in Nat \ {0}
      BY ConstantsAre
    <2>2. Align % Align = 0
      BY <2>1, ModOfProduct
    <2> QED BY <1>1, <2>1, <2>2, AddrIs, NextIs DEF Bl, Layout
  <1>4. n = NextBlock(h, b) /\ t = h.hdr[b].size /\ c = After(b, s)
    OBVIOUS
  <1> HIDE DEF c, n, t
  <1>5. c # n /\ c # b /\ t - s - Align \in Nat /\ t - s - Align >= Align
    BY <1>1, <1>3
  <1>6. Bl(k) = Bl(h) \cup {c}
    <2>1. \A a \in Addr : (k.hdr[a].size >= 0) <=> (h.hdr[a].size >= 0 \/ a = c)
      <3> TAKE a \in Addr
      <3>1. CASE a = b
        BY <1>1, <1>2, <1>4, <3>1
      <3>2. CASE a = c
        BY <1>2, <1>5, <3>2
      <3>3. CASE a = n
        BY <1>2, <1>5, <3>3
      <3>4. CASE a # b /\ a # c /\ a # n
        BY <1>2, <3>4 DEF SameTag
      <3> QED BY <3>1, <3>2, <3>3, <3>4
    <2> QED BY <1>1, <2>1 DEF Bl
  <1>7. NextBlock(k, b) = c /\ NextBlock(k, c) = n
    <2>1. NextBlock(k, b) = b + Align + s
      BY <1>2 DEF NextBlock, After, Overhead
    <2>2. NextBlock(k, c) = c + Align + (t - s - Align)
      BY <1>2 DEF NextBlock, After, Overhead
    <2> QED BY <1>1, <1>3, <2>1, <2>2
  <1>8. \A a \in Bl(h) \ {b} : NextBlock(k, a) = NextBlock(h, a) /\ a # c /\ a \in Addr
    <2> TAKE a \in Bl(h) \ {b}
    <2>1. a \in Addr /\ a # c
      BY <1>1 DEF Bl
    <2>2. k.hdr[a].size = h.hdr[a].size
      BY <1>2, <2>1 DEF SameTag
    <2> QED BY <2>1, <2>2 DEF NextBlock
  <1>9. \A a \in Bl(h) \ {b, LastBlock} : NextBlock(h, a) # n /\ NextBlock(h, a) \in Bl(h)
    <2> TAKE a \in Bl(h) \ {b, LastBlock}
    <2>1. b \in Bl(h) \ {LastBlock}
      OBVIOUS
    <2>2. NextBlock(h, a) # NextBlock(h, b)
      BY <2>1, OnePrev
    <2> QED BY <1>4, <2>2, NextIs
  <1>10. (t - s - Align) % Align = 0
    <2>0. /\ t \in Nat /\ t >= s /\ Align \in Nat \ {0} /\ Align \in Nat /\ t % Align = 0
          /\ Align % Align = 0 /\ t - s >= Align
      BY <1>1, <1>3
    <2>1. (t - s) % Align = 0 /\ t - s \in Nat
      <3>1. (t - s) % Align = 0
        BY <2>0, ModSum, Zenon
      <3> QED BY <2>0, <3>1
    <2>2. ((t - s) - Align) % Align = 0
      BY <2>0, <2>1, ModSum
    <2> QED BY <2>2
  <1>11. \A a \in Bl(k) \ {LastBlock} : Fits(k, a)
    <2> TAKE a \in Bl(k) \ {LastBlock}
    <2>0. \A x \in Bl(k) : x \in Nat /\ (x = c \/ (x \in Bl(h) /\ (x <= b \/ x >= n)))
      <3> TAKE x \in Bl(k)
      <3>1. x \in Bl(h) => x <= b \/ x >= n
        BY <1>4, Apart
      <3> QED BY <1>6, <3>1, AddrIs DEF Bl
    <2>1. CASE a = b
      <3>1. \A x \in Bl(k) : x <= b \/ x >= c
        BY <1>1, <1>3, <2>0
      <3> QED BY <1>2, <1>6, <1>7, <2>1, <3>1 DEF Fits, MinBlock
    <2>2. CASE a = c
      <3>1. \A x \in Bl(k) : x <= c \/ x >= n
        BY <1>1, <1>3, <2>0
      <3> QED BY <1>1, <1>2, <1>5, <1>6, <1>7, <1>10, <2>2, <3>1 DEF Fits, MinBlock
    <2>3. CASE a # b /\ a # c
      <3>1. a \in Bl(h) \ {b, LastBlock} /\ a \in Addr
        BY <1>6, <2>3 DEF Bl
      <3> DEFINE y == NextBlock(h, a)
      <3>2. Fits(h, a) /\ NextBlock(k, a) = y /\ y \in Bl(h) /\ y \in Nat /\ a \in Nat /\ a < y
        BY <1>8, <3>1, NextIs, AddrIs DEF Layout
      <3>3. k.hdr[a].size = h.hdr[a].size
        BY <1>2, <2>3, <3>1 DEF SameTag
      <3>4. c <= a \/ c >= y
        <4>1. (b <= a \/ b >= y) /\ (a <= b \/ a >= n)
          BY <1>4, <3>1, Apart
        <4> HIDE DEF y
        <4> QED BY <1>1, <1>3, <2>3, <3>2, <4>1
      <3>5. \A x \in Bl(k) : x <= a \/ x >= y
        BY <1>6, <3>2, <3>4 DEF Fits
      <3>6. h.hdr[a].size >= MinBlock /\ h.hdr[a].size % Align = 0
        BY <3>2 DEF Fits
      <3> HIDE DEF y
      <3> QED BY <1>6, <3>2, <3>3, <3>5, <3>6 DEF Fits
    <2> QED BY <2>1, <2>2, <2>3
  <1>12. \A a \in Addr : k.hdr[a].size < 0 => Empty(k, a)
    <2> SUFFICES ASSUME NEW a \in Addr, k.hdr[a].size < 0 PROVE Empty(k, a)
      OBVIOUS
    <2>1. a \notin Bl(k)
      BY <1>2, <1>6 DEF Heaps, Headers, Bl
    <2>2. a # b /\ a # c /\ a # n
      BY <1>1, <1>6, <2>1
    <2>3. SameTag(h, k, a)
      BY <1>2, <2>2
    <2> QED BY <2>3 DEF SameTag, Layout, Empty
  <1>13. /\ {0, LastBlock} \subseteq Bl(k) /\ k.hdr[LastBlock].size = 0
         /\ ~k.hdr[0].free /\ ~k.hdr[LastBlock].free
    <2>1. {0, LastBlock} \subseteq Bl(k) /\ 0 \in Addr /\ LastBlock \in Addr
      BY <1>6, AddrIs DEF Layout
    <2>2. k.hdr[LastBlock].size = h.hdr[LastBlock].size /\ k.hdr[LastBlock].free = h.hdr[LastBlock].free
      BY <1>1, <1>2, <2>1 DEF SameTag
    <2>3. ~h.hdr[0].free /\ ~h.hdr[LastBlock].free /\ h.hdr[LastBlock].size = 0
      BY DEF Layout
    <2>4. ~k.hdr[0].free
      BY <1>1, <1>2, <2>1, <2>3 DEF SameTag
    <2> QED BY <2>1, <2>2, <2>3, <2>4
  <1>14. Layout(k)
    BY <1>2, <1>11, <1>12, <1>13 DEF Layout
  <1>15. ASSUME NEW a \in Bl(h) \ {b, LastBlock}, Tag(h, a) PROVE Tag(k, a)
    <2> DEFINE y == NextBlock(h, a)
    <2>1. a \in Addr /\ a # c /\ NextBlock(k, a) = y /\ y \in Bl(h) /\ y # n
      BY <1>8, <1>9
    <2>2. k.hdr[a].free = h.hdr[a].free
      BY <1>2, <2>1, <1>15 DEF SameTag
    <2>3. y \in Addr /\ y # c
      BY <1>1, <2>1 DEF Bl
    <2>4. /\ k.hdr[y].prevFree = h.hdr[y].prevFree /\ k.hdr[y].prevHdr = h.hdr[y].prevHdr
          /\ ~h.hdr[y].free => ~k.hdr[y].free
      BY <1>2, <2>1, <2>3 DEF SameTag
    <2> QED BY <1>15, <2>1, <2>2, <2>4 DEF Tag
  <1>16. ~h.hdr[n].free => Tag(k, b) /\ Tag(k, c)
    <2>1. SUFFICES ASSUME ~h.hdr[n].free PROVE Tag(k, b) /\ Tag(k, c)
      OBVIOUS
    <2>2. k.hdr[c].prevFree = k.hdr[b].free
      <3>1. k.hdr[c].prevFree \in BOOLEAN /\ k.hdr[b].free \in BOOLEAN
        BY <1>1, <1>2, <1>3 DEF Heaps, Headers
      <3> QED BY <1>2, <3>1
    <2>3. k.hdr[n].prevFree = k.hdr[c].free
      <3>1. k.hdr[n].prevFree \in BOOLEAN /\ k.hdr[c].free \in BOOLEAN
        BY <1>1, <1>2 DEF Heaps, Headers
      <3> QED BY <1>2, <3>1
    <2>4. ~k.hdr[n].free
      BY <1>2, <2>1
    <2> QED BY <1>2, <1>7, <2>2, <2>3, <2>4 DEF Tag
  <1> QED BY <1>4, <1>6, <1>14, <1>15, <1>16

-----------------------------------------------------------------------------
(* Changes of a single tag. *)
SizeSet(h, k, b, s) ==
  /\ k \in Heaps /\ SameLists(h, k)
  /\ \A a \in Addr : /\ k.hdr[a].size = IF a = b THEN s ELSE h.hdr[a].size
                     /\ k.hdr[a].free = h.hdr[a].free
                     /\ k.hdr[a].prevFree = h.hdr[a].prevFree
                     /\ k.hdr[a].prevHdr = h.hdr[a].prevHdr
LEMMA SetsSize ==
  ASSUME NEW h \in Heaps, NEW b \in Addr, NEW s \in Int
  PROVE  SizeSet(h, [h EXCEPT !.hdr[b].size = s], b, s)
  <1> DEFINE r == [h.hdr[b] EXCEPT !.size = s]
             k == [h EXCEPT !.hdr[b] = r]
  <1>1. h.hdr[b] \in Headers
    BY DEF Heaps
  <1>2. /\ r \in Headers /\ r.next = h.hdr[b].next /\ r.prev = h.hdr[b].prev
        /\ r.size = s /\ r.free = h.hdr[b].free
        /\ r.prevFree = h.hdr[b].prevFree /\ r.prevHdr = h.hdr[b].prevHdr
    BY <1>1 DEF Headers
  <1>3. [h EXCEPT !.hdr[b].size = s] = k
    OBVIOUS
  <1> HIDE DEF r
  <1>4. /\ k \in Heaps /\ k.matrix = h.matrix /\ k.sl = h.sl /\ k.fl = h.fl
        /\ \A a \in Addr : k.hdr[a] = IF a = b THEN r ELSE h.hdr[a]
    BY <1>2, SetsHeader
  <1> HIDE DEF k
  <1>5. SizeSet(h, k, b, s)
    BY <1>2, <1>4 DEF SizeSet, SameLists, SameLink
  <1> QED BY <1>3, <1>5

FreeSet(h, k, b, f) ==
  /\ k \in Heaps /\ SameLists(h, k)
  /\ \A a \in Addr : /\ k.hdr[a].size = h.hdr[a].size
                     /\ k.hdr[a].free = IF a = b THEN f ELSE h.hdr[a].free
                     /\ k.hdr[a].prevFree = h.hdr[a].prevFree
                     /\ k.hdr[a].prevHdr = h.hdr[a].prevHdr
LEMMA SetsFree ==
  ASSUME NEW h \in Heaps, NEW b \in Addr, NEW f \in BOOLEAN
  PROVE  FreeSet(h, [h EXCEPT !.hdr[b].free = f], b, f)
  <1> DEFINE r == [h.hdr[b] EXCEPT !.free = f]
             k == [h EXCEPT !.hdr[b] = r]
  <1>1. h.hdr[b] \in Headers
    BY DEF Heaps
  <1>2. /\ r \in Headers /\ r.next = h.hdr[b].next /\ r.prev = h.hdr[b].prev
        /\ r.size = h.hdr[b].size /\ r.free = f
        /\ r.prevFree = h.hdr[b].prevFree /\ r.prevHdr = h.hdr[b].prevHdr
    BY <1>1 DEF Headers
  <1>3. [h EXCEPT !.hdr[b].free = f] = k
    OBVIOUS
  <1> HIDE DEF r
  <1>4. /\ k \in Heaps /\ k.matrix = h.matrix /\ k.sl = h.sl /\ k.fl = h.fl
        /\ \A a \in Addr : k.hdr[a] = IF a = b THEN r ELSE h.hdr[a]
    BY <1>2, SetsHeader
  <1> HIDE DEF k
  <1>5. FreeSet(h, k, b, f)
    BY <1>2, <1>4 DEF FreeSet, SameLists, SameLink
  <1> QED BY <1>3, <1>5

PrevFreeSet(h, k, b, f) ==
  /\ k \in Heaps /\ SameLists(h, k)
  /\ \A a \in Addr : /\ k.hdr[a].size = h.hdr[a].size
                     /\ k.hdr[a].free = h.hdr[a].free
                     /\ k.hdr[a].prevFree = IF a = b THEN f ELSE h.hdr[a].prevFree
                     /\ k.hdr[a].prevHdr = h.hdr[a].prevHdr
LEMMA SetsPrevFree ==
  ASSUME NEW h \in Heaps, NEW b \in Addr, NEW f \in BOOLEAN
  PROVE  PrevFreeSet(h, [h EXCEPT !.hdr[b].prevFree = f], b, f)
  <1> DEFINE r == [h.hdr[b] EXCEPT !.prevFree = f]
             k == [h EXCEPT !.hdr[b] = r]
  <1>1. h.hdr[b] \in Headers
    BY DEF Heaps
  <1>2. /\ r \in Headers /\ r.next = h.hdr[b].next /\ r.prev = h.hdr[b].prev
        /\ r.size = h.hdr[b].size /\ r.free = h.hdr[b].free
        /\ r.prevFree = f /\ r.prevHdr = h.hdr[b].prevHdr
    BY <1>1 DEF Headers
  <1>3. [h EXCEPT !.hdr[b].prevFree = f] = k
    OBVIOUS
  <1> HIDE DEF r
  <1>4. /\ k \in Heaps /\ k.matrix = h.matrix /\ k.sl = h.sl /\ k.fl = h.fl
        /\ \A a \in Addr : k.hdr[a] = IF a = b THEN r ELSE h.hdr[a]
    BY <1>2, SetsHeader
  <1> HIDE DEF k
  <1>5. PrevFreeSet(h, k, b, f)
    BY <1>2, <1>4 DEF PrevFreeSet, SameLists, SameLink
  <1> QED BY <1>3, <1>5

PrevHdrSet(h, k, b, p) ==
  /\ k \in Heaps /\ SameLists(h, k)
  /\ \A a \in Addr : /\ k.hdr[a].size = h.hdr[a].size
                     /\ k.hdr[a].free = h.hdr[a].free
                     /\ k.hdr[a].prevFree = h.hdr[a].prevFree
                     /\ k.hdr[a].prevHdr = IF a = b THEN p ELSE h.hdr[a].prevHdr
LEMMA SetsPrevHdr ==
  ASSUME NEW h \in Heaps, NEW b \in Addr, NEW p \in Links
  PROVE  PrevHdrSet(h, [h EXCEPT !.hdr[b].prevHdr = p], b, p)
  <1> DEFINE r == [h.hdr[b] EXCEPT !.prevHdr = p]
             k == [h EXCEPT !.hdr[b] = r]
  <1>1. h.hdr[b] \in Headers
    BY DEF Heaps
  <1>2. /\ r \in Headers /\ r.next = h.hdr[b].next /\ r.prev = h.hdr[b].prev
        /\ r.size = h.hdr[b].size /\ r.free = h.hdr[b].free
        /\ r.prevFree = h.hdr[b].prevFree /\ r.prevHdr = p
    BY <1>1 DEF Headers
  <1>3. [h EXCEPT !.hdr[b].prevHdr = p] = k
    OBVIOUS
  <1> HIDE DEF r
  <1>4. /\ k \in Heaps /\ k.matrix = h.matrix /\ k.sl = h.sl /\ k.fl = h.fl
        /\ \A a \in Addr : k.hdr[a] = IF a = b THEN r ELSE h.hdr[a]
    BY <1>2, SetsHeader
  <1> HIDE DEF k
  <1>5. PrevHdrSet(h, k, b, p)
    BY <1>2, <1>4 DEF PrevHdrSet, SameLists, SameLink
  <1> QED BY <1>3, <1>5

LEMMA ListsSame ==
  ASSUME NEW h, NEW k, NEW l, SameLists(h, k), SameLists(k, l)
  PROVE  SameLists(h, l)
  BY DEF SameLists, SameLink

(* A heap between two calls, and one whose block b is in no list while its  *)
(* tag is being written.                                                    *)
Sound(h) ==
  /\ Layout(h) /\ Lists(h, Fr(h))
  /\ \A a \in Bl(h) \ {LastBlock} : Tag(h, a)
Loose(h, b) ==
  /\ Layout(h) /\ Lists(h, Fr(h) \ {b})
  /\ b \in Bl(h) \ {0, LastBlock} /\ ~h.hdr[NextBlock(h, b)].free
  /\ \A a \in Bl(h) \ {LastBlock, b} : Tag(h, a)
SameSizes(h, k, S) == \A a \in S : k.hdr[a].size = h.hdr[a].size

LEMMA FreeIsInner ==
  ASSUME NEW h, Layout(h), NEW b \in Fr(h)
  PROVE  b \in Bl(h) \ {0, LastBlock} /\ b \in Addr /\ h.hdr[b].free
  BY DEF Fr, Bl, Layout

(* The first block of a list, taken out. *)
LEMMA TakeOut ==
  ASSUME NEW h, Sound(h), NEW c \in Class, h.matrix[c] # Null
  PROVE  LET b == h.matrix[c]
             k == ExtractHdr(h, b, c)
         IN  /\ b \in Fr(h) /\ ClassOf(h, b) = c /\ Loose(k, b) /\ SameTags(h, k)
  <1> DEFINE b == h.matrix[c]
             k == ExtractHdr(h, b, c)
  <1>1. Layout(h) /\ h \in Heaps /\ \A a \in Bl(h) \ {LastBlock} : Tag(h, a)
    BY DEF Sound, Layout
  <1>2. PICK rank : Ranked(h, Fr(h), rank)
    BY DEF Sound, Lists
  <1>3. b \in Fr(h) /\ Unlinked(h, k, b)
    BY <1>1, <1>2, ExtractHdrUnlinks
  <1>4. ClassOf(h, b) = c
    BY <1>2 DEF Ranked
  <1> HIDE DEF k, b
  <1>5. Lists(k, Fr(h) \ {b}) /\ SameTags(h, k) /\ k \in Heaps
    BY <1>1, <1>2, <1>3, UnlinkedLists DEF Unlinked
  <1>6. /\ Layout(k) /\ Bl(k) = Bl(h) /\ Fr(k) = Fr(h)
        /\ \A a \in Addr : NextBlock(k, a) = NextBlock(h, a)
    BY <1>1, <1>5, TagsStay
  <1>7. b \in Bl(h) \ {0, LastBlock} /\ b \in Addr /\ h.hdr[b].free
    BY <1>1, <1>3, FreeIsInner
  <1>8. \A a \in Bl(k) \ {LastBlock} : Tag(k, a)
    BY <1>1, <1>5, <1>6, TagStays
  <1>9. k.hdr[b].free
    BY <1>5, <1>7 DEF SameTags, SameTag
  <1>10. ~k.hdr[NextBlock(k, b)].free
    BY <1>6, <1>7, <1>8, <1>9 DEF Tag
  <1>11. Loose(k, b)
    BY <1>5, <1>6, <1>7, <1>8, <1>10 DEF Loose
  <1> QED BY <1>3, <1>4, <1>5, <1>11 DEF k, b

(* Two neighbours made one, one of them just unlinked. *)
LEMMA Merges ==
  ASSUME NEW h, Layout(h), NEW b \in Bl(h) \ {LastBlock}, NEW G,
         NEW k \in Heaps, SameTags(h, k), Lists(k, G), b \notin G, NextBlock(h, b) \notin G
  PROVE  LET n == NextBlock(h, b)
             l == Merge(h, k, b, n)
         IN  Joined(h, l, b) /\ Lists(l, G)
  <1> DEFINE n == NextBlock(h, b)
             s == MergedSize(h, b, n)
             k1 == [k EXCEPT !.hdr[b].size = s]
             l == [k1 EXCEPT !.hdr[n] = Blank]
  <1>0. Merge(h, k, b, n) = l
    BY DEF Merge
  <1>1. n \in Addr /\ n # b /\ b \in Addr /\ n \in Nat /\ b \in Nat /\ n > b
    <2>1. n \in Addr /\ b \in Addr /\ n > b
      BY NextIs
    <2>2. n \in Nat /\ b \in Nat
      BY <2>1, AddrIs
    <2> HIDE DEF n
    <2> QED BY <2>1, <2>2
  <1>2. s \in Int
    <2>1. h \in Heaps
      BY DEF Layout
    <2>2. h.hdr[b].size \in Int /\ h.hdr[n].size \in Int /\ Align \in Int
      BY <1>1, <2>1, ConstantsAre DEF Heaps, Headers
    <2> QED BY <2>2 DEF MergedSize, Overhead
  <1>3. Blank \in Headers
    BY DEF Blank, Header, Headers, Links
  <1>4. n = NextBlock(h, b) /\ s = MergedSize(h, b, n)
    OBVIOUS
  <1> HIDE DEF n, s
  <1>5. /\ k1 \in Heaps /\ SameLists(k, k1)
        /\ \A a \in Addr : /\ k1.hdr[a].size = IF a = b THEN s ELSE k.hdr[a].size
                           /\ k1.hdr[a].free = k.hdr[a].free
                           /\ k1.hdr[a].prevFree = k.hdr[a].prevFree
                           /\ k1.hdr[a].prevHdr = k.hdr[a].prevHdr
    <2>2. SizeSet(k, k1, b, s)
      BY <1>1, <1>2, SetsSize
    <2> HIDE DEF k1
    <2> QED BY <2>2 DEF SizeSet
  <1> HIDE DEF k1
  <1>6. /\ l \in Heaps /\ l.matrix = k1.matrix /\ l.sl = k1.sl /\ l.fl = k1.fl
        /\ \A a \in Addr : l.hdr[a] = IF a = n THEN Blank ELSE k1.hdr[a]
    BY <1>1, <1>3, <1>5, SetsHeader
  <1> HIDE DEF l
  <1>7. SameLists(k, l)
    <2>1. k.hdr[n].next = Null /\ k.hdr[n].prev = Null
      BY <1>1, <1>4 DEF Lists, Ranked
    <2>2. \A a \in Addr : SameLink(k, l, a)
      <3> TAKE a \in Addr
      <3>1. CASE a = n
        BY <1>6, <2>1, <3>1 DEF SameLink, Blank, Header
      <3>2. CASE a # n
        BY <1>5, <1>6, <3>2 DEF SameLists, SameLink
      <3> QED BY <3>1, <3>2
    <2> QED BY <1>5, <1>6, <2>2 DEF SameLists
  <1>8. Lists(l, G)
    <2>1. \A a \in G : l.hdr[a].size = k.hdr[a].size
      <3> TAKE a \in G
      <3>1. a \in Addr /\ a # n /\ a # b
        BY <1>4 DEF Lists, Ranked
      <3> QED BY <1>5, <1>6, <3>1
    <2> QED BY <1>6, <1>7, <2>1, ListsStay
  <1>9. Empty(l, n)
    BY <1>1, <1>6 DEF Empty, Blank, Header
  <1>10. /\ l.hdr[b].size = s /\ l.hdr[b].free = h.hdr[b].free
         /\ l.hdr[b].prevFree = h.hdr[b].prevFree /\ l.hdr[b].prevHdr = h.hdr[b].prevHdr
    BY <1>1, <1>5, <1>6 DEF SameTags, SameTag
  <1>11. \A a \in Addr \ {b, n} : SameTag(h, l, a)
    BY <1>5, <1>6 DEF SameTags, SameTag
  <1>12. Joined(h, l, b)
    BY <1>4, <1>6, <1>9, <1>10, <1>11 DEF Joined
  <1> QED BY <1>0, <1>4, <1>8, <1>12

(* A free block behind b is taken in. *)
LEMMA SwallowIs ==
  ASSUME NEW h, Sound(h), NEW b \in Bl(h) \ {0, LastBlock}, ~h.hdr[b].free,
         h.hdr[NextBlock(h, b)].free
  PROVE  LET n == NextBlock(h, b)
             k == Swallow(h, b, n)
         IN  /\ Loose(k, b) /\ Held(k, b) = Held(h, b) /\ SameSizes(h, k, Held(h, b))
             /\ k.hdr[b].size = MergedSize(h, b, n) /\ ~k.hdr[b].free
             /\ k.hdr[b].prevFree = h.hdr[b].prevFree /\ k.hdr[b].prevHdr = h.hdr[b].prevHdr
             /\ NextBlock(k, b) = NextBlock(h, n) /\ h.hdr[n].size \in Nat /\ h.hdr[n].size >= Align
             /\ n \in Fr(h) /\ Bl(k) = Bl(h) \ {n}
  <1> DEFINE n == NextBlock(h, b)
             e == ExtractFree(h, n)
             k == Merge(h, e, b, n)
             m == NextBlock(h, n)
  <1>0. Swallow(h, b, n) = k
    BY DEF Swallow
  <1>1. Layout(h) /\ h \in Heaps /\ \A a \in Bl(h) \ {LastBlock} : Tag(h, a)
    BY DEF Sound, Layout
  <1>2. PICK rank : Ranked(h, Fr(h), rank)
    BY DEF Sound, Lists
  <1>3. n \in Fr(h) /\ n # LastBlock /\ n # b /\ n \in Bl(h) \ {LastBlock}
    <2>1. n \in Bl(h)
      BY <1>1, NextIs
    <2> QED BY <1>1, <2>1 DEF Fr, Layout
  <1>4. e = Extract(h, n, ClassOf(h, n))
    BY DEF ExtractFree, ClassOf
  <1>5. Unlinked(h, e, n)
    BY <1>1, <1>2, <1>3, <1>4, ExtractUnlinks
  <1>6. n = NextBlock(h, b) /\ m = NextBlock(h, n)
    OBVIOUS
  <1> HIDE DEF e
  <1>7. Lists(e, Fr(h) \ {n}) /\ SameTags(h, e) /\ e \in Heaps
    BY <1>1, <1>2, <1>3, <1>5, UnlinkedLists DEF Unlinked
  <1>8. b \notin Fr(h) \ {n} /\ n \notin Fr(h) \ {n}
    BY DEF Fr
  <1>9. Joined(h, k, b) /\ Lists(k, Fr(h) \ {n})
    BY <1>1, <1>7, <1>8, Merges
  <1> HIDE DEF k
  <1>10. /\ Layout(k) /\ Bl(k) = Bl(h) \ {n} /\ NextBlock(k, b) = m
         /\ \A a \in Bl(h) \ {b, n, LastBlock} : Tag(h, a) => Tag(k, a)
    BY <1>1, <1>3, <1>9, JoinedIs
  <1>11. /\ k.hdr[b].size = MergedSize(h, b, n) /\ k.hdr[b].free = h.hdr[b].free
         /\ k.hdr[b].prevFree = h.hdr[b].prevFree /\ k.hdr[b].prevHdr = h.hdr[b].prevHdr
         /\ \A a \in Addr \ {b, n} : SameTag(h, k, a)
    BY <1>9 DEF Joined
  <1>12. ~h.hdr[m].free /\ m \in Addr /\ m # n /\ m # b /\ h.hdr[n].size \in Nat /\ h.hdr[n].size >= Align
    <2>1. h.hdr[n].free
      BY <1>3 DEF Fr
    <2>2. Tag(h, n)
      BY <1>1, <1>3
    <2>3. ~h.hdr[m].free
      BY <2>1, <2>2 DEF Tag
    <2>4. m \in Addr /\ m > n /\ n > b /\ n \in Addr /\ b \in Addr /\ h.hdr[n].size \in Nat /\ h.hdr[n].size >= Align
      BY <1>1, <1>3, NextIs
    <2>5. m \in Nat /\ n \in Nat /\ b \in Nat
      BY <2>4, AddrIs
    <2> HIDE DEF m, n
    <2> QED BY <2>3, <2>4, <2>5
  <1> HIDE DEF n, m
  <1>13. ~k.hdr[m].free
    BY <1>11, <1>12 DEF SameTag
  <1>14. \A a \in Bl(k) : a # b => SameTag(h, k, a)
    BY <1>10, <1>11 DEF Bl
  <1>15. Fr(k) \ {b} = Fr(h) \ {n}
    <2>1. \A a \in Bl(h) \ {n} : k.hdr[a].free = h.hdr[a].free
      BY <1>10, <1>11, <1>14 DEF SameTag
    <2>2. b \notin Fr(h)
      BY DEF Fr
    <2> QED BY <1>10, <2>1, <2>2 DEF Fr
  <1>16. Held(k, b) = Held(h, b) /\ SameSizes(h, k, Held(h, b))
    <2>1. \A a \in Bl(h) \ {b, n} : k.hdr[a].free = h.hdr[a].free /\ k.hdr[a].size = h.hdr[a].size
      BY <1>10, <1>14 DEF SameTag
    <2>2. n \notin Held(h, b)
      BY <1>3 DEF Fr, Held
    <2>3. Held(k, b) = Held(h, b)
      BY <1>10, <2>1, <2>2 DEF Held, Fr
    <2>4. \A a \in Held(h, b) : a \in Bl(h) \ {b, n}
      BY <2>2 DEF Held
    <2> QED BY <2>1, <2>3, <2>4 DEF SameSizes
  <1>17. Loose(k, b)
    <2>1. b \in Bl(k) \ {0, LastBlock}
      BY <1>3, <1>10
    <2>2. \A a \in Bl(k) \ {LastBlock, b} : Tag(k, a)
      BY <1>1, <1>10
    <2> QED BY <1>9, <1>10, <1>13, <1>15, <2>1, <2>2 DEF Loose
  <1> QED BY <1>0, <1>3, <1>6, <1>10, <1>11, <1>12, <1>16, <1>17

(* A block in no list is taken in by the free block in front of it. *)
LEMMA FrontIs ==
  ASSUME NEW h, NEW b, Loose(h, b), h.hdr[b].prevFree
  PROVE  LET p == h.hdr[b].prevHdr
             k == SwallowInto(h, p, b)
         IN  /\ Loose(k, p) /\ Held(k, p) = Held(h, b) /\ SameSizes(h, k, Held(h, b))
             /\ k.hdr[p].free /\ p \in Fr(h)
  <1> DEFINE p == h.hdr[b].prevHdr
             e == ExtractFree(h, p)
             k == Merge(h, e, p, b)
             m == NextBlock(h, b)
  <1>0. SwallowInto(h, p, b) = k
    BY DEF SwallowInto
  <1>1. /\ Layout(h) /\ h \in Heaps /\ Lists(h, Fr(h) \ {b}) /\ b \in Bl(h) \ {0, LastBlock}
        /\ ~h.hdr[m].free /\ \A a \in Bl(h) \ {LastBlock, b} : Tag(h, a)
    BY DEF Loose, Layout
  <1>2. PICK q \in Bl(h) \ {LastBlock} : NextBlock(h, q) = b /\ q # b
    BY <1>1, PrevIs
  <1>3. Tag(h, q)
    BY <1>1, <1>2
  <1>4. p = q /\ h.hdr[q].free
    BY <1>2, <1>3 DEF Tag
  <1>5. p \in Fr(h) /\ p \in Fr(h) \ {b} /\ NextBlock(h, p) = b /\ p \in Bl(h) \ {LastBlock}
    BY <1>2, <1>4 DEF Fr
  <1>6. PICK rank : Ranked(h, Fr(h) \ {b}, rank)
    BY <1>1 DEF Lists
  <1>7. e = Extract(h, p, ClassOf(h, p))
    BY DEF ExtractFree, ClassOf
  <1>8. Unlinked(h, e, p)
    BY <1>1, <1>5, <1>6, <1>7, ExtractUnlinks
  <1>9. p = h.hdr[b].prevHdr /\ m = NextBlock(h, b)
    OBVIOUS
  <1> HIDE DEF e, p
  <1>10. Lists(e, (Fr(h) \ {b}) \ {p}) /\ SameTags(h, e) /\ e \in Heaps
    BY <1>1, <1>5, <1>6, <1>8, UnlinkedLists DEF Unlinked
  <1>11. p \notin (Fr(h) \ {b}) \ {p} /\ b \notin (Fr(h) \ {b}) \ {p}
    OBVIOUS
  <1>12. Joined(h, k, p) /\ Lists(k, (Fr(h) \ {b}) \ {p})
    BY <1>1, <1>5, <1>10, <1>11, Merges
  <1> HIDE DEF k
  <1>13. /\ Layout(k) /\ Bl(k) = Bl(h) \ {b} /\ NextBlock(k, p) = m
         /\ \A a \in Bl(h) \ {p, b, LastBlock} : Tag(h, a) => Tag(k, a)
    BY <1>1, <1>5, <1>12, JoinedIs
  <1>14. k.hdr[p].free = h.hdr[p].free /\ \A a \in Addr \ {p, b} : SameTag(h, k, a)
    BY <1>5, <1>12 DEF Joined
  <1>15. p \in Bl(h) \ {0, LastBlock} /\ p \in Addr /\ h.hdr[p].free /\ p # b
    BY <1>1, <1>5, FreeIsInner
  <1>16. m \in Addr /\ m # p /\ m # b
    <2>1. m \in Addr /\ m > b /\ b > p /\ b \in Addr
      BY <1>1, <1>5, NextIs
    <2>2. m \in Nat /\ b \in Nat /\ p \in Nat
      BY <1>15, <2>1, AddrIs
    <2> HIDE DEF m
    <2> QED BY <2>1, <2>2
  <1> HIDE DEF m
  <1>17. ~k.hdr[m].free
    BY <1>1, <1>14, <1>16 DEF SameTag, m
  <1>18. \A a \in Bl(h) \ {p, b} : k.hdr[a].free = h.hdr[a].free /\ k.hdr[a].size = h.hdr[a].size
    BY <1>14 DEF Bl, SameTag
  <1>19. Fr(k) \ {p} = (Fr(h) \ {b}) \ {p}
    BY <1>13, <1>18 DEF Fr
  <1>20. Held(k, p) = Held(h, b) /\ SameSizes(h, k, Held(h, b))
    <2>1. p \notin Held(h, b)
      BY <1>15 DEF Held
    <2>2. Held(k, p) = Held(h, b)
      BY <1>13, <1>18, <2>1 DEF Held
    <2>3. \A a \in Held(h, b) : a \in Bl(h) \ {p, b}
      BY <2>1 DEF Held
    <2> QED BY <1>18, <2>2, <2>3 DEF SameSizes
  <1>21. Loose(k, p)
    <2>1. p \in Bl(k) \ {0, LastBlock}
      BY <1>13, <1>15
    <2>2. \A a \in Bl(k) \ {LastBlock, p} : Tag(k, a)
      BY <1>1, <1>13
    <2> QED BY <1>12, <1>13, <1>17, <1>19, <2>1, <2>2 DEF Loose
  <1> QED BY <1>0, <1>5, <1>9, <1>14, <1>15, <1>20, <1>21

(* The three ends of an operation.  First: b is in use as a whole. *)
Closed(h, k, b) ==
  LET n == NextBlock(h, b)
  IN  /\ k \in Heaps /\ SameLists(h, k) /\ ~k.hdr[b].free /\ ~k.hdr[n].prevFree
      /\ \A a \in Addr : /\ k.hdr[a].size = h.hdr[a].size
                         /\ a # b => k.hdr[a].free = h.hdr[a].free
                         /\ a # n => /\ k.hdr[a].prevFree = h.hdr[a].prevFree
                                     /\ k.hdr[a].prevHdr = h.hdr[a].prevHdr
LEMMA ClosedIsSound ==
  ASSUME NEW h, NEW b, Loose(h, b), NEW k, Closed(h, k, b)
  PROVE  /\ Sound(k) /\ Held(k, Null) = Held(h, b) \cup {b}
         /\ SameSizes(h, k, Held(k, Null)) /\ Bl(k) = Bl(h) /\ Fr(k) = Fr(h) \ {b}
  <1> DEFINE n == NextBlock(h, b)
  <1>1. /\ Layout(h) /\ h \in Heaps /\ Lists(h, Fr(h) \ {b}) /\ b \in Bl(h) \ {0, LastBlock}
        /\ ~h.hdr[n].free /\ \A a \in Bl(h) \ {LastBlock, b} : Tag(h, a)
    BY DEF Loose, Layout
  <1>2. /\ k \in Heaps /\ SameLists(h, k) /\ ~k.hdr[b].free /\ ~k.hdr[n].prevFree
        /\ \A a \in Addr : /\ k.hdr[a].size = h.hdr[a].size
                           /\ a # b => k.hdr[a].free = h.hdr[a].free
                           /\ a # n => /\ k.hdr[a].prevFree = h.hdr[a].prevFree
                                       /\ k.hdr[a].prevHdr = h.hdr[a].prevHdr
    BY DEF Closed
  <1>3. n \in Bl(h) /\ n \in Addr /\ b \in Addr /\ n # b /\ b \in Bl(h) \ {LastBlock}
    <2>1. b \in Bl(h) \ {LastBlock}
      BY <1>1
    <2>2. n \in Bl(h) /\ n \in Addr /\ n > b /\ b \in Addr
      BY <1>1, <2>1, NextIs
    <2>3. n \in Nat /\ b \in Nat
      BY <2>2, AddrIs
    <2> HIDE DEF n
    <2> QED BY <2>1, <2>2, <2>3
  <1>4. n = NextBlock(h, b)
    OBVIOUS
  <1> HIDE DEF n
  <1>5. \A a \in Addr : h.hdr[a].size < 0 => Empty(k, a)
    <2> SUFFICES ASSUME NEW a \in Addr, h.hdr[a].size < 0 PROVE Empty(k, a)
      OBVIOUS
    <2>1. h.hdr[a].size \in Int /\ h.hdr[b].size >= 0 /\ h.hdr[n].size >= 0
      BY <1>1, <1>3 DEF Heaps, Headers, Bl
    <2>2. a # b /\ a # n
      BY <2>1
    <2>3. Empty(h, a)
      BY <1>1 DEF Layout
    <2> QED BY <1>2, <2>2, <2>3 DEF Empty
  <1>6. ~k.hdr[0].free /\ ~k.hdr[LastBlock].free
    BY <1>1, <1>2, AddrIs DEF Layout
  <1>7. /\ Layout(k) /\ Bl(k) = Bl(h)
        /\ \A a \in Addr : NextBlock(k, a) = NextBlock(h, a)
    BY <1>1, <1>2, <1>5, <1>6, SizesStay
  <1>8. Fr(k) = Fr(h) \ {b}
    BY <1>2, <1>7 DEF Fr, Bl
  <1>9. Lists(k, Fr(k))
    <2>1. \A a \in Fr(h) \ {b} : k.hdr[a].size = h.hdr[a].size
      BY <1>2 DEF Fr, Bl
    <2> QED BY <1>1, <1>2, <1>8, <2>1, ListsStay
  <1>10. \A a \in Bl(k) \ {LastBlock} : Tag(k, a)
    <2> TAKE a \in Bl(k) \ {LastBlock}
    <2>0. a \in Bl(h) \ {LastBlock} /\ a \in Addr
      BY <1>7 DEF Bl
    <2>1. CASE a = b
      <3>1. k.hdr[n].prevFree = k.hdr[b].free
        <4>1. k.hdr[n].prevFree \in BOOLEAN /\ k.hdr[b].free \in BOOLEAN
          BY <1>2, <1>3 DEF Heaps, Headers
        <4> QED BY <1>2, <4>1
      <3> QED BY <1>2, <1>3, <1>4, <1>7, <2>1, <3>1 DEF Tag
    <2>2. CASE a # b
      <3> DEFINE y == NextBlock(h, a)
      <3>1. Tag(h, a) /\ NextBlock(k, a) = y /\ y \in Addr
        BY <1>1, <1>7, <2>0, <2>2, NextIs
      <3>2. y # n
        BY <1>1, <1>3, <1>4, <2>0, <2>2, OnePrev
      <3>3. k.hdr[a].free = h.hdr[a].free
        BY <1>2, <2>0, <2>2
      <3>4. /\ k.hdr[y].prevFree = h.hdr[y].prevFree /\ k.hdr[y].prevHdr = h.hdr[y].prevHdr
            /\ ~h.hdr[y].free => ~k.hdr[y].free
        BY <1>2, <3>1, <3>2
      <3> QED BY <3>1, <3>3, <3>4 DEF Tag
    <2> QED BY <2>1, <2>2
  <1>11. Held(k, Null) = Held(h, b) \cup {b}
    <2>1. Null \notin Bl(h)
      BY NullIsNone DEF Bl
    <2>2. \A a \in Bl(h) \ {b} : k.hdr[a].free = h.hdr[a].free
      BY <1>2 DEF Bl
    <2> QED BY <1>2, <1>3, <1>7, <2>1, <2>2 DEF Held
  <1>12. SameSizes(h, k, Held(k, Null))
    BY <1>2, <1>7 DEF SameSizes, Held, Bl
  <1> QED BY <1>7, <1>8, <1>9, <1>10, <1>11, <1>12 DEF Sound

(* Second: b is in use, cut to s bytes. *)
LEMMA SplitIsSound ==
  ASSUME NEW h, NEW b, Loose(h, b),
         NEW s \in Nat, s >= Align, s % Align = 0, Splits(h.hdr[b].size, s)
  PROVE  LET k == SplitOff(h, b, h.hdr[b].size, s)
         IN  /\ Sound(k) /\ Held(k, Null) = Held(h, b) \cup {b}
             /\ SameSizes(h, k, Held(h, b)) /\ k.hdr[b].size = s
  <1> DEFINE t == h.hdr[b].size
             c == After(b, s)
             n == NextBlock(h, b)
             r == Header(t - s - Overhead, TRUE, FALSE, h.hdr[c].prevHdr)
             k1 == [h EXCEPT !.hdr[c] = r]
             k2 == [k1 EXCEPT !.hdr[n].prevHdr = c]
             k3 == [k2 EXCEPT !.hdr[n].prevFree = TRUE]
             k4 == [k3 EXCEPT !.hdr[b].size = s]
             k5 == [k4 EXCEPT !.hdr[b].free = FALSE]
             k == InsertFree(k5, c)
  <1>0. SplitOff(h, b, t, s) = k
    BY DEF SplitOff, NextBlock
  <1>1. /\ Layout(h) /\ h \in Heaps /\ Lists(h, Fr(h) \ {b}) /\ b \in Bl(h) \ {0, LastBlock}
        /\ ~h.hdr[n].free /\ \A a \in Bl(h) \ {LastBlock, b} : Tag(h, a)
        /\ b \in Bl(h) \ {LastBlock} /\ b \in Addr
    BY DEF Loose, Layout, Bl
  <1>2. t - s >= 2 * Align /\ Overhead = Align
    BY DEF Splits, BhdrSize, Overhead
  <1>3. /\ c \in Addr /\ c > b /\ c < n /\ c \notin Bl(h) /\ c # 0 /\ c # LastBlock
        /\ n \in Addr /\ n # b /\ t \in Nat
    BY <1>1, <1>2, CutAt
  <1>4. c # n /\ c # b /\ b # n /\ t - s - Align \in Int /\ b \in Nat
    <2>1. b \in Nat /\ c \in Nat /\ n \in Nat /\ Align \in Nat
      BY <1>1, <1>3, AddrIs, ConstantsAre
    <2> HIDE DEF c, n, t
    <2> QED BY <1>3, <2>1
  <1>5. r \in Headers /\ r.size = t - s - Align /\ r.free /\ ~r.prevFree /\ r.next = Null /\ r.prev = Null
    <2>1. h.hdr[c].prevHdr \in Links /\ Null \in Links
      BY <1>1, <1>3 DEF Heaps, Headers, Links
    <2> QED BY <1>2, <1>4, <2>1 DEF Header, Headers
  <1>6. t = h.hdr[b].size /\ c = After(b, s) /\ n = NextBlock(h, b)
    OBVIOUS
  <1> HIDE DEF t, c, n, r
  <1>7. /\ k1 \in Heaps /\ k1.matrix = h.matrix /\ k1.sl = h.sl /\ k1.fl = h.fl
        /\ \A a \in Addr : k1.hdr[a] = IF a = c THEN r ELSE h.hdr[a]
    BY <1>1, <1>3, <1>5, SetsHeader
  <1> HIDE DEF k1
  <1>8. SameLists(h, k1)
    <2>1. h.hdr[c].next = Null /\ h.hdr[c].prev = Null
      <3>1. c \in Addr \ (Fr(h) \ {b})
        BY <1>3 DEF Fr
      <3> QED BY <1>1, <3>1 DEF Lists, Ranked
    <2>2. \A a \in Addr : SameLink(h, k1, a)
      BY <1>5, <1>7, <2>1 DEF SameLink
    <2> QED BY <1>7, <2>2 DEF SameLists
  <1>9. /\ k2 \in Heaps /\ SameLists(k1, k2)
        /\ \A a \in Addr : /\ k2.hdr[a].size = k1.hdr[a].size /\ k2.hdr[a].free = k1.hdr[a].free
                           /\ k2.hdr[a].prevFree = k1.hdr[a].prevFree
                           /\ k2.hdr[a].prevHdr = IF a = n THEN c ELSE k1.hdr[a].prevHdr
    <2>1. c \in Links
      BY <1>3 DEF Links
    <2>2. PrevHdrSet(k1, k2, n, c)
      BY <1>3, <1>7, <2>1, SetsPrevHdr
    <2> HIDE DEF k2
    <2> QED BY <2>2 DEF PrevHdrSet
  <1> HIDE DEF k2
  <1>10. /\ k3 \in Heaps /\ SameLists(k2, k3)
         /\ \A a \in Addr : /\ k3.hdr[a].size = k2.hdr[a].size /\ k3.hdr[a].free = k2.hdr[a].free
                            /\ k3.hdr[a].prevFree = IF a = n THEN TRUE ELSE k2.hdr[a].prevFree
                            /\ k3.hdr[a].prevHdr = k2.hdr[a].prevHdr
    <2>1. k2 \in Heaps /\ n \in Addr /\ TRUE \in BOOLEAN
      BY <1>3, <1>9
    <2>2. PrevFreeSet(k2, k3, n, TRUE)
      BY <2>1, SetsPrevFree
    <2> HIDE DEF k3
    <2> QED BY <2>2 DEF PrevFreeSet
  <1> HIDE DEF k3
  <1>11. /\ k4 \in Heaps /\ SameLists(k3, k4)
         /\ \A a \in Addr : /\ k4.hdr[a].size = IF a = b THEN s ELSE k3.hdr[a].size
                            /\ k4.hdr[a].free = k3.hdr[a].free
                            /\ k4.hdr[a].prevFree = k3.hdr[a].prevFree
                            /\ k4.hdr[a].prevHdr = k3.hdr[a].prevHdr
    <2>2. SizeSet(k3, k4, b, s)
      BY <1>1, <1>10, SetsSize
    <2> HIDE DEF k4
    <2> QED BY <2>2 DEF SizeSet
  <1> HIDE DEF k4
  <1>12. /\ k5 \in Heaps /\ SameLists(k4, k5)
         /\ \A a \in Addr : /\ k5.hdr[a].size = k4.hdr[a].size
                            /\ k5.hdr[a].free = IF a = b THEN FALSE ELSE k4.hdr[a].free
                            /\ k5.hdr[a].prevFree = k4.hdr[a].prevFree
                            /\ k5.hdr[a].prevHdr = k4.hdr[a].prevHdr
    <2>2. FreeSet(k4, k5, b, FALSE)
      BY <1>1, <1>11, SetsFree
    <2> HIDE DEF k5
    <2> QED BY <2>2 DEF FreeSet
  <1> HIDE DEF k5
  <1>13. SameLists(h, k5)
    BY <1>8, <1>9, <1>10, <1>11, <1>12, ListsSame
  <1>31. \A a \in Addr : k5.hdr[a].size = IF a = b THEN s ELSE k1.hdr[a].size
    <2> TAKE a \in Addr
    <2>1. k3.hdr[a].size = k1.hdr[a].size
      BY <1>9, <1>10
    <2>2. k5.hdr[a].size = k4.hdr[a].size
      BY <1>12
    <2>3. k4.hdr[a].size = IF a = b THEN s ELSE k3.hdr[a].size
      BY <1>11
    <2> QED BY <2>1, <2>2, <2>3
  <1>32. \A a \in Addr : k5.hdr[a].free = IF a = b THEN FALSE ELSE k1.hdr[a].free
    <2> TAKE a \in Addr
    <2>1. k4.hdr[a].free = k1.hdr[a].free
      BY <1>9, <1>10, <1>11
    <2> QED BY <1>12, <2>1
  <1>33. \A a \in Addr : k5.hdr[a].prevFree = IF a = n THEN TRUE ELSE k1.hdr[a].prevFree
    <2> TAKE a \in Addr
    <2>1. k5.hdr[a].prevFree = k3.hdr[a].prevFree /\ k2.hdr[a].prevFree = k1.hdr[a].prevFree
      BY <1>9, <1>11, <1>12
    <2> QED BY <1>10, <2>1
  <1>34. \A a \in Addr : k5.hdr[a].prevHdr = IF a = n THEN c ELSE k1.hdr[a].prevHdr
    <2> TAKE a \in Addr
    <2>1. k5.hdr[a].prevHdr = k2.hdr[a].prevHdr
      BY <1>10, <1>11, <1>12
    <2> QED BY <1>9, <2>1
  <1>14. /\ k5.hdr[b].size = s /\ ~k5.hdr[b].free
         /\ k5.hdr[b].prevFree = h.hdr[b].prevFree /\ k5.hdr[b].prevHdr = h.hdr[b].prevHdr
    BY <1>1, <1>4, <1>7, <1>31, <1>32, <1>33, <1>34
  <1>15. k5.hdr[c].size = t - s - Align /\ k5.hdr[c].free /\ ~k5.hdr[c].prevFree
    BY <1>3, <1>4, <1>5, <1>7, <1>31, <1>32, <1>33
  <1>16. /\ k5.hdr[n].size = h.hdr[n].size /\ k5.hdr[n].free = h.hdr[n].free
         /\ k5.hdr[n].prevFree /\ k5.hdr[n].prevHdr = c
    BY <1>3, <1>4, <1>7, <1>31, <1>32, <1>33, <1>34
  <1>17. \A a \in Addr \ {b, c, n} : SameTag(h, k5, a)
    BY <1>7, <1>31, <1>32, <1>33, <1>34 DEF SameTag
  <1>18. Cut(h, k5, b, s)
    BY <1>6, <1>12, <1>14, <1>15, <1>16, <1>17 DEF Cut
  <1>19. /\ Layout(k5) /\ Bl(k5) = Bl(h) \cup {c}
         /\ \A a \in Bl(h) \ {b, LastBlock} : Tag(h, a) => Tag(k5, a)
         /\ Tag(k5, b) /\ Tag(k5, c)
    BY <1>1, <1>2, <1>6, <1>18, CutIs
  <1>20. \A a \in Bl(h) \ {b} : a \in Addr /\ a # c /\ k5.hdr[a].size = h.hdr[a].size /\ k5.hdr[a].free = h.hdr[a].free
    <2> TAKE a \in Bl(h) \ {b}
    <2>1. a \in Addr /\ a # c
      BY <1>3 DEF Bl
    <2>2. CASE a = n
      BY <1>16, <2>1, <2>2
    <2>3. CASE a # n
      BY <1>17, <2>1, <2>3 DEF SameTag
    <2> QED BY <2>1, <2>2, <2>3
  <1>21. Fr(k5) = (Fr(h) \ {b}) \cup {c}
    <2>1. \A a : a \in Fr(k5) <=> (a \in Fr(h) \ {b} \/ a = c)
      BY <1>14, <1>15, <1>19, <1>20 DEF Fr
    <2> QED BY <2>1
  <1>22. Lists(k5, Fr(h) \ {b})
    <2>1. \A a \in Fr(h) \ {b} : k5.hdr[a].size = h.hdr[a].size
      BY <1>20 DEF Fr
    <2> QED BY <1>1, <1>12, <1>13, <2>1, ListsStay
  <1>23. ClassOf(k5, c) \in Class
    BY <1>3, <1>19, SizeIs
  <1>24. Linked(k5, k, c)
    BY <1>3, <1>12, <1>23, InsertLinks
  <1>25. c \notin Fr(h) \ {b}
    BY <1>3 DEF Fr
  <1> HIDE DEF k
  <1>26. Lists(k, Fr(k5)) /\ SameTags(k5, k) /\ k \in Heaps
    <2>1. SameTags(k5, k) /\ k \in Heaps
      BY <1>24 DEF Linked
    <2>2. Lists(k, (Fr(h) \ {b}) \cup {c})
      <3>1. c \in Addr /\ k5 \in Heaps
        BY <1>3, <1>12
      <3> QED BY <1>22, <1>23, <1>24, <1>25, <3>1, LinkedLists
    <2> QED BY <1>21, <2>1, <2>2
  <1>27. Layout(k) /\ Bl(k) = Bl(k5) /\ Fr(k) = Fr(k5) /\ Held(k, Null) = Held(k5, Null)
    BY <1>19, <1>26, TagsStay
  <1>28. \A a \in Bl(k) \ {LastBlock} : Tag(k, a)
    <2>1. \A a \in Bl(k5) \ {LastBlock} : Tag(k5, a)
      BY <1>1, <1>19
    <2> QED BY <1>19, <1>26, <1>27, <2>1, TagStays
  <1>29. Held(k, Null) = Held(h, b) \cup {b}
    <2>1. Null \notin Bl(k5)
      BY NullIsNone DEF Bl
    <2>2. \A a : a \in Held(k5, Null) <=> (a \in Held(h, b) \/ a = b)
      BY <1>1, <1>14, <1>15, <1>19, <1>20, <2>1 DEF Held
    <2> QED BY <1>27, <2>2
  <1>30. SameSizes(h, k, Held(h, b)) /\ k.hdr[b].size = s
    <2>1. \A a \in Held(h, b) : a \in Bl(h) \ {b}
      BY DEF Held
    <2> QED BY <1>1, <1>14, <1>20, <1>26, <2>1 DEF SameSizes, SameTags, SameTag
  <1> QED BY <1>0, <1>6, <1>26, <1>27, <1>28, <1>29, <1>30 DEF Sound

(* Third: b is free. *)
LEMMA ReleasedIsSound ==
  ASSUME NEW h, NEW b, Loose(h, b), h.hdr[b].free \/ ~h.hdr[b].prevFree
  PROVE  LET k == Released(h, b)
         IN  /\ Sound(k) /\ Held(k, Null) = Held(h, b) /\ SameSizes(h, k, Held(h, b))
  <1> DEFINE n == NextBlock(h, b)
             k1 == [h EXCEPT !.hdr[b].free = TRUE]
             k2 == InsertFree(k1, b)
             k3 == [k2 EXCEPT !.hdr[n].prevFree = TRUE]
             k == [k3 EXCEPT !.hdr[n].prevHdr = b]
  <1>1. /\ Layout(h) /\ h \in Heaps /\ Lists(h, Fr(h) \ {b}) /\ b \in Bl(h) \ {0, LastBlock}
        /\ ~h.hdr[n].free /\ \A a \in Bl(h) \ {LastBlock, b} : Tag(h, a)
        /\ b \in Bl(h) \ {LastBlock} /\ b \in Addr
    BY DEF Loose, Layout, Bl
  <1>2. n \in Bl(h) /\ n \in Addr /\ n # b
    <2>1. n \in Bl(h) /\ n \in Addr /\ n > b
      BY <1>1, NextIs
    <2>2. n \in Nat /\ b \in Nat
      BY <1>1, <2>1, AddrIs
    <2> HIDE DEF n
    <2> QED BY <2>1, <2>2
  <1>3. n = NextBlock(h, b)
    OBVIOUS
  <1>4. /\ k1 \in Heaps /\ SameLists(h, k1)
        /\ \A a \in Addr : /\ k1.hdr[a].size = h.hdr[a].size
                           /\ k1.hdr[a].free = IF a = b THEN TRUE ELSE h.hdr[a].free
                           /\ k1.hdr[a].prevFree = h.hdr[a].prevFree
                           /\ k1.hdr[a].prevHdr = h.hdr[a].prevHdr
    <2>1. h \in Heaps /\ b \in Addr /\ TRUE \in BOOLEAN
      BY <1>1
    <2>2. FreeSet(h, k1, b, TRUE)
      BY <2>1, SetsFree
    <2> HIDE DEF k1
    <2> QED BY <2>2 DEF FreeSet
  <1>5. k1 = [h EXCEPT !.hdr[b].free = TRUE]
    OBVIOUS
  <1> HIDE DEF k1, n
  <1>6. /\ Layout(k1) /\ Bl(k1) = Bl(h)
        /\ \A a \in Addr : NextBlock(k1, a) = NextBlock(h, a)
    <2>1. \A a \in Addr : h.hdr[a].size < 0 => Empty(k1, a)
      <3> SUFFICES ASSUME NEW a \in Addr, h.hdr[a].size < 0 PROVE Empty(k1, a)
        OBVIOUS
      <3>1. h.hdr[a].size \in Int /\ h.hdr[b].size >= 0
        BY <1>1 DEF Heaps, Headers, Bl
      <3>2. a # b
        BY <3>1
      <3>3. Empty(h, a)
        BY <1>1 DEF Layout
      <3> QED BY <1>4, <3>2, <3>3 DEF Empty
    <2>2. ~k1.hdr[0].free /\ ~k1.hdr[LastBlock].free
      <3>1. /\ 0 \in Addr /\ LastBlock \in Addr /\ b # 0 /\ b # LastBlock
            /\ ~h.hdr[0].free /\ ~h.hdr[LastBlock].free
        BY <1>1, AddrIs DEF Layout
      <3>2. \A a \in Addr : a # b => k1.hdr[a].free = h.hdr[a].free
        BY <1>4
      <3> QED BY <3>1, <3>2
    <2>3. /\ k1 \in Heaps
          /\ \A a \in Addr : k1.hdr[a].size = h.hdr[a].size /\ (h.hdr[a].size < 0 => Empty(k1, a))
      BY <1>4, <2>1
    <2> QED BY <1>1, <2>2, <2>3, SizesStay
  <1>7. ClassOf(k1, b) \in Class
    BY <1>1, <1>6, SizeIs
  <1>8. Lists(k1, Fr(h) \ {b})
    <2>1. \A a \in Fr(h) \ {b} : k1.hdr[a].size = h.hdr[a].size
      BY <1>4 DEF Fr, Bl
    <2> QED BY <1>1, <1>4, <2>1, ListsStay
  <1>9. Linked(k1, k2, b)
    BY <1>1, <1>4, <1>7, InsertLinks
  <1>10. Lists(k2, Fr(h) \cup {b})
    <2>1. b \notin Fr(h) \ {b} /\ (Fr(h) \ {b}) \cup {b} = Fr(h) \cup {b}
      OBVIOUS
    <2>2. Lists(k2, (Fr(h) \ {b}) \cup {b})
      BY <1>1, <1>4, <1>7, <1>8, <1>9, <2>1, LinkedLists
    <2> QED BY <2>1, <2>2
  <1>11. SameTags(k1, k2) /\ k2 \in Heaps
    BY <1>9 DEF Linked
  <1>12. NextBlock(k2, b) = n
    <2>1. k2.hdr[b].size = h.hdr[b].size
      BY <1>1, <1>4, <1>11 DEF SameTags, SameTag
    <2> QED BY <2>1 DEF NextBlock, n
  <1>13. Released(h, b) = k
    <2> DEFINE x == NextBlock(k2, b)
    <2>1. Released(h, b) = [[k2 EXCEPT !.hdr[x].prevFree = TRUE] EXCEPT !.hdr[x].prevHdr = b]
      BY <1>5 DEF Released
    <2>2. x = n
      BY <1>12
    <2> HIDE DEF x, k2
    <2> QED BY <2>1, <2>2
  <1> HIDE DEF k2
  <1>14. /\ k3 \in Heaps /\ SameLists(k2, k3)
         /\ \A a \in Addr : /\ k3.hdr[a].size = k2.hdr[a].size /\ k3.hdr[a].free = k2.hdr[a].free
                            /\ k3.hdr[a].prevFree = IF a = n THEN TRUE ELSE k2.hdr[a].prevFree
                            /\ k3.hdr[a].prevHdr = k2.hdr[a].prevHdr
    <2>1. k2 \in Heaps /\ n \in Addr /\ TRUE \in BOOLEAN
      BY <1>2, <1>11
    <2>2. PrevFreeSet(k2, k3, n, TRUE)
      BY <2>1, SetsPrevFree
    <2> HIDE DEF k3
    <2> QED BY <2>2 DEF PrevFreeSet
  <1> HIDE DEF k3
  <1>15. /\ k \in Heaps /\ SameLists(k3, k)
         /\ \A a \in Addr : /\ k.hdr[a].size = k3.hdr[a].size /\ k.hdr[a].free = k3.hdr[a].free
                            /\ k.hdr[a].prevFree = k3.hdr[a].prevFree
                            /\ k.hdr[a].prevHdr = IF a = n THEN b ELSE k3.hdr[a].prevHdr
    <2>1. k3 \in Heaps /\ n \in Addr /\ b \in Links
      BY <1>1, <1>2, <1>14 DEF Links
    <2>2. PrevHdrSet(k3, k, n, b)
      BY <2>1, SetsPrevHdr
    <2> HIDE DEF k
    <2> QED BY <2>2 DEF PrevHdrSet
  <1> HIDE DEF k
  <1>16. \A a \in Addr : k.hdr[a].size = h.hdr[a].size
    <2> TAKE a \in Addr
    <2>1. k.hdr[a].size = k2.hdr[a].size
      BY <1>14, <1>15
    <2>2. k2.hdr[a].size = h.hdr[a].size
      BY <1>4, <1>11 DEF SameTags, SameTag
    <2> QED BY <2>1, <2>2
  <1>17. \A a \in Addr : k.hdr[a].free = IF a = b THEN TRUE ELSE h.hdr[a].free
    <2> TAKE a \in Addr
    <2>1. k.hdr[a].free = k1.hdr[a].free
      BY <1>11, <1>14, <1>15 DEF SameTags, SameTag
    <2> QED BY <1>4, <2>1
  <1>18. \A a \in Addr : k.hdr[a].prevFree = IF a = n THEN TRUE ELSE h.hdr[a].prevFree
    <2> TAKE a \in Addr
    <2>1. k.hdr[a].prevFree = k3.hdr[a].prevFree /\ k2.hdr[a].prevFree = h.hdr[a].prevFree
      BY <1>4, <1>11, <1>15 DEF SameTags, SameTag
    <2> QED BY <1>14, <2>1
  <1>19. \A a \in Addr : k.hdr[a].prevHdr = IF a = n THEN b ELSE h.hdr[a].prevHdr
    <2> TAKE a \in Addr
    <2>1. k3.hdr[a].prevHdr = h.hdr[a].prevHdr
      BY <1>4, <1>11, <1>14 DEF SameTags, SameTag
    <2> QED BY <1>15, <2>1
  <1>20. /\ Layout(k) /\ Bl(k) = Bl(h)
         /\ \A a \in Addr : NextBlock(k, a) = NextBlock(h, a)
    <2>1. \A a \in Addr : h.hdr[a].size < 0 => Empty(k, a)
      <3> SUFFICES ASSUME NEW a \in Addr, h.hdr[a].size < 0 PROVE Empty(k, a)
        OBVIOUS
      <3>1. h.hdr[a].size \in Int /\ h.hdr[b].size >= 0 /\ h.hdr[n].size >= 0
        BY <1>1, <1>2 DEF Heaps, Headers, Bl
      <3>2. a # b /\ a # n
        BY <3>1
      <3>3. Empty(h, a)
        BY <1>1 DEF Layout
      <3> QED BY <1>16, <1>17, <1>18, <1>19, <3>2, <3>3 DEF Empty
    <2>2. ~k.hdr[0].free /\ ~k.hdr[LastBlock].free
      BY <1>1, <1>17, AddrIs DEF Layout
    <2> QED BY <1>1, <1>15, <1>16, <2>1, <2>2, SizesStay
  <1>21. Fr(k) = Fr(h) \cup {b}
    <2>1. \A a : a \in Fr(k) <=> (a \in Fr(h) \/ a = b)
      BY <1>1, <1>17, <1>20 DEF Fr, Bl
    <2> QED BY <2>1
  <1>22. Lists(k, Fr(k))
    <2>1. SameLists(k2, k)
      BY <1>14, <1>15, ListsSame
    <2>2. \A a \in Fr(h) \cup {b} : k.hdr[a].size = k2.hdr[a].size
      BY <1>1, <1>14, <1>15 DEF Fr, Bl
    <2> QED BY <1>10, <1>11, <1>15, <1>21, <2>1, <2>2, ListsStay
  <1>23. \A a \in Bl(k) \ {LastBlock} : Tag(k, a)
    <2> TAKE a \in Bl(k) \ {LastBlock}
    <2>0. a \in Bl(h) \ {LastBlock} /\ a \in Addr
      BY <1>20 DEF Bl
    <2>1. CASE a = b
      <3>1. k.hdr[n].prevFree = TRUE /\ k.hdr[b].free = TRUE /\ k.hdr[n].prevHdr = b
        BY <1>1, <1>2, <1>17, <1>18, <1>19
      <3>2. ~k.hdr[n].free
        BY <1>1, <1>2, <1>17
      <3> QED BY <1>1, <1>3, <1>20, <2>1, <3>1, <3>2 DEF Tag
    <2>2. CASE a # b
      <3> DEFINE y == NextBlock(h, a)
      <3>1. Tag(h, a) /\ NextBlock(k, a) = y /\ y \in Addr
        BY <1>1, <1>20, <2>0, <2>2, NextIs
      <3>2. y # n
        BY <1>1, <1>2, <1>3, <2>0, <2>2, OnePrev
      <3>3. k.hdr[a].free = h.hdr[a].free
        BY <1>17, <2>0, <2>2
      <3>4. k.hdr[y].prevFree = h.hdr[y].prevFree /\ k.hdr[y].prevHdr = h.hdr[y].prevHdr
        BY <1>18, <1>19, <3>1, <3>2
      <3>5. h.hdr[a].free => ~k.hdr[y].free
        <4>1. SUFFICES ASSUME h.hdr[a].free PROVE ~k.hdr[y].free
          OBVIOUS
        <4>2. ~h.hdr[y].free /\ h.hdr[y].prevFree = h.hdr[a].free
          BY <3>1, <4>1 DEF Tag
        <4>3. y # b
          BY <4>1, <4>2
        <4> QED BY <1>17, <3>1, <4>2, <4>3
      <3> HIDE DEF y
      <3>6. Tag(h, a) /\ y = NextBlock(h, a)
        BY <3>1 DEF y
      <3> QED BY <3>1, <3>3, <3>4, <3>5, <3>6 DEF Tag
    <2> QED BY <2>1, <2>2
  <1>24. Held(k, Null) = Held(h, b)
    <2>1. Null \notin Bl(h)
      BY NullIsNone DEF Bl
    <2>2. \A a : a \in Held(k, Null) <=> a \in Held(h, b)
      BY <1>1, <1>17, <1>20, <2>1 DEF Held, Bl
    <2> QED BY <2>2
  <1>25. SameSizes(h, k, Held(h, b))
    BY <1>16 DEF SameSizes, Held, Bl
  <1> QED BY <1>13, <1>20, <1>22, <1>23, <1>24, <1>25 DEF Sound

-----------------------------------------------------------------------------
(* The calls. *)
LEMMA MinIs ==
  ASSUME NEW S \in SUBSET Nat, S # {}
  PROVE  Min(S) \in S /\ \A y \in S : Min(S) <= y
  <1>1. PICK m \in S : \A y \in S : m <= y
    BY LeastOf
  <1> QED BY <1>1 DEF Min

(* The search finds the first list that is not empty, if there is one. *)
LEMMA FindIs ==
  ASSUME NEW h, Sound(h), NEW c \in Class
  PROVE  \/ /\ FindSuitable(h, c) = {}
            /\ \A d \in Class : Before(c, d) => h.matrix[d] = Null
         \/ \E d \in Class : /\ FindSuitable(h, c) = {d} /\ Before(c, d)
                             /\ h.matrix[d] # Null
  <1> DEFINE same == {s \in c[2] .. MaxSli - 1 : <<c[1], s>> \in h.sl}
             above == {f \in h.fl : f > c[1]}
             f0 == Min(above)
             row == {s \in 0 .. MaxSli - 1 : <<f0, s>> \in h.sl}
  <1>1. h.sl = {d \in Class : h.matrix[d] # Null} /\ h.fl = {d[1] : d \in h.sl}
    BY DEF Sound, Lists, Ranked
  <1>2. \A d \in Class : d[1] \in Nat /\ d[2] \in 0 .. MaxSli - 1 /\ d = <<d[1], d[2]>>
    BY MappingAssumption DEF Class
  <1>3. MaxSli \in Nat
    BY ConstantsAre
  <1>4. FindSuitable(h, c) =
          IF same # {} THEN {<<c[1], Min(same)>>}
          ELSE IF above = {} THEN {} ELSE {<<f0, Min(row)>>}
    BY DEF FindSuitable
  <1>5. CASE same # {}
    <2>1. same \in SUBSET Nat
      BY <1>2, <1>3
    <2> DEFINE s == Min(same)
    <2>2. s \in same
      <3> HIDE DEF same
      <3> QED BY <1>5, <2>1, MinIs
    <2>3. <<c[1], s>> \in h.sl /\ s >= c[2] /\ s \in Int
      BY <1>2, <1>3, <2>2
    <2> DEFINE d == <<c[1], s>>
    <2>4. d \in Class /\ h.matrix[d] # Null /\ d[1] = c[1] /\ d[2] = s
      BY <1>1, <2>3
    <2>5. FindSuitable(h, c) = {d}
      BY <1>4, <1>5
    <2>6. Before(c, d)
      BY <2>3, <2>4 DEF Before
    <2> HIDE DEF d
    <2> QED BY <2>4, <2>5, <2>6
  <1>6. CASE same = {} /\ above # {}
    <2>1. above \in SUBSET Nat
      BY <1>1, <1>2
    <2>2. f0 \in above
      <3> HIDE DEF above
      <3> QED BY <1>6, <2>1, MinIs
    <2>3. PICK e \in h.sl : e[1] = f0
      BY <1>1, <2>2
    <2>4. e \in Class /\ e = <<f0, e[2]>> /\ e[2] \in 0 .. MaxSli - 1
      BY <1>1, <1>2, <2>3
    <2>5. row # {} /\ row \in SUBSET Nat
      <3> HIDE DEF f0
      <3>1. e[2] \in row
        BY <2>3, <2>4
      <3> QED BY <1>3, <3>1
    <2> DEFINE s == Min(row)
    <2>6. s \in row
      <3> HIDE DEF row
      <3> QED BY <2>5, MinIs
    <2> DEFINE d == <<f0, s>>
    <2> HIDE DEF f0
    <2>7. d \in h.sl
      BY <2>6
    <2>8. d \in Class /\ h.matrix[d] # Null /\ d[1] = f0
      BY <1>1, <2>7
    <2>9. FindSuitable(h, c) = {d}
      BY <1>4, <1>6
    <2>10. f0 > c[1]
      BY <2>2
    <2>11. Before(c, d)
      <3> HIDE DEF d
      <3> QED BY <1>2, <2>8, <2>10 DEF Before
    <2> HIDE DEF d
    <2> QED BY <2>8, <2>9, <2>11
  <1>7. CASE same = {} /\ above = {}
    <2>1. FindSuitable(h, c) = {}
      BY <1>4, <1>7
    <2>2. ASSUME NEW d \in Class, Before(c, d), h.matrix[d] # Null PROVE FALSE
      <3>1. d \in h.sl /\ d[1] \in h.fl
        BY <1>1, <2>2
      <3>2. ~(d[1] > c[1])
        BY <1>7, <3>1
      <3>3. c[1] = d[1] /\ c[2] <= d[2]
        BY <1>2, <2>2, <3>2 DEF Before
      <3>4. d[2] \in c[2] .. MaxSli - 1 /\ <<c[1], d[2]>> \in h.sl
        BY <1>2, <1>3, <3>1, <3>3
      <3> QED BY <1>7, <3>4
    <2> QED BY <2>1, <2>2
  <1> QED BY <1>5, <1>6, <1>7

(* What the classes and the words are wide enough for. *)
Fit(n) ==
  /\ Adjust(n) \in Nat /\ Adjust(n) >= n /\ Adjust(n) >= Align /\ Adjust(n) % Align = 0
  /\ Adjust(n) < LargestSize /\ SearchSize(Adjust(n)) < LargestSize
  /\ Adjust(n) + Align <= WordMod

LEMMA SearchFits ==
  ASSUME NEW n \in Nat, Fit(n)
  PROVE  LET m == SearchSize(Adjust(n))
         IN  /\ m \in Nat /\ m >= Adjust(n) /\ m >= Align /\ m % Align = 0
             /\ SearchClass(Adjust(n)) \in Class
  <1> DEFINE r == Adjust(n)
             m == SearchSize(r)
  <1>1. r \in Nat /\ r >= Align /\ r % Align = 0 /\ r < LargestSize /\ m < LargestSize
    BY DEF Fit
  <1>2. m \in Nat /\ m >= r /\ m % Align = 0
    BY <1>1, SearchIs
  <1>3. SearchClass(r) = MappingInsert(m)
    BY DEF SearchClass
  <1>4. MappingInsert(m) \in Class
    BY <1>1, <1>2, HasClass
  <1>5. Align \in Nat
    BY ConstantsAre
  <1> HIDE DEF m, r
  <1> QED BY <1>1, <1>2, <1>3, <1>4, <1>5 DEF m, r

LEMMA MallocIs ==
  ASSUME NEW h, Sound(h), NEW n \in Nat, Fit(n)
  PROVE  LET m == SearchSize(Adjust(n))
             r == MallocEx(h, n)
         IN  \/ /\ r.ptr = Null /\ r.heap = h
                /\ \A b \in Fr(h) : h.hdr[b].size < m
             \/ \E b \in Fr(h) :
                  /\ r.ptr = Buffer(b) /\ Sound(r.heap)
                  /\ Held(r.heap, Null) = Held(h, Null) \cup {b}
                  /\ SameSizes(h, r.heap, Held(h, Null))
                  /\ r.heap.hdr[b].size >= m /\ r.heap.hdr[b].size < m + BhdrSize
  <1> DEFINE a == Adjust(n)
             m == SearchSize(a)
             c0 == SearchClass(a)
             found == FindSuitable(h, c0)
             r == MallocEx(h, n)
  <1>1. m \in Nat /\ m >= a /\ m >= Align /\ m % Align = 0 /\ c0 \in Class
    BY SearchFits
  <1>2. a \in Nat /\ a % Align = 0 /\ a < LargestSize /\ m < LargestSize
    BY DEF Fit
  <1>3. Layout(h) /\ h \in Heaps /\ Align \in Nat \ {0}
    BY ConstantsAre DEF Sound, Layout
  <1>4. \A b \in Fr(h) : /\ h.hdr[b].size \in Nat /\ h.hdr[b].size % Align = 0
                         /\ h.hdr[b].size < LargestSize /\ b \in Bl(h) \ {0, LastBlock}
    <2> TAKE b \in Fr(h)
    <2>1. b \in Bl(h) \ {0, LastBlock}
      BY <1>3, FreeIsInner
    <2> QED BY <1>3, <2>1, NextIs, SizeIs
  <1>5. CASE found = {}
    <2>1. r = [heap |-> h, ptr |-> Null]
      BY <1>5 DEF MallocEx
    <2>2. \A d \in Class : Before(c0, d) => h.matrix[d] = Null
      BY <1>1, <1>5, FindIs
    <2>3. ASSUME NEW b \in Fr(h), ~(h.hdr[b].size < m) PROVE FALSE
      <3>1. ClassOf(h, b) \in Class /\ h.matrix[ClassOf(h, b)] # Null
        BY DEF Sound, Lists, Ranked
      <3>2. m <= h.hdr[b].size
        <4> HIDE DEF m
        <4> QED BY <1>1, <1>4, <2>3
      <3>3. Before(MappingInsert(m), MappingInsert(h.hdr[b].size))
        BY <1>1, <1>4, <3>2, ClassesGrow
      <3>4. Before(c0, ClassOf(h, b))
        BY <3>3 DEF SearchClass, ClassOf
      <3> QED BY <2>2, <3>1, <3>4
    <2> QED BY <2>1, <2>3
  <1>6. CASE found # {}
    <2>1. PICK d \in Class : found = {d} /\ Before(c0, d) /\ h.matrix[d] # Null
      BY <1>1, <1>6, FindIs
    <2> DEFINE b == h.matrix[d]
               k == ExtractHdr(h, b, d)
               t == h.hdr[b].size
               x == IF Splits(t, m) THEN SplitOff(k, b, t, m)
                    ELSE [k EXCEPT !.hdr[NextBlock(h, b)].prevFree = FALSE,
                                   !.hdr[b].free = FALSE]
    <2>2. (CHOOSE e \in found : TRUE) = d
      BY <2>1
    <2>3. r = [heap |-> x, ptr |-> Buffer(b)]
      <3> DEFINE e == CHOOSE y \in found : TRUE
                 made(z) ==
                   [heap |-> IF Splits(h.hdr[h.matrix[z]].size, m)
                             THEN SplitOff(ExtractHdr(h, h.matrix[z], z), h.matrix[z],
                                           h.hdr[h.matrix[z]].size, m)
                             ELSE [ExtractHdr(h, h.matrix[z], z) EXCEPT
                                     !.hdr[NextBlock(h, h.matrix[z])].prevFree = FALSE,
                                     !.hdr[h.matrix[z]].free = FALSE],
                    ptr |-> Buffer(h.matrix[z])]
      <3>1. r = made(e)
        BY <1>6, Zenon DEF MallocEx
      <3>2. made(d) = [heap |-> x, ptr |-> Buffer(b)]
        OBVIOUS
      <3>3. e = d
        BY <2>2
      <3> HIDE DEF made, r, e, x, b
      <3> QED BY <3>1, <3>2, <3>3
    <2>4. b \in Fr(h) /\ ClassOf(h, b) = d /\ Loose(k, b) /\ SameTags(h, k)
      BY <2>1, TakeOut
    <2>5. t >= m /\ t \in Nat /\ b \in Bl(h) \ {0, LastBlock}
      <3>1. t \in Nat /\ t % Align = 0 /\ t < LargestSize /\ b \in Bl(h) \ {0, LastBlock}
        BY <1>4, <2>4
      <3>2. Before(SearchClass(a), MappingInsert(t))
        BY <2>1, <2>4 DEF ClassOf
      <3> HIDE DEF t, a
      <3>3. t >= SearchSize(a)
        BY <1>2, <3>1, <3>2, ClassIsEnough
      <3> QED BY <3>1, <3>3
    <2>6. k.hdr[b].size = t /\ b \in Addr
      BY <2>4, <2>5 DEF SameTags, SameTag, Bl
    <2>7. Held(k, b) = Held(h, Null)
      <3>1. \A y : Held(k, y) = Held(h, y)
        BY <1>3, <2>4, TagsStay DEF Loose, Layout
      <3>2. Null \notin Bl(h)
        BY NullIsNone DEF Bl
      <3>3. b \notin Held(h, Null) /\ Held(h, Null) \ {b} = Held(h, b)
        BY <2>4, <3>2 DEF Held, Fr
      <3> QED BY <3>1, <3>3
    <2>8. SameSizes(h, k, Held(h, Null))
      BY <2>4 DEF SameTags, SameTag, SameSizes, Held, Bl
    <2>9. CASE Splits(t, m)
      <3>1. x = SplitOff(k, b, t, m)
        BY <2>9
      <3> HIDE DEF x, k, t, m
      <3>2. /\ Sound(x) /\ Held(x, Null) = Held(k, b) \cup {b}
            /\ SameSizes(k, x, Held(k, b)) /\ x.hdr[b].size = m
        BY <1>1, <2>4, <2>6, <2>9, <3>1, SplitIsSound
      <3>3. SameSizes(h, x, Held(h, Null))
        BY <2>7, <2>8, <3>2 DEF SameSizes
      <3>4. m < m + BhdrSize
        BY <1>1, <1>3 DEF BhdrSize
      <3>5. x.hdr[b].size >= m /\ x.hdr[b].size < m + BhdrSize
        BY <1>1, <3>2, <3>4
      <3>6. /\ r.ptr = Buffer(b) /\ r.heap = x
        BY <2>3
      <3> HIDE DEF b
      <3> QED BY <2>4, <2>7, <3>2, <3>3, <3>5, <3>6 DEF m
    <2>10. CASE ~Splits(t, m)
      <3> DEFINE y == NextBlock(h, b)
                 k1 == [k EXCEPT !.hdr[y].prevFree = FALSE]
                 k2 == [k1 EXCEPT !.hdr[b].free = FALSE]
      <3>1. x = k2
        BY <2>10
      <3>2. y = NextBlock(k, b) /\ y \in Addr
        BY <1>3, <2>5, <2>6, NextIs DEF NextBlock
      <3>3. k \in Heaps
        BY <2>4 DEF Loose, Layout
      <3> HIDE DEF x, k, t, m, y
      <3>4. /\ k1 \in Heaps /\ SameLists(k, k1)
            /\ \A z \in Addr : /\ k1.hdr[z].size = k.hdr[z].size /\ k1.hdr[z].free = k.hdr[z].free
                               /\ k1.hdr[z].prevFree = IF z = y THEN FALSE ELSE k.hdr[z].prevFree
                               /\ k1.hdr[z].prevHdr = k.hdr[z].prevHdr
        <4>1. k \in Heaps /\ y \in Addr /\ FALSE \in BOOLEAN
          BY <3>2, <3>3
        <4>2. PrevFreeSet(k, k1, y, FALSE)
          BY <4>1, SetsPrevFree
        <4> HIDE DEF k1
        <4> QED BY <4>2 DEF PrevFreeSet
      <3> HIDE DEF k1
      <3>5. /\ k2 \in Heaps /\ SameLists(k1, k2)
            /\ \A z \in Addr : /\ k2.hdr[z].size = k1.hdr[z].size
                               /\ k2.hdr[z].free = IF z = b THEN FALSE ELSE k1.hdr[z].free
                               /\ k2.hdr[z].prevFree = k1.hdr[z].prevFree
                               /\ k2.hdr[z].prevHdr = k1.hdr[z].prevHdr
        <4>1. k1 \in Heaps /\ b \in Addr /\ FALSE \in BOOLEAN
          BY <2>6, <3>4
        <4>2. FreeSet(k1, k2, b, FALSE)
          BY <4>1, SetsFree
        <4> HIDE DEF k2
        <4> QED BY <4>2 DEF FreeSet
      <3> HIDE DEF k2
      <3>6. ~k2.hdr[b].free /\ ~k2.hdr[y].prevFree
        <4>1. k2.hdr[b].free = FALSE
          BY <2>6, <3>5
        <4>2. k2.hdr[y].prevFree = k1.hdr[y].prevFree /\ k1.hdr[y].prevFree = FALSE
          BY <3>2, <3>4, <3>5
        <4> QED BY <4>1, <4>2
      <3>7. \A z \in Addr : /\ k2.hdr[z].size = k.hdr[z].size
                            /\ z # b => k2.hdr[z].free = k.hdr[z].free
                            /\ z # y => /\ k2.hdr[z].prevFree = k.hdr[z].prevFree
                                        /\ k2.hdr[z].prevHdr = k.hdr[z].prevHdr
        BY <3>4, <3>5
      <3>8. SameLists(k, k2)
        BY <3>4, <3>5, ListsSame
      <3>9. Closed(k, k2, b)
        BY <3>2, <3>5, <3>6, <3>7, <3>8 DEF Closed
      <3>10. Sound(k2) /\ Held(k2, Null) = Held(k, b) \cup {b} /\ SameSizes(k, k2, Held(k2, Null))
        BY <2>4, <3>9, ClosedIsSound
      <3>11. SameSizes(h, k2, Held(h, Null)) /\ k2.hdr[b].size = t
        BY <2>6, <2>7, <2>8, <3>10 DEF SameSizes
      <3>12. t < m + BhdrSize
        BY <1>1, <1>3, <2>5, <2>10 DEF Splits, BhdrSize, Overhead
      <3>13. k2.hdr[b].size >= m /\ k2.hdr[b].size < m + BhdrSize
        BY <2>5, <3>11, <3>12
      <3>14. r.ptr = Buffer(b) /\ r.heap = k2
        BY <2>3, <3>1
      <3> HIDE DEF b
      <3> QED BY <2>4, <2>7, <3>10, <3>11, <3>13, <3>14 DEF m
    <2> QED BY <2>9, <2>10
  <1> QED BY <1>5, <1>6

(* A block in use between blocks that are not free behind it. *)
LEMMA Loosen ==
  ASSUME NEW h, Sound(h), NEW b \in Bl(h) \ {0, LastBlock}, ~h.hdr[b].free,
         ~h.hdr[NextBlock(h, b)].free
  PROVE  Loose(h, b) /\ Held(h, Null) = Held(h, b) \cup {b}
  <1>1. Layout(h) /\ Lists(h, Fr(h)) /\ \A a \in Bl(h) \ {LastBlock} : Tag(h, a)
    BY DEF Sound
  <1>2. Fr(h) \ {b} = Fr(h)
    BY DEF Fr
  <1>3. Null \notin Bl(h)
    BY NullIsNone DEF Bl
  <1>4. Held(h, Null) = Held(h, b) \cup {b}
    BY <1>3 DEF Held
  <1> QED BY <1>1, <1>2, <1>4 DEF Loose

(* free_ex once the block behind b is merged. *)
FreeRest(h, b) ==
  IF h.hdr[b].prevFree THEN Released(SwallowInto(h, h.hdr[b].prevHdr, b), h.hdr[b].prevHdr)
  ELSE Released(h, b)
LEMMA FreeRestIs ==
  ASSUME NEW h, NEW b, Loose(h, b)
  PROVE  LET k == FreeRest(h, b)
         IN  Sound(k) /\ Held(k, Null) = Held(h, b) /\ SameSizes(h, k, Held(h, b))
  <1>1. CASE ~h.hdr[b].prevFree
    <2>1. FreeRest(h, b) = Released(h, b)
      BY <1>1 DEF FreeRest
    <2> QED BY <1>1, <2>1, ReleasedIsSound
  <1>2. CASE h.hdr[b].prevFree
    <2> DEFINE p == h.hdr[b].prevHdr
               k == SwallowInto(h, p, b)
    <2>1. FreeRest(h, b) = Released(k, p)
      BY <1>2 DEF FreeRest
    <2>2. /\ Loose(k, p) /\ Held(k, p) = Held(h, b) /\ SameSizes(h, k, Held(h, b))
          /\ k.hdr[p].free
      BY <1>2, FrontIs
    <2> HIDE DEF p, k
    <2> DEFINE l == Released(k, p)
    <2>3. Sound(l) /\ Held(l, Null) = Held(k, p) /\ SameSizes(k, l, Held(k, p))
      BY <2>2, ReleasedIsSound
    <2> HIDE DEF l
    <2>4. SameSizes(h, l, Held(h, b))
      BY <2>2, <2>3 DEF SameSizes
    <2> QED BY <2>1, <2>2, <2>3, <2>4 DEF l
  <1> QED BY <1>1, <1>2

LEMMA FreeIs ==
  ASSUME NEW h, Sound(h), NEW b \in Bl(h) \ {0, LastBlock}, ~h.hdr[b].free
  PROVE  LET k == FreeEx(h, Buffer(b))
         IN  Sound(k) /\ Held(k, Null) = Held(h, b) /\ SameSizes(h, k, Held(h, b))
  <1> DEFINE n == NextBlock(h, b)
             h1 == IF h.hdr[n].free THEN Swallow(h, b, n) ELSE h
  <1>1. BlockOf(Buffer(b)) = b
    <2>1. b \in Int /\ Overhead \in Int
      BY AddrIs, ConstantsAre DEF Bl, Overhead
    <2> QED BY <2>1 DEF BlockOf, Buffer
  <1>2. /\ Loose(h1, b) /\ Held(h1, b) = Held(h, b) /\ SameSizes(h, h1, Held(h, b))
        /\ h1.hdr[b].prevFree = h.hdr[b].prevFree /\ h1.hdr[b].prevHdr = h.hdr[b].prevHdr
    <2>1. CASE ~h.hdr[n].free
      BY <2>1, Loosen DEF SameSizes
    <2>2. CASE h.hdr[n].free
      BY <2>2, SwallowIs
    <2> QED BY <2>1, <2>2
  <1>3. FreeEx(h, Buffer(b)) = FreeRest(h1, b)
    <2> DEFINE p == h.hdr[b].prevHdr
    <2>1. FreeEx(h, Buffer(b)) = IF h.hdr[b].prevFree THEN Released(SwallowInto(h1, p, b), p)
                                 ELSE Released(h1, b)
      BY <1>1 DEF FreeEx
    <2> HIDE DEF h1
    <2> QED BY <1>2, <2>1 DEF FreeRest
  <1> DEFINE k == FreeRest(h1, b)
  <1> HIDE DEF h1
  <1>4. Sound(k) /\ Held(k, Null) = Held(h1, b) /\ SameSizes(h1, k, Held(h1, b))
    BY <1>2, FreeRestIs
  <1> HIDE DEF k
  <1>5. SameSizes(h, k, Held(h, b))
    BY <1>2, <1>4 DEF SameSizes
  <1> QED BY <1>2, <1>3, <1>4, <1>5 DEF k

(* A call kept every block in use, and left b with s bytes or more. *)
Kept(h, k, b, s) ==
  /\ Sound(k) /\ Held(k, Null) = Held(h, Null)
  /\ SameSizes(h, k, Held(h, b)) /\ k.hdr[b].size >= s

LEMMA CutDown ==
  ASSUME NEW h, Sound(h), NEW b \in Held(h, Null), NEW k, Loose(k, b),
         Held(k, b) = Held(h, b), SameSizes(h, k, Held(h, b)),
         NEW s \in Nat, s >= Align, s % Align = 0, Splits(k.hdr[b].size, s)
  PROVE  Kept(h, SplitOff(k, b, k.hdr[b].size, s), b, s)
  <1> DEFINE l == SplitOff(k, b, k.hdr[b].size, s)
  <1>1. /\ Sound(l) /\ Held(l, Null) = Held(k, b) \cup {b}
        /\ SameSizes(k, l, Held(k, b)) /\ l.hdr[b].size = s
    BY SplitIsSound
  <1> HIDE DEF l
  <1>2. SameSizes(h, l, Held(h, b))
    BY <1>1 DEF SameSizes
  <1>3. Null \notin Bl(h)
    BY NullIsNone DEF Bl
  <1>4. Held(h, Null) = Held(h, b) \cup {b}
    BY <1>3 DEF Held
  <1>5. l.hdr[b].size >= s
    BY <1>1
  <1> QED BY <1>1, <1>2, <1>4, <1>5 DEF Kept, l

LEMMA InPlaceAlone ==
  ASSUME NEW h, Sound(h), NEW b \in Bl(h) \ {0, LastBlock}, ~h.hdr[b].free,
         ~h.hdr[NextBlock(h, b)].free, NEW s \in Nat, s >= Align, s % Align = 0,
         s <= h.hdr[b].size
  PROVE  LET old == h.hdr[b].size
         IN  Kept(h, IF Splits(old, s) THEN SplitOff(h, b, old, s) ELSE h, b, s)
  <1> DEFINE old == h.hdr[b].size
  <1>1. Loose(h, b) /\ Held(h, Null) = Held(h, b) \cup {b}
    BY Loosen
  <1>2. CASE Splits(old, s)
    <2>1. Kept(h, SplitOff(h, b, old, s), b, s)
      <3>1. b \in Held(h, Null) /\ Held(h, b) = Held(h, b) /\ SameSizes(h, h, Held(h, b))
        BY <1>1 DEF SameSizes
      <3> QED BY <1>1, <1>2, <3>1, CutDown
    <2> QED BY <1>2, <2>1
  <1>3. CASE ~Splits(old, s)
    <2>1. old \in Nat
      BY NextIs DEF Sound
    <2>2. old >= s
      BY <2>1
    <2>3. Kept(h, h, b, s)
      BY <2>2 DEF Kept, SameSizes
    <2> QED BY <1>3, <2>3
  <1> QED BY <1>2, <1>3

(* The block behind the grown b learns of it. *)
Retagged(k, b) ==
  [k EXCEPT !.hdr[NextBlock(k, b)].prevHdr = b, !.hdr[NextBlock(k, b)].prevFree = FALSE]
LEMMA RetaggedIs ==
  ASSUME NEW k, NEW b, Loose(k, b), ~k.hdr[b].free
  PROVE  LET l == Retagged(k, b)
         IN  /\ Sound(l) /\ Loose(l, b) /\ Held(l, Null) = Held(k, b) \cup {b}
             /\ Held(l, b) = Held(k, b) /\ SameSizes(k, l, Held(k, b) \cup {b})
  <1> DEFINE n == NextBlock(k, b)
             k1 == [k EXCEPT !.hdr[n].prevHdr = b]
             l == [k1 EXCEPT !.hdr[n].prevFree = FALSE]
  <1>1. Layout(k) /\ b \in Bl(k) \ {0, LastBlock} /\ ~k.hdr[n].free /\ k \in Heaps
    BY DEF Loose, Layout
  <1>2. n \in Addr /\ b \in Addr /\ n \in Bl(k)
    BY <1>1, NextIs
  <1>3. Retagged(k, b) = l
    BY DEF Retagged
  <1> HIDE DEF n
  <1>4. /\ k1 \in Heaps /\ SameLists(k, k1)
        /\ \A a \in Addr : /\ k1.hdr[a].size = k.hdr[a].size /\ k1.hdr[a].free = k.hdr[a].free
                           /\ k1.hdr[a].prevFree = k.hdr[a].prevFree
                           /\ k1.hdr[a].prevHdr = IF a = n THEN b ELSE k.hdr[a].prevHdr
    <2>1. k \in Heaps /\ n \in Addr /\ b \in Links
      BY <1>1, <1>2 DEF Links
    <2>2. PrevHdrSet(k, k1, n, b)
      BY <2>1, SetsPrevHdr
    <2> HIDE DEF k1
    <2> QED BY <2>2 DEF PrevHdrSet
  <1> HIDE DEF k1
  <1>5. /\ l \in Heaps /\ SameLists(k1, l)
        /\ \A a \in Addr : /\ l.hdr[a].size = k1.hdr[a].size /\ l.hdr[a].free = k1.hdr[a].free
                           /\ l.hdr[a].prevFree = IF a = n THEN FALSE ELSE k1.hdr[a].prevFree
                           /\ l.hdr[a].prevHdr = k1.hdr[a].prevHdr
    <2>1. k1 \in Heaps /\ n \in Addr /\ FALSE \in BOOLEAN
      BY <1>2, <1>4
    <2>2. PrevFreeSet(k1, l, n, FALSE)
      BY <2>1, SetsPrevFree
    <2> HIDE DEF l
    <2> QED BY <2>2 DEF PrevFreeSet
  <1> HIDE DEF l
  <1>6. SameLists(k, l)
    BY <1>4, <1>5, ListsSame
  <1>7. ~l.hdr[b].free /\ ~l.hdr[n].prevFree
    BY <1>2, <1>4, <1>5
  <1>8. \A a \in Addr : /\ l.hdr[a].size = k.hdr[a].size /\ l.hdr[a].free = k.hdr[a].free
                        /\ a # n => /\ l.hdr[a].prevFree = k.hdr[a].prevFree
                                    /\ l.hdr[a].prevHdr = k.hdr[a].prevHdr
    BY <1>4, <1>5
  <1>9. Closed(k, l, b)
    BY <1>5, <1>6, <1>7, <1>8 DEF Closed, n
  <1>10. /\ Sound(l) /\ Held(l, Null) = Held(k, b) \cup {b}
         /\ SameSizes(k, l, Held(l, Null)) /\ Bl(l) = Bl(k) /\ Fr(l) = Fr(k) \ {b}
    BY <1>9, ClosedIsSound
  <1>11. NextBlock(l, b) = n
    BY <1>2, <1>8 DEF NextBlock, n
  <1>12. ~l.hdr[NextBlock(l, b)].free /\ ~l.hdr[b].free
    BY <1>1, <1>2, <1>7, <1>8, <1>11
  <1>13. Loose(l, b)
    <2>1. Sound(l) /\ b \in Bl(l) \ {0, LastBlock}
      BY <1>1, <1>10
    <2> QED BY <1>12, <2>1, Loosen
  <1>14. Held(l, b) = Held(k, b)
    BY <1>8, <1>10 DEF Held, Bl
  <1> QED BY <1>3, <1>10, <1>13, <1>14

LEMMA InPlaceSpare ==
  ASSUME NEW h, Sound(h), NEW b \in Bl(h) \ {0, LastBlock}, ~h.hdr[b].free,
         h.hdr[NextBlock(h, b)].free, NEW s \in Nat, s >= Align, s % Align = 0,
         s <= h.hdr[b].size + h.hdr[NextBlock(h, b)].size
  PROVE  LET k == Swallow(h, b, NextBlock(h, b))
             total == k.hdr[b].size
             l == IF s > h.hdr[b].size THEN Retagged(k, b) ELSE k
         IN  Kept(h, IF Splits(total, s) THEN SplitOff(l, b, total, s) ELSE l, b, s)
  <1> DEFINE n == NextBlock(h, b)
             k == Swallow(h, b, n)
             total == k.hdr[b].size
             old == h.hdr[b].size
  <1>1. /\ Loose(k, b) /\ Held(k, b) = Held(h, b) /\ SameSizes(h, k, Held(h, b))
        /\ total = MergedSize(h, b, n) /\ ~k.hdr[b].free
        /\ h.hdr[n].size \in Nat /\ h.hdr[n].size >= Align
    BY SwallowIs
  <1>2. old \in Nat /\ Align \in Nat
    BY ConstantsAre, NextIs DEF Sound
  <1>3. b \in Held(h, Null) /\ Held(h, Null) = Held(h, b) \cup {b}
    <2>1. Null \notin Bl(h)
      BY NullIsNone DEF Bl
    <2> QED BY <2>1 DEF Held
  <1> HIDE DEF k
  <1>4. total = old + h.hdr[n].size + Align
    BY <1>1 DEF MergedSize, Overhead
  <1>5. CASE s > old
    <2> DEFINE l == Retagged(k, b)
    <2>1. /\ Sound(l) /\ Loose(l, b) /\ Held(l, Null) = Held(k, b) \cup {b}
          /\ Held(l, b) = Held(k, b) /\ SameSizes(k, l, Held(k, b) \cup {b})
      BY <1>1, RetaggedIs
    <2> HIDE DEF l
    <2>2. SameSizes(h, l, Held(h, b)) /\ l.hdr[b].size = total
      BY <1>1, <2>1 DEF SameSizes
    <2>3. Splits(total, s) => Kept(h, SplitOff(l, b, total, s), b, s)
      BY <1>1, <1>3, <2>1, <2>2, CutDown
    <2>4. total >= s
      <3> HIDE DEF total, old, n
      <3> QED BY <1>1, <1>2, <1>4 DEF old, n
    <2>5. Kept(h, l, b, s)
      BY <1>1, <1>3, <2>1, <2>2, <2>4 DEF Kept
    <2> HIDE DEF total
    <2> QED BY <1>5, <2>3, <2>5 DEF k, l, n, total
  <1>6. CASE ~(s > old)
    <2>1. total - s >= 2 * Align
      <3> DEFINE m == h.hdr[n].size
      <3>1. m \in Nat /\ m >= Align /\ total = old + m + Align
        BY <1>1, <1>4
      <3> HIDE DEF total, old, n, m
      <3> QED BY <1>2, <1>6, <3>1
    <2>2. Splits(total, s)
      BY <2>1 DEF Splits, BhdrSize
    <2>3. Kept(h, SplitOff(k, b, total, s), b, s)
      BY <1>1, <1>3, <2>2, CutDown
    <2> QED BY <1>6, <2>2, <2>3 DEF k
  <1> QED BY <1>5, <1>6

LEMMA BlockOfBuffer ==
  ASSUME NEW b \in Addr PROVE BlockOf(Buffer(b)) = b
  <1>1. b \in Int /\ Overhead \in Int
    BY AddrIs, ConstantsAre DEF Overhead
  <1> QED BY <1>1 DEF BlockOf, Buffer

(* The block was changed in place, or not at all, or the data has moved. *)
Moved(h, r, b, s) ==
  \E d \in Fr(h) :
    /\ r.ptr = Buffer(d) /\ Sound(r.heap) /\ r.copied = Copied(h.hdr[b].size, s)
    /\ Held(r.heap, Null) = Held(h, b) \cup {d}
    /\ SameSizes(h, r.heap, Held(h, b)) /\ r.heap.hdr[d].size >= s
LEMMA MovedIs ==
  ASSUME NEW h, Sound(h), NEW b \in Bl(h) \ {0, LastBlock}, ~h.hdr[b].free,
         NEW s \in Nat, Fit(s), Adjust(s) = s, MallocEx(h, s).ptr # Null
  PROVE  Moved(h, [heap |-> FreeEx(MallocEx(h, s).heap, Buffer(b)), ptr |-> MallocEx(h, s).ptr,
                   copied |-> Copied(h.hdr[b].size, s)], b, s)
  <1> DEFINE r == MallocEx(h, s)
             m == SearchSize(s)
             k == r.heap
             l == FreeEx(k, Buffer(b))
  <1>1. PICK d \in Fr(h) : /\ r.ptr = Buffer(d) /\ Sound(k) /\ Held(k, Null) = Held(h, Null) \cup {d}
                           /\ SameSizes(h, k, Held(h, Null)) /\ k.hdr[d].size >= m
    BY MallocIs
  <1>2. m \in Nat /\ m >= s
    BY SearchFits
  <1>3. Null \notin Bl(h) /\ Null \notin Bl(k)
    BY NullIsNone DEF Bl
  <1>4. b \in Held(h, Null) /\ d \in Held(k, Null) /\ d # b /\ Held(h, b) = Held(h, Null) \ {b}
    BY <1>1, <1>3 DEF Held, Fr
  <1> HIDE DEF r, m, k
  <1>5. b \in Bl(k) \ {0, LastBlock} /\ ~k.hdr[b].free /\ Held(k, b) = Held(k, Null) \ {b}
    BY <1>1, <1>3, <1>4 DEF Held
  <1>6. Sound(l) /\ Held(l, Null) = Held(k, b) /\ SameSizes(k, l, Held(k, b))
    BY <1>1, <1>5, FreeIs
  <1> HIDE DEF l
  <1>7. Held(l, Null) = Held(h, b) \cup {d}
    BY <1>1, <1>4, <1>5, <1>6
  <1>8. SameSizes(h, l, Held(h, b))
    BY <1>1, <1>4, <1>5, <1>6 DEF SameSizes
  <1>9. l.hdr[d].size >= s
    <2>1. l.hdr[d].size = k.hdr[d].size
      BY <1>4, <1>5, <1>6 DEF SameSizes
    <2>2. k.hdr[d].size \in Int
      BY <1>1, <1>4 DEF Sound, Layout, Heaps, Headers, Held, Bl
    <2> QED BY <1>1, <1>2, <2>1, <2>2
  <1> DEFINE q == [heap |-> l, ptr |-> r.ptr, copied |-> Copied(h.hdr[b].size, s)]
  <1>10. Moved(h, q, b, s)
    BY <1>1, <1>6, <1>7, <1>8, <1>9 DEF Moved
  <1> QED BY <1>10 DEF r, k, l

LEMMA ReallocIs ==
  ASSUME NEW h, Sound(h), NEW b \in Bl(h) \ {0, LastBlock}, ~h.hdr[b].free,
         NEW n \in Nat, Fit(n)
  PROVE  LET s == Adjust(n)
             r == ReallocEx(h, Buffer(b), n)
         IN  \/ r.ptr = Null /\ r.heap = h
             \/ r.ptr = Buffer(b) /\ r.copied = h.hdr[b].size /\ Kept(h, r.heap, b, s)
             \/ Moved(h, r, b, s)
  <1> DEFINE s == Adjust(n)
             r == ReallocEx(h, Buffer(b), n)
             old == h.hdr[b].size
             y == NextBlock(h, b)
             spare == h.hdr[y].free
             h1 == IF spare THEN Swallow(h, b, y) ELSE h
             total == h1.hdr[b].size
             h2 == IF spare /\ s > old
                   THEN [h1 EXCEPT !.hdr[After(b, total)].prevHdr = b,
                                   !.hdr[After(b, total)].prevFree = FALSE]
                   ELSE h1
             moved == MallocEx(h, s)
             fits == s <= old \/ (spare /\ s <= old + h.hdr[y].size)
             x == IF Splits(total, s) THEN SplitOff(h2, b, total, s) ELSE h2
  <1>1. BlockOf(Buffer(b)) = b
    BY BlockOfBuffer DEF Bl
  <1>2. r = IF fits THEN [heap |-> x, ptr |-> Buffer(b), copied |-> old]
            ELSE IF moved.ptr = Null THEN [heap |-> h, ptr |-> Null, copied |-> 0]
            ELSE [heap |-> FreeEx(moved.heap, Buffer(b)), ptr |-> moved.ptr,
                  copied |-> Copied(old, s)]
    BY <1>1 DEF ReallocEx
  <1>3. s \in Nat /\ s >= Align /\ s % Align = 0 /\ Fit(s) /\ Adjust(s) = s
    <2>1. s \in Nat /\ s >= Align /\ s % Align = 0 /\ s + Align <= WordMod
      BY DEF Fit
    <2> HIDE DEF s
    <2>2. Adjust(s) = s
      BY <2>1, AdjustAgain DEF MinBlock
    <2>3. s >= s
      BY <2>1
    <2>4. Fit(s)
      BY <2>1, <2>2, <2>3 DEF Fit, s
    <2> QED BY <2>1, <2>2, <2>4
  <1> HIDE DEF s
  <1>4. old \in Nat
    BY NextIs DEF Sound
  <1>5. CASE fits /\ ~spare
    <2>1. s <= old /\ x = IF Splits(old, s) THEN SplitOff(h, b, old, s) ELSE h
      BY <1>5
    <2>2. Kept(h, x, b, s)
      <3> HIDE DEF x
      <3> QED BY <1>3, <1>5, <2>1, InPlaceAlone
    <2>3. r = [heap |-> x, ptr |-> Buffer(b), copied |-> old]
      BY <1>2, <1>5
    <2> HIDE DEF x, r
    <2> QED BY <2>2, <2>3 DEF r, s
  <1>6. CASE fits /\ spare
    <2> DEFINE k == Swallow(h, b, y)
               l == IF s > old THEN Retagged(k, b) ELSE k
               t == k.hdr[b].size
    <2>1. h.hdr[y].size \in Nat
      BY <1>6, SwallowIs
    <2>2. s <= old + h.hdr[y].size
      <3> HIDE DEF old, y
      <3> QED BY <1>3, <1>4, <1>6, <2>1 DEF old, y
    <2>3. Kept(h, IF Splits(t, s) THEN SplitOff(l, b, t, s) ELSE l, b, s)
      BY <1>3, <1>6, <2>2, InPlaceSpare
    <2>4. h1 = k
      BY <1>6
    <2>5. h2 = l
      <3> DEFINE tagged(z, e) == [z EXCEPT !.hdr[e].prevHdr = b, !.hdr[e].prevFree = FALSE]
      <3>1. After(b, t) = NextBlock(k, b)
        BY DEF NextBlock
      <3>2. h2 = IF s > old THEN tagged(h1, After(b, total)) ELSE h1
        BY <1>6
      <3>3. Retagged(k, b) = tagged(k, NextBlock(k, b))
        BY DEF Retagged
      <3>4. total = h1.hdr[b].size /\ t = k.hdr[b].size
        OBVIOUS
      <3> HIDE DEF k, tagged, h1, h2, total, t
      <3> QED BY <2>4, <3>1, <3>2, <3>3, <3>4
    <2>6. Kept(h, x, b, s)
      <3> HIDE DEF h1, h2, l, k
      <3> QED BY <2>3, <2>4, <2>5
    <2>7. r = [heap |-> x, ptr |-> Buffer(b), copied |-> old]
      BY <1>2, <1>6
    <2> HIDE DEF x, r
    <2> QED BY <2>6, <2>7 DEF r, s
  <1>7. CASE ~fits /\ moved.ptr = Null
    <2>1. r = [heap |-> h, ptr |-> Null, copied |-> 0]
      BY <1>2, <1>7
    <2> HIDE DEF r
    <2> QED BY <2>1 DEF r
  <1>8. CASE ~fits /\ moved.ptr # Null
    <2>1. r = [heap |-> FreeEx(moved.heap, Buffer(b)), ptr |-> moved.ptr,
               copied |-> Copied(old, s)]
      BY <1>2, <1>8
    <2>2. Moved(h, r, b, s)
      <3> HIDE DEF r
      <3> QED BY <1>3, <1>8, <2>1, MovedIs
    <2> QED BY <2>2 DEF s
  <1> QED BY <1>5, <1>6, <1>7, <1>8

-----------------------------------------------------------------------------
(* The first heap: one free block between the area header and the sentinel. *)
Area == [hdr |-> [a \in Addr |->
                    CASE a = 0 -> Header(Overhead, FALSE, FALSE, Null)
                      [] a = FirstBlock ->
                           Header(RoundDown(PoolSize - 4 * Overhead), FALSE, FALSE, Null)
                      [] a = LastBlock -> Header(0, FALSE, TRUE, FirstBlock)
                      [] OTHER -> Blank],
         matrix |-> [c \in Class |-> Null], sl |-> {}, fl |-> {}]
LEMMA AreaIs ==
  /\ Area \in Heaps
  /\ Area.matrix = [c \in Class |-> Null] /\ Area.sl = {} /\ Area.fl = {}
  /\ Area.hdr[0] = Header(Align, FALSE, FALSE, Null)
  /\ Area.hdr[FirstBlock] = Header(PoolSize - 4 * Align, FALSE, FALSE, Null)
  /\ Area.hdr[LastBlock] = Header(0, FALSE, TRUE, FirstBlock)
  /\ \A a \in Addr \ {0, FirstBlock, LastBlock} : Area.hdr[a] = Blank
  /\ \A a \in Addr : Area.hdr[a].next = Null /\ Area.hdr[a].prev = Null
  <1> DEFINE s == PoolSize - 4 * Align
  <1>1. PoolSize \in Nat /\ Align \in Nat \ {0} /\ PoolSize % Align = 0 /\ PoolSize >= 6 * Align
    BY ConstantsAre, TlsfAssumption
  <1>2. s \in Nat
    BY <1>1
  <1>3. s % Align = 0
    <2>1. 4 * Align \in Nat /\ Align * 4 = 4 * Align
      BY <1>1
    <2>2. (Align * 4) % Align = 0
      BY <1>1, ModOfProduct
    <2>3. (4 * Align) % Align = 0
      BY <2>1, <2>2
    <2>4. PoolSize >= 4 * Align
      BY <1>1
    <2> DEFINE f == 4 * Align
    <2> HIDE DEF f
    <2>5. f \in Nat /\ f % Align = 0 /\ PoolSize >= f
      BY <2>1, <2>3, <2>4 DEF f
    <2>6. (PoolSize - f) % Align = 0
      BY <1>1, <2>5, ModSum, Zenon
    <2> QED BY <2>6 DEF f
  <1>4. RoundDown(PoolSize - 4 * Overhead) = s
    <2>1. RoundDown(s) = s - (s % Align)
      BY DEF RoundDown
    <2> HIDE DEF s
    <2>2. RoundDown(s) = s
      BY <1>2, <1>3, <2>1
    <2> QED BY <2>2 DEF s, Overhead
  <1>5. /\ 0 \in Addr /\ FirstBlock \in Addr /\ LastBlock \in Addr
        /\ 0 # FirstBlock /\ 0 # LastBlock /\ FirstBlock # LastBlock
    <2>1. /\ FirstBlock = 2 * Align /\ FirstBlock + 3 * Align <= LastBlock /\ LastBlock \in Nat
          /\ FirstBlock \in Nat
      BY AddrIs
    <2>2. 0 # FirstBlock /\ 0 # LastBlock /\ FirstBlock # LastBlock
      BY <1>1, <2>1
    <2> QED BY <2>2, AddrIs
  <1> HIDE DEF s
  <1>6. Blank \in Headers /\ Blank.next = Null /\ Blank.prev = Null
    BY DEF Blank, Header, Headers, Links
  <1> DEFINE r0 == Header(Align, FALSE, FALSE, Null)
             r1 == Header(s, FALSE, FALSE, Null)
             r2 == Header(0, FALSE, TRUE, FirstBlock)
  <1>7. r0 \in Headers /\ r0.next = Null /\ r0.prev = Null
    BY <1>1 DEF Header, Headers, Links
  <1>8. r1 \in Headers /\ r1.next = Null /\ r1.prev = Null
    BY <1>2 DEF Header, Headers, Links
  <1>9. r2 \in Headers /\ r2.next = Null /\ r2.prev = Null
    BY <1>5 DEF Header, Headers, Links
  <1> DEFINE g == [a \in Addr |-> CASE a = 0 -> r0 [] a = FirstBlock -> r1
                                    [] a = LastBlock -> r2 [] OTHER -> Blank]
  <1>10. Area = [hdr |-> g, matrix |-> [c \in Class |-> Null], sl |-> {}, fl |-> {}]
    BY <1>4 DEF Area, Overhead
  <1> HIDE DEF r0, r1, r2
  <1>11. /\ g[0] = r0 /\ g[FirstBlock] = r1 /\ g[LastBlock] = r2
         /\ \A a \in Addr \ {0, FirstBlock, LastBlock} : g[a] = Blank
    BY <1>5
  <1>12. \A a \in Addr : g[a] \in Headers /\ g[a].next = Null /\ g[a].prev = Null
    BY <1>6, <1>7, <1>8, <1>9, <1>11
  <1>13. g \in [Addr -> Headers]
    BY <1>12
  <1> HIDE DEF g
  <1>14. Area.hdr = g /\ Area \in Heaps
    BY <1>10, <1>13 DEF Heaps, Links
  <1> QED BY <1>10, <1>11, <1>12, <1>14 DEF r0, r1, r2, s

LEMMA AreaIsLoose == Loose(Area, FirstBlock) /\ Held(Area, FirstBlock) = {0, LastBlock}
  <1> DEFINE h == Area
             F == FirstBlock
             Z == LastBlock
  <1>1. /\ h \in Heaps /\ h.matrix = [c \in Class |-> Null] /\ h.sl = {} /\ h.fl = {}
        /\ h.hdr[0] = Header(Align, FALSE, FALSE, Null)
        /\ h.hdr[F] = Header(PoolSize - 4 * Align, FALSE, FALSE, Null)
        /\ h.hdr[Z] = Header(0, FALSE, TRUE, F)
        /\ \A a \in Addr \ {0, F, Z} : h.hdr[a] = Blank
        /\ \A a \in Addr : h.hdr[a].next = Null /\ h.hdr[a].prev = Null
    BY AreaIs
  <1>2. /\ Align \in Nat \ {0} /\ PoolSize \in Nat /\ PoolSize >= 6 * Align
        /\ Z = PoolSize - Align /\ F = 2 * Align /\ {0, F, Z} \subseteq Addr
    BY AddrIs, ConstantsAre, TlsfAssumption
  <1>3. /\ \A a \in Addr : a \in Nat
        /\ \A a \in Addr : a % Align = 0
    BY AddrIs
  <1> HIDE DEF h, F, Z
  <1>4. 0 < F /\ F < Z /\ F \in Nat /\ Z \in Nat /\ Null < 0
    BY <1>2 DEF Null
  <1>5. /\ h.hdr[0].size = Align /\ ~h.hdr[0].free /\ ~h.hdr[0].prevFree
        /\ h.hdr[F].size = PoolSize - 4 * Align /\ ~h.hdr[F].free /\ ~h.hdr[F].prevFree
        /\ h.hdr[Z].size = 0 /\ ~h.hdr[Z].free
    BY <1>1 DEF Header
  <1>6. \A a \in Addr \ {0, F, Z} : h.hdr[a].size = -1 /\ Empty(h, a)
    BY <1>1 DEF Blank, Header, Empty
  <1>7. PoolSize - 4 * Align >= Align /\ PoolSize - 4 * Align \in Nat
    BY <1>2
  <1>8. Bl(h) = {0, F, Z}
    <2>1. h.hdr[0].size >= 0 /\ h.hdr[F].size >= 0 /\ h.hdr[Z].size >= 0
      BY <1>2, <1>5, <1>7
    <2>2. \A a \in Addr \ {0, F, Z} : ~(h.hdr[a].size >= 0)
      BY <1>6
    <2> QED BY <1>2, <2>1, <2>2 DEF Bl
  <1>9. NextBlock(h, 0) = F /\ NextBlock(h, F) = Z
    <2>1. NextBlock(h, 0) = 0 + Align + Align /\ NextBlock(h, F) = F + Align + (PoolSize - 4 * Align)
      BY <1>5 DEF NextBlock, After, Overhead
    <2> QED BY <1>2, <2>1
  <1>10. Align % Align = 0 /\ (PoolSize - 4 * Align) % Align = 0
    <2>1. Align * 1 = Align
      BY <1>2
    <2>2. Align % Align = 0
      BY <1>2, <2>1, ModOfProduct
    <2> DEFINE s == PoolSize - 4 * Align
    <2>3. s = Z - (F + Align) /\ s \in Nat /\ F + Align \in Nat /\ Z >= F + Align
      BY <1>2, <1>7
    <2>4. F % Align = 0 /\ Z % Align = 0
      BY <1>2, <1>3
    <2> HIDE DEF s
    <2>5. (F + Align) % Align = 0
      BY <1>2, <1>4, <2>2, <2>4, ModSum, Zenon
    <2> DEFINE f == F + Align
    <2> HIDE DEF f
    <2>6. f \in Nat /\ f % Align = 0 /\ Z >= f /\ s = Z - f
      BY <2>3, <2>5 DEF f
    <2>7. (Z - f) % Align = 0
      BY <1>2, <1>4, <2>4, <2>6, ModSum, Zenon
    <2> QED BY <2>2, <2>6, <2>7 DEF s
  <1>11. Fits(h, 0)
    <2>1. \A a \in Bl(h) : a <= 0 \/ a >= F
      BY <1>4, <1>8
    <2>2. h.hdr[0].size >= MinBlock
      BY <1>2, <1>5 DEF MinBlock
    <2>3. h.hdr[0].size % Align = 0
      BY <1>5, <1>10
    <2>4. F \in Bl(h)
      BY <1>8
    <2> QED BY <1>9, <2>1, <2>2, <2>3, <2>4 DEF Fits
  <1>12. Fits(h, F)
    <2>1. \A a \in Bl(h) : a <= F \/ a >= Z
      BY <1>4, <1>8
    <2>2. h.hdr[F].size >= MinBlock /\ h.hdr[F].size % Align = 0
      BY <1>5, <1>7, <1>10 DEF MinBlock
    <2>3. Z \in Bl(h)
      BY <1>8
    <2> QED BY <1>9, <2>1, <2>2, <2>3 DEF Fits
  <1>13. Layout(h)
    <2>1. \A a \in Addr : h.hdr[a].size < 0 => Empty(h, a)
      <3>1. ~(h.hdr[0].size < 0) /\ ~(h.hdr[F].size < 0) /\ ~(h.hdr[Z].size < 0)
        BY <1>2, <1>5, <1>7
      <3> QED BY <1>6, <3>1
    <2>2. \A b \in Bl(h) \ {Z} : Fits(h, b)
      BY <1>8, <1>11, <1>12
    <2> QED BY <1>1, <1>5, <1>8, <2>1, <2>2 DEF Layout, Z
  <1>14. Fr(h) \ {F} = {}
    BY <1>5, <1>8 DEF Fr
  <1>15. Lists(h, {})
    <2> DEFINE rank == [b \in {} |-> 0]
    <2>1. rank \in [{} -> Nat]
      OBVIOUS
    <2>2. \A c \in Class : h.matrix[c] = Null
      BY <1>1
    <2>3. h.sl = {c \in Class : h.matrix[c] # Null}
      BY <1>1, <2>2
    <2>4. h.fl = {c[1] : c \in h.sl}
      BY <1>1
    <2> HIDE DEF rank
    <2>5. Ranked(h, {}, rank)
      BY <1>1, <2>1, <2>2, <2>3, <2>4 DEF Ranked
    <2> QED BY <2>5 DEF Lists
  <1>16. \A a \in Bl(h) \ {Z, F} : Tag(h, a)
    <2>1. h.hdr[F].prevFree = FALSE /\ h.hdr[0].free = FALSE
      BY <1>1 DEF Header
    <2>3. Tag(h, 0)
      BY <1>9, <2>1 DEF Tag
    <2>2. \A a \in Bl(h) \ {Z, F} : a = 0
      BY <1>8
    <2> QED BY <2>2, <2>3
  <1>17. Loose(h, F)
    <2>1. F \in Bl(h) \ {0, Z}
      BY <1>4, <1>8
    <2>2. Lists(h, Fr(h) \ {F})
      BY <1>14, <1>15
    <2> QED BY <1>5, <1>9, <1>13, <1>16, <2>1, <2>2 DEF Loose, Z
  <1>18. Held(h, F) = {0, Z}
    BY <1>4, <1>5, <1>8 DEF Held
  <1> QED BY <1>17, <1>18 DEF h, F, Z

LEMMA InitIs == Sound(InitHeap) /\ Held(InitHeap, Null) = {0, LastBlock}
  <1> DEFINE b == FirstBlock
             n == NextBlock(Area, b)
  <1>1. Loose(Area, b) /\ Held(Area, b) = {0, LastBlock}
    BY AreaIsLoose
  <1>2. ~Area.hdr[n].free
    BY <1>1 DEF Loose
  <1>3. ~Area.hdr[b].prevFree
    BY AreaIs DEF Header
  <1>4. BlockOf(Buffer(b)) = b
    BY AddrIs, BlockOfBuffer
  <1>5. InitHeap = FreeEx(Area, Buffer(b))
    BY DEF InitHeap, Area
  <1> DEFINE h == Area
  <1> HIDE DEF h, b
  <1>6. FreeEx(h, Buffer(b)) = Released(h, b)
    <2>1. ~h.hdr[NextBlock(h, b)].free /\ ~h.hdr[b].prevFree
      BY <1>2, <1>3 DEF h
    <2> QED BY <1>4, <2>1 DEF FreeEx, Released
  <1>7. Sound(Released(h, b)) /\ Held(Released(h, b), Null) = Held(h, b)
    BY <1>1, <1>3, ReleasedIsSound DEF h
  <1> QED BY <1>1, <1>5, <1>6, <1>7 DEF h

-----------------------------------------------------------------------------
(* The callers. *)
LEMMA RequestsFit ==
  ASSUME NEW n \in Requests PROVE n \in Nat /\ Fit(n)
  <1>1. /\ n \in Nat /\ n + 2 * Align <= WordMod
        /\ Adjust(n) < LargestSize /\ SearchSize(Adjust(n)) < LargestSize
    BY TlsfAssumption
  <1>2. Align \in Nat \ {0} /\ WordMod \in Nat
    BY ConstantsAre, MappingAssumption
  <1>3. n + Align <= WordMod
    BY <1>1, <1>2
  <1>4. /\ Adjust(n) \in Nat /\ Adjust(n) >= n /\ Adjust(n) >= MinBlock /\ Adjust(n) % Align = 0
        /\ Adjust(n) <= n + Align
    BY <1>1, <1>3, AdjustIs
  <1>5. Adjust(n) + Align <= WordMod
    BY <1>1, <1>2, <1>4
  <1> QED BY <1>1, <1>4, <1>5 DEF Fit, MinBlock

(* The blocks that callers hold, and what they know of them. *)
User(h) == Held(h, Null) \ {0, LastBlock}
Owned(h, l) ==
  /\ l = [p \in DOMAIN l |-> l[p]]
  /\ DOMAIN l = {Buffer(a) : a \in User(h)}
  /\ \A a \in User(h) : l[Buffer(a)] \in Nat /\ h.hdr[a].size >= l[Buffer(a)]
Inv == Sound(heap) /\ Owned(heap, live)

LEMMA OneBuffer ==
  ASSUME NEW a \in Addr, NEW b \in Addr, Buffer(a) = Buffer(b) PROVE a = b
  BY BlockOfBuffer

LEMMA UserIs ==
  ASSUME NEW h, NEW a \in User(h)
  PROVE  a \in Bl(h) \ {0, LastBlock} /\ a \in Addr /\ ~h.hdr[a].free
  BY DEF User, Held, Bl

(* Regions of two blocks do not touch, and lie in the pool. *)
LEMMA RegionsApart ==
  ASSUME NEW h, Layout(h), NEW a \in Bl(h) \ {0, LastBlock}, NEW b \in Bl(h) \ {0, LastBlock},
         NEW x \in Nat, x <= h.hdr[a].size, NEW y \in Nat, y <= h.hdr[b].size, a # b
  PROVE  Buffer(a) + x <= Buffer(b) \/ Buffer(b) + y <= Buffer(a)
  <1>1. /\ NextBlock(h, a) = a + Align + h.hdr[a].size /\ h.hdr[a].size \in Nat
        /\ NextBlock(h, b) = b + Align + h.hdr[b].size /\ h.hdr[b].size \in Nat
    BY NextIs
  <1>2. (b <= a \/ b >= NextBlock(h, a)) /\ (a <= b \/ a >= NextBlock(h, b))
    BY Apart
  <1>3. a \in Nat /\ b \in Nat /\ Align \in Nat
    BY AddrIs, ConstantsAre DEF Bl
  <1>4. Buffer(a) = a + Align /\ Buffer(b) = b + Align
    BY DEF Buffer, Overhead
  <1> DEFINE s == h.hdr[a].size
             t == h.hdr[b].size
  <1> HIDE DEF s, t
  <1>5. /\ s \in Nat /\ t \in Nat /\ x <= s /\ y <= t
        /\ b <= a \/ b >= a + Align + s
        /\ a <= b \/ a >= b + Align + t
    BY <1>1, <1>2 DEF s, t
  <1> QED BY <1>3, <1>4, <1>5

LEMMA RegionInPool ==
  ASSUME NEW h, Layout(h), NEW a \in Bl(h) \ {0, LastBlock}, NEW x \in Nat, x <= h.hdr[a].size
  PROVE  Buffer(a) \in Abstract!Pointers /\ Buffer(a) + x <= PoolSize
  <1>1. h.hdr[a].size \in Nat /\ a + Align + h.hdr[a].size <= LastBlock
    BY NextIs, SizeIs
  <1>2. /\ a \in Nat /\ a # 0 /\ Align \in Nat \ {0} /\ PoolSize \in Nat
        /\ LastBlock = PoolSize - Align
    BY AddrIs, ConstantsAre DEF Bl
  <1> DEFINE s == h.hdr[a].size
  <1> HIDE DEF s
  <1>3. s \in Nat /\ x <= s /\ a + Align + s <= PoolSize - Align
    BY <1>1, <1>2 DEF s
  <1>4. a + Align \in 1 .. PoolSize /\ a + Align + x <= PoolSize
    BY <1>2, <1>3
  <1> QED BY <1>4 DEF Buffer, Overhead, Abstract!Pointers

(* d is handed out for n bytes, and the blocks of S are given back. *)
LEMMA Granted ==
  ASSUME Inv, NEW k, Sound(k), NEW S \in SUBSET User(heap), NEW d \in Addr, d \notin {0, LastBlock},
         d \notin User(heap) \ S, Held(k, Null) \ {0, LastBlock} = (User(heap) \ S) \cup {d},
         SameSizes(heap, k, User(heap) \ S), NEW n \in Nat, k.hdr[d].size >= n,
         NEW old, old = {Buffer(a) : a \in S}
  PROVE  /\ Owned(k, Hold(Buffer(d), n, old))
         /\ Buffer(d) \in Abstract!Vacant(n, old) \ (DOMAIN live \ old)
  <1> DEFINE l == Hold(Buffer(d), n, old)
             rest == User(heap) \ S
  <1>1. User(k) = rest \cup {d}
    BY DEF User
  <1>2. \A a \in User(heap) : a \in Addr
    BY UserIs
  <1>3. DOMAIN live = {Buffer(a) : a \in User(heap)}
    BY DEF Inv, Owned
  <1>4. DOMAIN live \ old = {Buffer(a) : a \in rest}
    BY <1>2, <1>3, OneBuffer
  <1>5. DOMAIN l = {Buffer(a) : a \in User(k)}
    BY <1>1, <1>4 DEF Hold
  <1>6. l[Buffer(d)] = n /\ \A a \in rest : l[Buffer(a)] = live[Buffer(a)]
    BY <1>2, <1>4, OneBuffer DEF Hold
  <1>7. \A a \in rest : live[Buffer(a)] \in Nat /\ heap.hdr[a].size >= live[Buffer(a)]
    BY DEF Inv, Owned
  <1>8. \A a \in User(k) : l[Buffer(a)] \in Nat /\ k.hdr[a].size >= l[Buffer(a)]
    BY <1>1, <1>6, <1>7 DEF SameSizes
  <1>9. l = [p \in DOMAIN l |-> l[p]]
    BY DEF Hold
  <1> HIDE DEF l
  <1>10. Owned(k, l)
    BY <1>5, <1>8, <1>9 DEF Owned
  <1>11. Layout(k) /\ \A a \in User(k) : a \in Bl(k) \ {0, LastBlock}
    BY UserIs DEF Sound
  <1>12. d \in Bl(k) \ {0, LastBlock}
    BY <1>1, <1>11
  <1>13. n <= k.hdr[d].size
    <2>1. k.hdr[d].size \in Nat
      BY <1>11, <1>12, NextIs
    <2> QED BY <2>1
  <1>14. Buffer(d) \in Abstract!Pointers /\ Buffer(d) + n <= PoolSize
    BY <1>11, <1>12, <1>13, RegionInPool
  <1>15. \A q \in DOMAIN live \ old : Buffer(d) + n <= q \/ q + live[q] <= Buffer(d)
    <2> TAKE q \in DOMAIN live \ old
    <2>1. PICK a \in rest : q = Buffer(a)
      BY <1>4
    <2>2. a # d /\ a \in User(k) /\ live[q] \in Nat /\ k.hdr[a].size >= live[q]
      BY <1>1, <1>6, <1>8, <2>1
    <2>3. a \in Bl(k) \ {0, LastBlock} /\ k.hdr[a].size \in Nat
      BY <1>11, <2>2, NextIs
    <2>4. live[q] <= k.hdr[a].size
      BY <2>2, <2>3
    <2> DEFINE x == live[q]
    <2> HIDE DEF x
    <2>5. x \in Nat /\ x <= k.hdr[a].size
      BY <2>2, <2>4 DEF x
    <2>6. Buffer(d) + n <= Buffer(a) \/ Buffer(a) + x <= Buffer(d)
      BY <1>11, <1>12, <1>13, <2>2, <2>3, <2>5, RegionsApart
    <2> QED BY <2>1, <2>6 DEF x
  <1>16. Buffer(d) \notin DOMAIN live \ old
    BY <1>2, <1>4, OneBuffer
  <1>17. Buffer(d) \in Abstract!Vacant(n, old)
    BY <1>14, <1>15 DEF Abstract!Vacant
  <1> QED BY <1>10, <1>16, <1>17 DEF l

LEMMA BufferIsNotNull ==
  ASSUME NEW b \in Addr PROVE Buffer(b) # Null
  <1>1. b \in Nat /\ Align \in Nat
    BY AddrIs, ConstantsAre
  <1> QED BY <1>1 DEF Buffer, Overhead, Null

LEMMA MallocStep ==
  ASSUME Inv, NEW n \in Requests, Malloc(n)
  PROVE  Sound(heap') /\ Owned(heap', live') /\ (Abstract!Malloc(n) \/ live' = live)
  <1> DEFINE r == MallocEx(heap, n)
             k == r.heap
             m == SearchSize(Adjust(n))
  <1>1. Sound(heap) /\ Owned(heap, live) /\ n \in Nat /\ Fit(n)
    BY RequestsFit DEF Inv
  <1>2. heap' = k /\ live' = IF r.ptr = Null THEN live ELSE Hold(r.ptr, n, {})
    BY DEF Malloc
  <1>3. m \in Nat /\ m >= n
    <2>1. m \in Nat /\ m >= Adjust(n)
      BY <1>1, SearchFits
    <2>2. Adjust(n) \in Nat /\ Adjust(n) >= n
      BY <1>1 DEF Fit
    <2> HIDE DEF m
    <2> QED BY <1>1, <2>1, <2>2
  <1>4. CASE r.ptr = Null /\ k = heap
    <2>1. heap' = heap /\ live' = live
      BY <1>2, <1>4
    <2> QED BY <1>1, <2>1
  <1>5. CASE ~(r.ptr = Null /\ k = heap)
    <2>1. PICK d \in Fr(heap) : /\ r.ptr = Buffer(d) /\ Sound(k)
                                /\ Held(k, Null) = Held(heap, Null) \cup {d}
                                /\ SameSizes(heap, k, Held(heap, Null)) /\ k.hdr[d].size >= m
      BY <1>1, <1>5, MallocIs
    <2> HIDE DEF r, k, m
    <2>2. d \in Addr /\ d \notin {0, LastBlock} /\ d \notin User(heap) \ {}
      <3>1. Layout(heap)
        BY <1>1 DEF Sound
      <3>2. d \in Bl(heap) \ {0, LastBlock} /\ heap.hdr[d].free
        BY <3>1, FreeIsInner
      <3> QED BY <3>2 DEF User, Held, Bl
    <2>3. Held(k, Null) \ {0, LastBlock} = (User(heap) \ {}) \cup {d}
      BY <2>1, <2>2 DEF User
    <2>4. SameSizes(heap, k, User(heap) \ {})
      BY <2>1 DEF SameSizes, User
    <2>5. k.hdr[d].size >= n
      <3>1. k.hdr[d].size \in Int
        BY <2>1, <2>2 DEF Sound, Layout, Heaps, Headers
      <3> QED BY <1>1, <1>3, <2>1, <3>1
    <2>6. {} = {Buffer(a) : a \in {}} /\ {} \in SUBSET User(heap)
      OBVIOUS
    <2>7. /\ Owned(k, Hold(Buffer(d), n, {}))
          /\ Buffer(d) \in Abstract!Vacant(n, {}) \ (DOMAIN live \ {})
      BY <1>1, <2>1, <2>2, <2>3, <2>4, <2>5, <2>6, Granted
    <2>8. live' = Hold(Buffer(d), n, {})
      BY <1>2, <2>1, <2>2, BufferIsNotNull
    <2>9. Abstract!Malloc(n)
      <3>1. live' = Abstract!Grant(Buffer(d), n, {})
        BY <2>8 DEF Hold, Abstract!Grant
      <3>2. Buffer(d) \in Abstract!Vacant(n, {}) \ DOMAIN live
        BY <2>7
      <3> QED BY <3>1, <3>2 DEF Abstract!Malloc
    <2> QED BY <1>2, <2>1, <2>7, <2>8, <2>9
  <1> QED BY <1>4, <1>5

LEMMA FreeStep ==
  ASSUME Inv, NEW ptr \in DOMAIN live, Free(ptr)
  PROVE  Sound(heap') /\ Owned(heap', live') /\ Abstract!Free(ptr)
  <1>1. Sound(heap) /\ Owned(heap, live)
    BY DEF Inv
  <1>2. PICK b \in User(heap) : ptr = Buffer(b)
    BY <1>1 DEF Owned
  <1> DEFINE k == FreeEx(heap, Buffer(b))
             l == [q \in DOMAIN live \ {ptr} |-> live[q]]
  <1>3. heap' = k /\ live' = l
    BY <1>2 DEF Free
  <1>4. b \in Bl(heap) \ {0, LastBlock} /\ b \in Addr /\ ~heap.hdr[b].free
    BY UserIs
  <1>5. Sound(k) /\ Held(k, Null) = Held(heap, b) /\ SameSizes(heap, k, Held(heap, b))
    BY <1>1, <1>4, FreeIs
  <1> HIDE DEF k
  <1>6. User(k) = User(heap) \ {b} /\ User(k) \subseteq Held(heap, b)
    <2>1. Null \notin Bl(heap)
      BY NullIsNone DEF Bl
    <2> QED BY <1>5, <2>1 DEF User, Held
  <1>7. \A a \in User(heap) : a \in Addr
    BY UserIs
  <1>8. DOMAIN l = {Buffer(a) : a \in User(k)}
    <2>1. DOMAIN live = {Buffer(a) : a \in User(heap)}
      BY <1>1 DEF Owned
    <2> QED BY <1>2, <1>6, <1>7, <2>1, OneBuffer
  <1>9. \A a \in User(k) : l[Buffer(a)] \in Nat /\ k.hdr[a].size >= l[Buffer(a)]
    <2> TAKE a \in User(k)
    <2>1. a \in User(heap) /\ a \in Held(heap, b) /\ Buffer(a) \in DOMAIN l
      BY <1>6, <1>8
    <2>2. l[Buffer(a)] = live[Buffer(a)]
      BY <2>1
    <2> HIDE DEF l
    <2> QED BY <1>1, <1>5, <2>1, <2>2 DEF Owned, SameSizes
  <1>10. Owned(k, l)
    BY <1>8, <1>9 DEF Owned
  <1>11. Abstract!Free(ptr)
    BY <1>3 DEF Abstract!Free, Abstract!Release
  <1> QED BY <1>3, <1>5, <1>10, <1>11

LEMMA ReallocStep ==
  ASSUME Inv, NEW ptr \in DOMAIN live, NEW n \in Requests, Realloc(ptr, n)
  PROVE  Sound(heap') /\ Owned(heap', live') /\ (Abstract!Realloc(ptr, n) \/ live' = live)
  <1>1. Sound(heap) /\ Owned(heap, live) /\ n \in Nat /\ Fit(n)
    BY RequestsFit DEF Inv
  <1>2. PICK b \in User(heap) : ptr = Buffer(b)
    BY <1>1 DEF Owned
  <1> DEFINE r == ReallocEx(heap, Buffer(b), n)
             k == r.heap
             s == Adjust(n)
  <1>3. heap' = k /\ live' = IF r.ptr = Null THEN live ELSE Hold(r.ptr, n, {ptr})
    BY <1>2 DEF Realloc
  <1>4. b \in Bl(heap) \ {0, LastBlock} /\ b \in Addr /\ ~heap.hdr[b].free
    BY UserIs
  <1>5. \/ r.ptr = Null /\ k = heap
        \/ r.ptr = Buffer(b) /\ Kept(heap, k, b, s)
        \/ Moved(heap, r, b, s)
    BY <1>1, <1>4, ReallocIs
  <1>6. s \in Nat /\ s >= n
    BY <1>1 DEF Fit
  <1>7. User(heap) \ {b} \subseteq Held(heap, b) /\ (Held(heap, b) \cup {b}) = Held(heap, Null)
    <2>1. Null \notin Bl(heap)
      BY NullIsNone DEF Bl
    <2> QED BY <1>4, <2>1 DEF User, Held
  <1> HIDE DEF r, k, s
  <1>8. ASSUME NEW d \in Addr, d \notin {0, LastBlock}, d \notin User(heap) \ {b},
               r.ptr = Buffer(d), Sound(k), Held(k, Null) = Held(heap, b) \cup {d},
               SameSizes(heap, k, Held(heap, b)), k.hdr[d].size >= s
        PROVE  Sound(heap') /\ Owned(heap', live') /\ Abstract!Realloc(ptr, n)
    <2>1. Held(k, Null) \ {0, LastBlock} = (User(heap) \ {b}) \cup {d}
      <3>1. b \notin Held(heap, b)
        BY DEF Held
      <3> QED BY <1>7, <1>8, <3>1 DEF User
    <2>2. SameSizes(heap, k, User(heap) \ {b})
      BY <1>7, <1>8 DEF SameSizes
    <2>3. k.hdr[d].size >= n
      <3>1. k.hdr[d].size \in Int
        BY <1>8 DEF Sound, Layout, Heaps, Headers
      <3> QED BY <1>1, <1>6, <1>8, <3>1
    <2>4. {ptr} = {Buffer(a) : a \in {b}} /\ {b} \in SUBSET User(heap)
      BY <1>2
    <2>5. /\ Owned(k, Hold(Buffer(d), n, {ptr}))
          /\ Buffer(d) \in Abstract!Vacant(n, {ptr}) \ (DOMAIN live \ {ptr})
      BY <1>1, <1>8, <2>1, <2>2, <2>3, <2>4, Granted
    <2>6. live' = Hold(Buffer(d), n, {ptr})
      BY <1>3, <1>8, BufferIsNotNull
    <2>7. live' = Abstract!Grant(Buffer(d), n, {ptr})
      BY <2>6 DEF Hold, Abstract!Grant
    <2>8. Abstract!Realloc(ptr, n)
      BY <2>5, <2>7 DEF Abstract!Realloc
    <2> QED BY <1>3, <1>8, <2>5, <2>6, <2>8
  <1>9. CASE r.ptr = Null /\ k = heap
    <2>1. heap' = heap /\ live' = live
      BY <1>3, <1>9
    <2> QED BY <1>1, <2>1
  <1>10. CASE r.ptr = Buffer(b) /\ Kept(heap, k, b, s)
    <2>1. /\ Sound(k) /\ Held(k, Null) = Held(heap, b) \cup {b}
          /\ SameSizes(heap, k, Held(heap, b)) /\ k.hdr[b].size >= s
      BY <1>7, <1>10 DEF Kept
    <2>2. b \in Addr /\ b \notin {0, LastBlock} /\ b \notin User(heap) \ {b}
      BY <1>4
    <2> QED BY <1>8, <1>10, <2>1, <2>2
  <1>11. CASE Moved(heap, r, b, s)
    <2>1. PICK d \in Fr(heap) :
            /\ r.ptr = Buffer(d) /\ Sound(k)
            /\ Held(k, Null) = Held(heap, b) \cup {d}
            /\ SameSizes(heap, k, Held(heap, b)) /\ k.hdr[d].size >= s
      BY <1>11 DEF Moved, k
    <2>2. d \in Addr /\ d \notin {0, LastBlock} /\ d \notin User(heap) \ {b}
      <3>1. Layout(heap)
        BY <1>1 DEF Sound
      <3>2. d \in Bl(heap) \ {0, LastBlock} /\ heap.hdr[d].free
        BY <3>1, FreeIsInner
      <3> QED BY <3>2 DEF User, Held, Bl
    <2> QED BY <1>8, <2>1, <2>2
  <1> QED BY <1>5, <1>9, <1>10, <1>11

(* The invariant of the proofs holds in every state. *)
THEOREM InvHolds == Spec => []Inv
  <1>1. ASSUME Init PROVE Inv
    <2>1. Sound(InitHeap) /\ User(InitHeap) = {}
      BY InitIs DEF User
    <2> DEFINE l == [p \in {} |-> 0]
    <2>2. Owned(InitHeap, l)
      BY <2>1 DEF Owned
    <2>3. heap = InitHeap /\ live = l
      BY <1>1 DEF Init
    <2> HIDE DEF l
    <2> QED BY <2>1, <2>2, <2>3 DEF Inv
  <1>2. ASSUME Inv, [Next]_vars PROVE Inv'
    <2>1. ASSUME NEW n \in Requests, Malloc(n) PROVE Inv'
      BY <1>2, <2>1, MallocStep DEF Inv
    <2>2. ASSUME NEW ptr \in DOMAIN live, Free(ptr) PROVE Inv'
      BY <1>2, <2>2, FreeStep DEF Inv
    <2>3. ASSUME NEW ptr \in DOMAIN live, NEW n \in Requests, Realloc(ptr, n) PROVE Inv'
      BY <1>2, <2>3, ReallocStep DEF Inv
    <2>4. CASE UNCHANGED vars
      BY <1>2, <2>4 DEF vars, Inv
    <2> QED BY <1>2, <2>1, <2>2, <2>3, <2>4 DEF Next
  <1> QED BY <1>1, <1>2, PTL DEF Spec

(* malloc, free and realloc (tlsf.c:719-942) implement the heap that callers *)
(* expect: regions long enough and apart, and a call that fails changes     *)
(* nothing.                                                                 *)
THEOREM ImplementsHeapHolds == Spec => ImplementsHeap
  <1>1. ASSUME Init PROVE Abstract!Init
    BY <1>1 DEF Init, Abstract!Init
  <1>2. ASSUME Inv, [Next]_vars PROVE [Abstract!Next]_live
    <2>1. ASSUME NEW n \in Requests, Malloc(n) PROVE Abstract!Next \/ live' = live
      BY <1>2, <2>1, MallocStep DEF Abstract!Next
    <2>2. ASSUME NEW ptr \in DOMAIN live, Free(ptr) PROVE Abstract!Next
      BY <1>2, <2>2, FreeStep DEF Abstract!Next
    <2>3. ASSUME NEW ptr \in DOMAIN live, NEW n \in Requests, Realloc(ptr, n)
          PROVE  Abstract!Next \/ live' = live
      BY <1>2, <2>3, ReallocStep DEF Abstract!Next
    <2>4. CASE UNCHANGED vars
      BY <2>4 DEF vars
    <2> QED BY <1>2, <2>1, <2>2, <2>3, <2>4 DEF Next
  <1> QED BY <1>1, <1>2, InvHolds, PTL DEF Spec, ImplementsHeap, Abstract!Spec

-----------------------------------------------------------------------------
(* What the runs check of the heap. *)
LEMMA BlocksAre ==
  ASSUME Inv PROVE Blocks = Bl(heap) /\ FreeBlocks = Fr(heap)
  <1>1. Layout(heap) /\ Lists(heap, Fr(heap)) /\ heap \in Heaps
    BY DEF Inv, Sound, Layout
  <1>2. Blank.size = -1
    BY DEF Blank, Header
  <1>3. ASSUME NEW a \in Addr, ~(heap.hdr[a].size >= 0) PROVE heap.hdr[a] = Blank
    <2>1. heap.hdr[a] \in Headers
      BY <1>1 DEF Heaps
    <2>2. Empty(heap, a)
      <3>1. heap.hdr[a].size < 0
        BY <1>3, <2>1 DEF Headers
      <3> QED BY <1>1, <3>1 DEF Layout
    <2>3. a \notin Fr(heap)
      BY <1>3 DEF Fr, Bl
    <2>4. heap.hdr[a].next = Null /\ heap.hdr[a].prev = Null
      BY <1>1, <2>3 DEF Lists, Ranked
    <2> QED BY <2>1, <2>2, <2>4 DEF Empty, Blank, Header, Headers
  <1>4. ASSUME NEW a \in Addr, heap.hdr[a].size >= 0 PROVE heap.hdr[a] # Blank
    BY <1>2, <1>4
  <1>5. Blocks = Bl(heap)
    BY <1>3, <1>4 DEF Blocks, Bl
  <1> QED BY <1>5 DEF FreeBlocks, Fr

LEMMA TypesOf == Inv => TypeOK
  <1> SUFFICES ASSUME Inv PROVE TypeOK
    OBVIOUS
  <1>1. Layout(heap) /\ Lists(heap, Fr(heap)) /\ heap \in Heaps
    BY DEF Inv, Sound, Layout
  <1>2. /\ PoolSize \in Nat /\ Align \in Nat \ {0} /\ LastBlock = PoolSize - Align
        /\ \A a \in Addr : a \in Nat /\ a <= LastBlock
    BY AddrIs, ConstantsAre
  <1>3. \A a \in Addr : heap.hdr[a].size \in -1 .. PoolSize
    <2> TAKE a \in Addr
    <2>1. heap.hdr[a].size \in Int
      BY <1>1 DEF Heaps, Headers
    <2>2. CASE heap.hdr[a].size < 0
      <3>1. heap.hdr[a].size = -1
        BY <1>1, <2>2 DEF Layout, Empty
      <3> QED BY <1>2, <3>1
    <2>3. CASE a \in Bl(heap) \ {LastBlock}
      <3> DEFINE s == heap.hdr[a].size
                 n == NextBlock(heap, a)
      <3>1. s \in Nat /\ n = a + Align + s /\ n \in Addr
        BY <1>1, <2>3, NextIs
      <3> HIDE DEF s, n
      <3>2. a \in Nat /\ n <= PoolSize - Align
        BY <1>2, <3>1
      <3>3. s <= PoolSize
        BY <1>2, <3>1, <3>2
      <3>4. s \in -1 .. PoolSize
        BY <1>2, <3>1, <3>3
      <3> QED BY <3>4 DEF s
    <2>4. CASE a = LastBlock
      <3>1. heap.hdr[a].size = 0
        BY <1>1, <2>4 DEF Layout
      <3> QED BY <1>2, <3>1
    <2> QED BY <2>1, <2>2, <2>3, <2>4 DEF Bl
  <1>4. heap.hdr \in [Addr -> [size : -1 .. PoolSize, free : BOOLEAN, prevFree : BOOLEAN,
                               prevHdr : Addr \cup {Null}, next : Addr \cup {Null},
                               prev : Addr \cup {Null}]]
    <2> DEFINE R == [size : -1 .. PoolSize, free : BOOLEAN, prevFree : BOOLEAN,
                     prevHdr : Addr \cup {Null}, next : Addr \cup {Null},
                     prev : Addr \cup {Null}]
    <2>1. heap.hdr \in [Addr -> Headers]
      BY <1>1 DEF Heaps
    <2>2. ASSUME NEW a \in Addr PROVE heap.hdr[a] \in R
      BY <1>3, <2>1 DEF Headers, Links
    <2> HIDE DEF R
    <2>3. heap.hdr \in [Addr -> R]
      BY <2>1, <2>2
    <2> QED BY <2>3 DEF R
  <1>5. \A a \in Addr : heap.hdr[a].free \/ (heap.hdr[a].next = Null /\ heap.hdr[a].prev = Null)
    <2>1. \A a \in Addr \ Fr(heap) : heap.hdr[a].next = Null /\ heap.hdr[a].prev = Null
      BY <1>1 DEF Lists, Ranked
    <2> QED BY <2>1 DEF Fr
  <1>6. /\ heap.matrix \in [Class -> Addr \cup {Null}]
        /\ heap.sl \subseteq Class /\ heap.fl \subseteq 0 .. RealFli - 1
    BY <1>1 DEF Heaps, Links
  <1>7. DOMAIN live \subseteq {Buffer(a) : a \in Addr}
    BY UserIs DEF Inv, Owned
  <1> QED BY <1>4, <1>5, <1>6, <1>7 DEF TypeOK

LEMMA TilingOf == Inv => Tiling
  <1> SUFFICES ASSUME Inv PROVE Tiling
    OBVIOUS
  <1>1. Blocks = Bl(heap) /\ FreeBlocks = Fr(heap)
    BY BlocksAre
  <1>2. Layout(heap) /\ \A a \in Bl(heap) \ {LastBlock} : Tag(heap, a)
    BY DEF Inv, Sound
  <1>3. {0, LastBlock} \subseteq Bl(heap) \ Fr(heap)
    BY <1>2 DEF Layout, Fr
  <1>4. ASSUME NEW b \in Bl(heap) \ {LastBlock}
        PROVE LET n == NextBlock(heap, b)
              IN  /\ n \in Bl(heap) /\ \A a \in Bl(heap) : a <= b \/ a >= n
                  /\ heap.hdr[n].prevFree = heap.hdr[b].free
                  /\ heap.hdr[b].free => heap.hdr[n].prevHdr = b /\ ~heap.hdr[n].free
                  /\ heap.hdr[b].size >= MinBlock /\ heap.hdr[b].size % Align = 0
    BY <1>2 DEF Layout, Fits, Tag
  <1> QED BY <1>1, <1>3, <1>4 DEF Tiling

LEMMA OwnershipOf == Inv => Ownership
  <1> SUFFICES ASSUME Inv PROVE Ownership
    OBVIOUS
  <1>1. Blocks = Bl(heap) /\ FreeBlocks = Fr(heap)
    BY BlocksAre
  <1>2. /\ DOMAIN live = {Buffer(a) : a \in User(heap)}
        /\ \A a \in User(heap) : heap.hdr[a].size >= live[Buffer(a)]
    BY DEF Inv, Owned
  <1>3. \A a \in User(heap) : BlockOf(Buffer(a)) = a
    BY UserIs, BlockOfBuffer
  <1>4. {BlockOf(p) : p \in DOMAIN live} = User(heap)
    BY <1>2, <1>3
  <1>5. User(heap) = Inner \ FreeBlocks
    <2>1. Null \notin Bl(heap)
      BY NullIsNone DEF Bl
    <2> QED BY <1>1, <2>1 DEF User, Held, Inner, Fr
  <1> QED BY <1>2, <1>3, <1>4, <1>5 DEF Ownership

(* After any sequence of calls the blocks tile the pool, their tags agree    *)
(* with their neighbours, no two free blocks are adjacent, and callers hold *)
(* those that are not free (tlsf.c:719-942).                                *)
THEOREM BoundaryTagsHolds == Spec => []BoundaryTags
  <1>1. Inv => BoundaryTags
    BY TypesOf, TilingOf, OwnershipOf DEF BoundaryTags
  <1> QED BY <1>1, InvHolds, PTL

(* The lists and the bitmaps describe exactly the free blocks               *)
(* (tlsf.c:372-411).                                                        *)
THEOREM FreeListsHolds == Spec => []FreeLists
  <1>1. ASSUME Inv PROVE FreeLists
    <2> DEFINE h == heap
               F == Fr(heap)
    <2>1. PICK rank : Ranked(h, F, rank)
      BY <1>1 DEF Inv, Sound, Lists
    <2>2. FreeBlocks = F
      BY <1>1, BlocksAre
    <2>3. \A c \in Class : ListOf(c) = {b \in F : ClassOf(h, b) = c}
      BY <2>2 DEF ListOf, ClassOf
    <2> HIDE DEF h, F
    <2>4. ASSUME NEW c \in Class
          PROVE LET first == h.matrix[c]
                    l == {b \in F : ClassOf(h, b) = c}
                IN  /\ IF l = {} THEN first = Null ELSE first \in l /\ h.hdr[first].prev = Null
                    /\ \A b \in l :
                         /\ h.hdr[b].next # Null =>
                              h.hdr[b].next \in l /\ h.hdr[h.hdr[b].next].prev = b
                         /\ b # first =>
                              h.hdr[b].prev \in l /\ h.hdr[h.hdr[b].prev].next = b
                    /\ c \in h.sl <=> l # {}
      <3> DEFINE l == {b \in F : ClassOf(h, b) = c}
      <3>1. h.matrix[c] # Null => h.matrix[c] \in l /\ h.hdr[h.matrix[c]].prev = Null
        BY <2>1 DEF Ranked
      <3>2. \A b \in l : h.matrix[c] # Null
        BY <2>1 DEF Ranked
      <3>3. \A b \in l : /\ h.hdr[b].next # Null =>
                              h.hdr[b].next \in l /\ h.hdr[h.hdr[b].next].prev = b
                         /\ b # h.matrix[c] =>
                              h.hdr[b].prev \in l /\ h.hdr[h.hdr[b].prev].next = b
        BY <2>1 DEF Ranked
      <3>4. c \in h.sl <=> h.matrix[c] # Null
        BY <2>1 DEF Ranked
      <3> HIDE DEF l
      <3>5. l = {} \/ \E b \in l : TRUE
        OBVIOUS
      <3>6. IF l = {} THEN h.matrix[c] = Null
            ELSE h.matrix[c] \in l /\ h.hdr[h.matrix[c]].prev = Null
        BY <3>1, <3>2, <3>5
      <3>7. c \in h.sl <=> l # {}
        BY <3>1, <3>2, <3>4, <3>5
      <3> QED BY <3>3, <3>6, <3>7 DEF l
    <2>5. h.fl = {c[1] : c \in h.sl}
      BY <2>1 DEF Ranked
    <2> QED BY <2>3, <2>4, <2>5 DEF FreeLists, h
  <1> QED BY <1>1, InvHolds, PTL

(* malloc finds a block if there is one to be found and takes no more of it *)
(* than it must, and a realloc that succeeds keeps the data                 *)
(* (tlsf.c:352-369, 749-765, 886-895).                                      *)
THEOREM CallsAsPromisedHolds == Spec => []CallsAsPromised
  <1>1. ASSUME Inv PROVE FailsOnlyWhenNoFit /\ NoWaste
    <2>1. Sound(heap) /\ FreeBlocks = Fr(heap)
      BY <1>1, BlocksAre DEF Inv
    <2>2. ASSUME NEW n \in Requests
          PROVE LET r == MallocEx(heap, n)
                IN  /\ r.ptr = Null => \A b \in Fr(heap) : heap.hdr[b].size < SearchSize(Adjust(n))
                    /\ r.ptr # Null =>
                         r.heap.hdr[BlockOf(r.ptr)].size < SearchSize(Adjust(n)) + BhdrSize
      <3> DEFINE r == MallocEx(heap, n)
                 m == SearchSize(Adjust(n))
      <3>1. \/ r.ptr = Null /\ \A b \in Fr(heap) : heap.hdr[b].size < m
            \/ \E b \in Fr(heap) : r.ptr = Buffer(b) /\ r.heap.hdr[b].size < m + BhdrSize
        BY <2>1, RequestsFit, MallocIs
      <3>2. \A b \in Fr(heap) : Buffer(b) # Null /\ BlockOf(Buffer(b)) = b
        BY BufferIsNotNull, BlockOfBuffer DEF Fr, Bl
      <3> HIDE DEF r, m
      <3>3. r.ptr = Null => \A b \in Fr(heap) : heap.hdr[b].size < m
        BY <3>1, <3>2
      <3>4. r.ptr # Null => r.heap.hdr[BlockOf(r.ptr)].size < m + BhdrSize
        BY <3>1, <3>2
      <3> QED BY <3>3, <3>4 DEF r, m
    <2> QED BY <2>1, <2>2 DEF FailsOnlyWhenNoFit, NoWaste
  <1>2. ASSUME Inv PROVE ReallocKeepsData
    <2>1. Sound(heap) /\ Owned(heap, live)
      BY <1>2 DEF Inv
    <2>2. ASSUME NEW p \in DOMAIN live, NEW n \in Requests \ {0}, ReallocEx(heap, p, n).ptr # Null
          PROVE  ReallocEx(heap, p, n).copied >= Min({live[p], n})
      <3>1. PICK b \in User(heap) : p = Buffer(b)
        BY <2>1 DEF Owned
      <3> DEFINE r == ReallocEx(heap, Buffer(b), n)
                 old == heap.hdr[b].size
                 s == Adjust(n)
                 x == live[p]
      <3>2. b \in Bl(heap) \ {0, LastBlock} /\ ~heap.hdr[b].free
        BY UserIs
      <3>3. old \in Nat
        BY <2>1, <3>2, NextIs DEF Sound
      <3>4. x \in Nat /\ old >= x
        BY <2>1, <3>1 DEF Owned
      <3>5. n \in Nat /\ Fit(n)
        BY RequestsFit
      <3>6. s \in Nat /\ s >= n
        BY <3>5 DEF Fit
      <3>7. r.copied = old \/ r.copied = Copied(old, s)
        BY <2>1, <2>2, <3>1, <3>2, <3>5, ReallocIs DEF Moved
      <3> HIDE DEF r, old, s, x
      <3>8. r.copied >= x \/ r.copied >= n
        BY <3>3, <3>4, <3>5, <3>6, <3>7 DEF Copied
      <3>9. r.copied \in Nat
        BY <3>3, <3>6, <3>7 DEF Copied
      <3> DEFINE m == Min({x, n})
      <3>10. m \in {x, n} /\ m <= x /\ m <= n
        <4>1. {x, n} \in SUBSET Nat /\ {x, n} # {}
          BY <3>4, <3>5
        <4>2. m \in {x, n} /\ \A y \in {x, n} : m <= y
          BY <4>1, MinIs
        <4> QED BY <4>2
      <3> HIDE DEF m
      <3>11. r.copied >= m
        BY <3>4, <3>5, <3>8, <3>9, <3>10
      <3> QED BY <3>1, <3>11 DEF r, m, x
    <2> QED BY <2>2 DEF ReallocKeepsData
  <1>3. Inv => CallsAsPromised
    BY <1>1, <1>2 DEF CallsAsPromised
  <1> QED BY <1>3, InvHolds, PTL
===============================================================================
