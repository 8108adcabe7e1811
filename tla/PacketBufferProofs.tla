-------------------------- MODULE PacketBufferProofs --------------------------
(***************************************************************************)
(* What PacketBuffer promises for every regular stream, every buffer size, *)
(* range of numbers and padding age, and packets and padding in any order, *)
(* lost or repeated: frames are handed out whole, none that is complete    *)
(* stays, and H.264 delta frames wait for what is missing before them.     *)
(*                                                                         *)
(* Sequence numbers wrap, so the proofs speak of positions: how far a      *)
(* number lies behind the base of its stream.  Positions do not wrap, and  *)
(* AheadOf compares them (AheadIs).                                        *)
(***************************************************************************)
EXTENDS PacketBuffer, FiniteSetTheorems, WellFoundedInduction, TLAPS

-------------------------------------------------------------------------------
(* Least elements, induction and recursion *)

LEMMA LeastExists ==
  ASSUME NEW S \in SUBSET Nat, S # {}
  PROVE  LeastOf(S) \in S /\ \A n \in S : LeastOf(S) <= n
<1> DEFINE Below == {0 .. n : n \in S}
<1>1. Below \subseteq FiniteSubsetsOf(Nat) /\ Below # {}
  <2>1. \A n \in S : 0 .. n \in SUBSET Nat /\ IsFiniteSet(0 .. n)
    BY FS_Interval
  <2>2. QED
    BY <2>1 DEF FiniteSubsetsOf
<1>2. \E x \in Below : \A y \in Below : ~ (<<y, x>> \in StrictSubsetOrdering(Nat))
  BY <1>1, WFMin, FS_StrictSubsetOrderingWellFounded
<1>3. PICK m \in S : \A n \in S : ~ (<<0 .. n, 0 .. m>> \in StrictSubsetOrdering(Nat))
  BY <1>2
<1>4. ASSUME NEW n \in S, n < m PROVE FALSE
  <2>1. 0 .. n \in SUBSET Nat /\ 0 .. m \in SUBSET Nat
    OBVIOUS
  <2>2. 0 .. n \subseteq 0 .. m /\ m \in 0 .. m /\ m \notin 0 .. n
    BY <1>4
  <2>3. QED
    BY <1>3, <2>1, <2>2 DEF StrictSubsetOrdering
<1>5. \A n \in S : m <= n
  BY <1>4
<1>6. QED
  BY <1>5 DEF LeastOf

\* A set that has 0 and is closed under successors up to N has all of 0 .. N.
LEMMA InductionUpTo ==
  ASSUME NEW N \in Nat, NEW T, 0 \in T, \A n \in 1 .. N : n - 1 \in T => n \in T
  PROVE  0 .. N \subseteq T
<1> DEFINE Missing == {n \in 0 .. N : n \notin T}
<1> SUFFICES ASSUME Missing # {} PROVE FALSE
  OBVIOUS
<1>1. Missing \in SUBSET Nat
  OBVIOUS
<1> DEFINE m == LeastOf(Missing)
<1>2. m \in Missing /\ \A n \in Missing : m <= n
  <2> HIDE DEF Missing
  <2>1. QED
    BY <1>1, LeastExists
<1> HIDE DEF m
<1>3. m \in 1 .. N /\ m - 1 \in 0 .. N /\ ~ (m <= m - 1)
  BY <1>2
<1>4. m - 1 \in T
  BY <1>2, <1>3
<1>5. QED
  BY <1>2, <1>3, <1>4

\* A function by recursion over 0 .. N, each value from the one before, exists.
HasRecursion(N, V, b, g) ==
    \E f \in [0 .. N -> V] :
        \A n \in 0 .. N : f[n] = IF n = 0 THEN b ELSE g[<<n, f[n - 1]>>]

LEMMA RecursionExists ==
  ASSUME NEW N \in Nat, NEW V, NEW b \in V, NEW g \in [(1 .. N) \X V -> V]
  PROVE  HasRecursion(N, V, b, g)
<1> DEFINE Upto(m, f) == \A n \in 0 .. m : f[n] = IF n = 0 THEN b ELSE g[<<n, f[n - 1]>>]
           T == {m \in 0 .. N : \E f \in [0 .. m -> V] : Upto(m, f)}
<1>1. 0 \in T
  <2> DEFINE f == [n \in 0 .. 0 |-> b]
  <2>1. f \in [0 .. 0 -> V] /\ \A n \in 0 .. 0 : n = 0 /\ f[n] = b
    OBVIOUS
  <2> HIDE DEF f
  <2>2. Upto(0, f) /\ 0 \in 0 .. N
    BY <2>1
  <2>3. QED
    BY <2>1, <2>2
<1>2. ASSUME NEW m \in 1 .. N, m - 1 \in T PROVE m \in T
  <2>1. PICK f \in [0 .. m - 1 -> V] : Upto(m - 1, f)
    BY <1>2
  <2> DEFINE h == [n \in 0 .. m |-> IF n = m THEN g[<<m, f[m - 1]>>] ELSE f[n]]
  <2>2. m - 1 \in 0 .. m - 1 /\ f[m - 1] \in V /\ \A n \in 0 .. m : n # m => n \in 0 .. m - 1
    BY <2>1
  <2>3. g[<<m, f[m - 1]>>] \in V
    BY <2>2
  <2>4. h \in [0 .. m -> V]
    BY <2>2, <2>3
  <2>5. ASSUME NEW n \in 0 .. m
        PROVE  h[n] = IF n = 0 THEN b ELSE g[<<n, h[n - 1]>>]
    <3>1. CASE n = m
      <4>1. m # 0 /\ m - 1 \in 0 .. m /\ m - 1 # m
        OBVIOUS
      <4>2. h[n] = g[<<m, f[m - 1]>>] /\ h[n - 1] = f[m - 1]
        BY <3>1, <4>1
      <4>3. QED
        BY <3>1, <4>1, <4>2
    <3>2. CASE n # m
      <4>1. n \in 0 .. m - 1 /\ (n # 0 => n - 1 \in 0 .. m /\ n - 1 # m)
        BY <3>2
      <4>2. h[n] = f[n] /\ (n # 0 => h[n - 1] = f[n - 1])
        BY <3>2, <4>1
      <4>3. f[n] = IF n = 0 THEN b ELSE g[<<n, f[n - 1]>>]
        BY <2>1, <4>1
      <4>4. QED
        BY <4>2, <4>3
    <3>3. QED
      BY <3>1, <3>2
  <2> HIDE DEF h
  <2>6. QED
    BY <2>4, <2>5
<1> HIDE DEF T
<1>3. 0 .. N \subseteq T
  BY <1>1, <1>2, InductionUpTo
<1>4. N \in T
  BY <1>3
<1>5. QED
  BY <1>4 DEF T, HasRecursion

LEMMA PowersDivide ==
  ASSUME NEW a \in PowersOfTwo, NEW b \in PowersOfTwo, a <= b
  PROVE  b = a * (b \div a) /\ b \div a \in Nat
  BY DEF PowersOfTwo

LEMMA PowerIs ==
  ASSUME NEW z \in PowersOfTwo
  PROVE  z \in Nat /\ z > 0
  BY DEF PowersOfTwo

LEMMA Sizes ==
  /\ SeqMod \in PowersOfTwo /\ StartBufferSize \in PowersOfTwo
  /\ MaxBufferSize \in PowersOfTwo
  /\ SeqMod \in Nat /\ StartBufferSize \in Nat /\ MaxBufferSize \in Nat
  /\ SeqMod > 0 /\ StartBufferSize > 0 /\ MaxBufferSize > 0
  /\ StartBufferSize <= MaxBufferSize /\ MaxBufferSize < SeqMod
  /\ MaxPaddingAge \in Nat /\ MaxPaddingAge > 0
<1>1. /\ SeqMod \in PowersOfTwo /\ StartBufferSize \in PowersOfTwo
      /\ MaxBufferSize \in PowersOfTwo
  BY PacketBufferAssumption
<1>2. QED
  BY <1>1, PowerIs, PacketBufferAssumption

LEMMA Division ==
  ASSUME NEW z \in Nat \ {0}, NEW x \in Int
  PROVE  /\ x \div z \in Int /\ x % z \in 0 .. z - 1
         /\ x = z * (x \div z) + (x % z)
  OBVIOUS

LEMMA NoMultiple ==
  ASSUME NEW z \in Nat \ {0}, NEW t \in Int, -z < z * t, z * t < z
  PROVE  t = 0
  OBVIOUS

LEMMA Remainder ==
  ASSUME NEW z \in Nat \ {0}, NEW t \in Int, NEW r \in 0 .. z - 1
  PROVE  (z * t + r) % z = r
<1> DEFINE x == z * t + r
           u == x \div z
           v == x % z
<1>1. x \in Int
  OBVIOUS
<1>2. u \in Int /\ v \in 0 .. z - 1 /\ x = z * u + v
  BY <1>1, Division
<1>3. z * (t - u) = v - r /\ t - u \in Int
  <2>1. z * (t - u) = z * t - z * u
    BY <1>2
  <2>2. QED
    BY <1>2, <2>1
<1>4. t - u = 0
  BY <1>2, <1>3, NoMultiple
<1>5. QED
  BY <1>2, <1>4
\* Numbers with the same remainder are a multiple apart.
LEMMA SameRemainder ==
  ASSUME NEW z \in Nat \ {0}, NEW x \in Int, NEW y \in Int, x % z = y % z
  PROVE  x - y = z * ((x \div z) - (y \div z)) /\ (x \div z) - (y \div z) \in Int
<1> DEFINE t == x \div z
           u == y \div z
<1>1. t \in Int /\ u \in Int /\ x = z * t + (x % z) /\ y = z * u + (y % z)
      /\ x % z \in Int /\ y % z \in Int
  BY Division
<1>2. z * (t - u) = z * t - z * u /\ z * t \in Int /\ z * u \in Int
  BY <1>1
<1>3. QED
  BY <1>1, <1>2

LEMMA RemainderOfSum ==
  ASSUME NEW z \in Nat \ {0}, NEW y \in Int, NEW t \in Int
  PROVE  (y + z * t) % z = y % z
<1> DEFINE u == y \div z
           r == y % z
<1>1. u \in Int /\ r \in 0 .. z - 1 /\ y = z * u + r
  BY Division
<1> HIDE DEF u, r
<1>2. z * (u + t) = z * u + z * t /\ z * u \in Int /\ z * t \in Int /\ u + t \in Int
  BY <1>1
<1>3. y + z * t = z * (u + t) + r
  BY <1>1, <1>2
<1>4. (z * (u + t) + r) % z = r
  BY <1>1, <1>2, Remainder
<1>5. y % z = r
  BY DEF r
<1>6. QED
  BY <1>3, <1>4, <1>5

LEMMA SmallRemainder ==
  ASSUME NEW z \in Nat \ {0}, NEW x \in Int
  PROVE  /\ x \in 0 .. z - 1 => x % z = x
         /\ x \in -z .. -1 => x % z = x + z
         /\ x \in z .. 2 * z - 1 => x % z = x - z
<1>1. ASSUME NEW y \in 0 .. z - 1 PROVE y % z = y
  <2>1. (z * 0 + y) % z = y
    BY Remainder
  <2>2. QED
    BY <2>1
<1>2. x \in -z .. -1 => x % z = x + z
  <2> SUFFICES ASSUME x \in -z .. -1 PROVE x % z = x + z
    OBVIOUS
  <2>1. (x + z * 1) % z = x % z
    <3>1. 1 \in Int
      OBVIOUS
    <3>2. QED
      BY <3>1, RemainderOfSum, Zenon
  <2>2. x + z \in 0 .. z - 1 /\ x + z * 1 = x + z
    OBVIOUS
  <2>3. (x + z) % z = x + z
    BY <1>1, <2>2
  <2>4. QED
    BY <2>1, <2>2, <2>3
<1>3. x \in z .. 2 * z - 1 => x % z = x - z
  <2> SUFFICES ASSUME x \in z .. 2 * z - 1 PROVE x % z = x - z
    OBVIOUS
  <2>1. (x + z * (-1)) % z = x % z
    <3>1. -1 \in Int
      OBVIOUS
    <3>2. QED
      BY <3>1, RemainderOfSum, Zenon
  <2>2. x - z \in 0 .. z - 1 /\ x + z * (-1) = x - z
    OBVIOUS
  <2>3. (x - z) % z = x - z
    BY <1>1, <2>2
  <2>4. QED
    BY <2>1, <2>2, <2>3
<1>4. QED
  BY <1>1, <1>2, <1>3

\* The numbers around the circle.
LEMMA DiffIs ==
  ASSUME NEW a \in SeqNum, NEW b \in SeqNum
  PROVE  ForwardDiff(a, b) = IF a <= b THEN b - a ELSE b - a + SeqMod
<1>1. SeqMod \in Nat \ {0} /\ b - a \in Int /\ (a <= b => b - a \in 0 .. SeqMod - 1)
      /\ (~(a <= b) => b - a \in -SeqMod .. -1)
  BY Sizes DEF SeqNum
<1>2. QED
  BY <1>1, SmallRemainder DEF ForwardDiff

LEMMA BackIs ==
  ASSUME NEW n \in SeqNum, NEW k \in 0 .. SeqMod
  PROVE  Back(n, k) = IF k <= n THEN n - k ELSE n - k + SeqMod
<1>1. SeqMod \in Nat \ {0} /\ n - k \in Int /\ (k <= n => n - k \in 0 .. SeqMod - 1)
      /\ (~(k <= n) => n - k \in -SeqMod .. -1)
  BY Sizes DEF SeqNum
<1>2. QED
  BY <1>1, SmallRemainder DEF Back

LEMMA SuccIs ==
  ASSUME NEW n \in SeqNum
  PROVE  Succ(n) = IF n = SeqMod - 1 THEN 0 ELSE n + 1
<1>1. SeqMod \in Nat \ {0} /\ n + 1 \in Int /\ (n # SeqMod - 1 => n + 1 \in 0 .. SeqMod - 1)
      /\ (n = SeqMod - 1 => n + 1 \in SeqMod .. 2 * SeqMod - 1)
  BY Sizes DEF SeqNum
<1>2. QED
  BY <1>1, SmallRemainder DEF Succ

LEMMA AheadIs ==
  ASSUME NEW a \in SeqNum, NEW b \in SeqNum
  PROVE  /\ ForwardDiff(b, a) \in SeqNum
         /\ (\A k \in 0 .. SeqMod - 1 : Back(a, k) \in SeqNum) /\ Succ(a) \in SeqNum
         /\ AheadOf(a, b) <=>
               /\ a # b
               /\ \/ 2 * ForwardDiff(b, a) < SeqMod
                  \/ 2 * ForwardDiff(b, a) = SeqMod /\ a > b
<1>1. SeqMod \in Nat \ {0}
  BY Sizes
<1>2. QED
  BY <1>1, DiffIs, BackIs, SuccIs DEF AheadOf, SeqNum

\* Slots of numbers less than a buffer apart are different.
LEMMA SlotsDiffer ==
  ASSUME NEW z \in PowersOfTwo, z < SeqMod, NEW n \in SeqNum,
         NEW j \in 0 .. z - 1, NEW k \in 0 .. z - 1,
         Back(n, j) % z = Back(n, k) % z
  PROVE  j = k
<1> DEFINE c == SeqMod \div z
<1>1. SeqMod \in PowersOfTwo /\ z \in Nat \ {0} /\ SeqMod \in Nat \ {0} /\ z <= SeqMod
  BY Sizes, PowerIs
<1>2. SeqMod = z * c /\ c \in Nat
  BY <1>1, PowersDivide
<1> HIDE DEF c
<1> DEFINE x == Back(n, j)
           y == Back(n, k)
<1>3. /\ x \in {n - j, n - j + z * c} /\ y \in {n - k, n - k + z * c}
      /\ x \in Int /\ y \in Int /\ n \in Int /\ z * c \in Int
  <2>1. j \in 0 .. SeqMod /\ k \in 0 .. SeqMod /\ n \in Int
    BY <1>1 DEF SeqNum
  <2>2. /\ x = IF j <= n THEN n - j ELSE n - j + SeqMod
        /\ y = IF k <= n THEN n - k ELSE n - k + SeqMod
    BY <2>1, BackIs
  <2> HIDE DEF x, y
  <2>3. QED
    BY <1>1, <1>2, <2>1, <2>2
<1> DEFINE t == (x \div z) - (y \div z)
<1>4. x - y = z * t /\ t \in Int
  <2> HIDE DEF x, y
  <2>1. QED
    BY <1>1, <1>3, SameRemainder DEF x, y
<1> HIDE DEF x, y, t
<1>5. \E u \in Int : z * u = k - j
  <2>1. z * (t - c) = z * t - z * c /\ z * (t + c) = z * t + z * c
        /\ z * t \in Int /\ t - c \in Int /\ t + c \in Int
    BY <1>1, <1>2, <1>4
  <2>2. x - y = k - j \/ x - y = k - j + z * c \/ x - y = k - j - z * c
    BY <1>3
  <2>3. CASE x - y = k - j
    BY <1>4, <2>3
  <2>4. CASE x - y = k - j + z * c
    BY <1>3, <1>4, <2>1, <2>4
  <2>5. CASE x - y = k - j - z * c
    BY <1>3, <1>4, <2>1, <2>5
  <2>6. QED
    BY <2>2, <2>3, <2>4, <2>5
<1>6. PICK u \in Int : z * u = k - j
  BY <1>5
<1>7. -z < z * u /\ z * u < z
  BY <1>1, <1>6
<1>8. u = 0
  BY <1>1, <1>7, NoMultiple
<1>9. QED
  BY <1>1, <1>6, <1>8

\* In a larger buffer fewer numbers share a slot.
LEMMA SlotsSplit ==
  ASSUME NEW a \in PowersOfTwo, NEW b \in PowersOfTwo, a <= b,
         NEW x \in SeqNum, NEW y \in SeqNum, x % b = y % b
  PROVE  x % a = y % a
<1> DEFINE c == b \div a
           t == (x \div b) - (y \div b)
<1>1. a \in Nat \ {0} /\ b \in Nat \ {0} /\ x \in Int /\ y \in Int
  BY PowerIs DEF SeqNum
<1>2. b = a * c /\ c \in Nat
  BY PowersDivide
<1>3. x - y = b * t /\ t \in Int
  BY <1>1, SameRemainder
<1> HIDE DEF c, t
<1>4. b * t = a * (c * t) /\ c * t \in Int
  BY <1>1, <1>2, <1>3
<1>5. x = y + a * (c * t)
  BY <1>1, <1>3, <1>4
<1>6. QED
  BY <1>1, <1>4, <1>5, RemainderOfSum

LEMMA PowersApart ==
  ASSUME NEW a \in PowersOfTwo, NEW b \in PowersOfTwo, a < b
  PROVE  2 * a <= b
  BY DEF PowersOfTwo

-------------------------------------------------------------------------------
(* The numbers of a stream, in the order they were given *)

NumbersOf(s) == {p.seq : p \in s.packets} \cup s.padding

\* The first number, or one before it.
BaseOf(s) == CHOOSE base \in SeqNum : \A n \in NumbersOf(s) :
                2 * (ForwardDiff(base, n) + MaxPaddingAge + 1) < SeqMod
Pos(s, n) == ForwardDiff(BaseOf(s), n)
InWindow(s, n) == n \in SeqNum /\ 2 * (Pos(s, n) + MaxPaddingAge) < SeqMod

LEMMA BaseIs ==
  ASSUME NEW s, RegularStream(s)
  PROVE  /\ BaseOf(s) \in SeqNum
         /\ \A n \in NumbersOf(s) :
               n \in SeqNum /\ 2 * (Pos(s, n) + MaxPaddingAge + 1) < SeqMod
<1>1. \E base \in SeqNum : \A n \in NumbersOf(s) :
          2 * (ForwardDiff(base, n) + MaxPaddingAge + 1) < SeqMod
  BY DEF RegularStream, NumbersOf
<1>2. NumbersOf(s) \subseteq SeqNum
  BY DEF RegularStream, NumbersOf
<1>3. QED
  BY <1>1, <1>2 DEF BaseOf, Pos

LEMMA PosIs ==
  ASSUME NEW s, RegularStream(s), NEW n \in SeqNum
  PROVE  /\ Pos(s, n) \in 0 .. SeqMod - 1
         /\ Pos(s, n) = IF BaseOf(s) <= n THEN n - BaseOf(s) ELSE n - BaseOf(s) + SeqMod
<1>1. BaseOf(s) \in SeqNum
  BY BaseIs
<1>2. SeqMod \in Nat
  BY Sizes
<1>3. QED
  BY <1>1, <1>2, DiffIs DEF Pos, SeqNum

\* Within the window, positions say which number is ahead.
LEMMA WindowIs ==
  ASSUME NEW s, RegularStream(s), NEW a, NEW b, InWindow(s, a), InWindow(s, b)
  PROVE  /\ Pos(s, a) \in Nat /\ Pos(s, b) \in Nat
         /\ AheadOf(a, b) <=> Pos(s, a) > Pos(s, b)
         /\ Pos(s, a) = Pos(s, b) => a = b
         /\ Pos(s, b) <= Pos(s, a) => ForwardDiff(b, a) = Pos(s, a) - Pos(s, b)
<1> DEFINE base == BaseOf(s)
           x == Pos(s, a)
           y == Pos(s, b)
<1>1. /\ SeqMod \in Nat /\ MaxPaddingAge \in Nat /\ base \in 0 .. SeqMod - 1
      /\ a \in 0 .. SeqMod - 1 /\ b \in 0 .. SeqMod - 1
  BY Sizes, BaseIs DEF InWindow, SeqNum
<1>2. /\ x = IF base <= a THEN a - base ELSE a - base + SeqMod
      /\ y = IF base <= b THEN b - base ELSE b - base + SeqMod
  BY PosIs DEF InWindow
<1>3. 2 * (x + MaxPaddingAge) < SeqMod /\ 2 * (y + MaxPaddingAge) < SeqMod
  BY DEF InWindow
<1>4. ForwardDiff(b, a) = IF b <= a THEN a - b ELSE a - b + SeqMod
  BY DiffIs DEF InWindow
<1>5. AheadOf(a, b) <=> /\ a # b
                        /\ \/ 2 * ForwardDiff(b, a) < SeqMod
                           \/ 2 * ForwardDiff(b, a) = SeqMod /\ a > b
  BY DEF AheadOf
<1> HIDE DEF base, x, y
<1>6. /\ x \in Nat /\ y \in Nat /\ (x = y => a = b)
      /\ (y <= x => ForwardDiff(b, a) = x - y)
  BY <1>1, <1>2, <1>3, <1>4
<1>7. x < y => ForwardDiff(b, a) = x - y + SeqMod
  BY <1>1, <1>2, <1>3, <1>4
<1>8. x > y => a # b
  BY <1>1, <1>2
<1>9. AheadOf(a, b) <=> x > y
  BY <1>1, <1>3, <1>5, <1>6, <1>7, <1>8
<1>10. QED
  BY <1>6, <1>9 DEF x, y

LEMMA NumberIs ==
  ASSUME NEW s, RegularStream(s), NEW n \in NumbersOf(s)
  PROVE  /\ InWindow(s, n) /\ n \in SeqNum /\ Pos(s, n) \in Nat
         /\ InWindow(s, Succ(n)) /\ Pos(s, Succ(n)) = Pos(s, n) + 1
         /\ Succ(n) \in SeqNum
<1> DEFINE base == BaseOf(s)
           x == Pos(s, n)
<1>1. /\ SeqMod \in Nat /\ MaxPaddingAge \in Nat /\ base \in 0 .. SeqMod - 1
      /\ n \in 0 .. SeqMod - 1 /\ 2 * (x + MaxPaddingAge + 1) < SeqMod /\ n \in SeqNum
  BY Sizes, BaseIs DEF SeqNum
<1>2. x = IF base <= n THEN n - base ELSE n - base + SeqMod
  BY <1>1, PosIs
<1>3. Succ(n) = IF n = SeqMod - 1 THEN 0 ELSE n + 1
  BY <1>1, SuccIs
<1>4. Succ(n) \in SeqNum
  BY <1>1, <1>3 DEF SeqNum
<1>5. Pos(s, Succ(n)) = IF base <= Succ(n) THEN Succ(n) - base ELSE Succ(n) - base + SeqMod
  BY <1>4, PosIs
<1> HIDE DEF base, x
<1>6. Pos(s, Succ(n)) = x + 1 /\ x \in Nat
  BY <1>1, <1>2, <1>3, <1>5
<1>7. QED
  BY <1>1, <1>4, <1>6 DEF InWindow, x

LEMMA BackPos ==
  ASSUME NEW s, RegularStream(s), NEW n, InWindow(s, n), NEW k \in Nat, k <= Pos(s, n)
  PROVE  /\ InWindow(s, Back(n, k)) /\ Pos(s, Back(n, k)) = Pos(s, n) - k
         /\ k < SeqMod
<1> DEFINE base == BaseOf(s)
           x == Pos(s, n)
           m == Back(n, k)
<1>1. /\ SeqMod \in Nat /\ MaxPaddingAge \in Nat /\ base \in 0 .. SeqMod - 1
      /\ n \in 0 .. SeqMod - 1 /\ 2 * (x + MaxPaddingAge) < SeqMod /\ n \in SeqNum
  BY Sizes, BaseIs DEF InWindow, SeqNum
<1>2. x = IF base <= n THEN n - base ELSE n - base + SeqMod
  BY <1>1, PosIs
<1>3. k \in 0 .. SeqMod /\ k < SeqMod /\ k <= x
  BY <1>1, <1>2
<1>4. m = IF k <= n THEN n - k ELSE n - k + SeqMod
  BY <1>1, <1>3, BackIs
<1>5. m \in SeqNum
  BY <1>1, <1>3, <1>4 DEF SeqNum
<1>6. Pos(s, m) = IF base <= m THEN m - base ELSE m - base + SeqMod
  BY <1>5, PosIs
<1> HIDE DEF base, x, m
<1>7. Pos(s, m) = x - k
  BY <1>1, <1>2, <1>3, <1>4, <1>5, <1>6 DEF SeqNum
<1>8. x \in Nat
  BY <1>1, <1>2 DEF SeqNum
<1>9. 2 * (Pos(s, m) + MaxPaddingAge) < SeqMod
  BY <1>1, <1>3, <1>7, <1>8
<1>10. QED
  BY <1>3, <1>5, <1>7, <1>9 DEF InWindow, x, m

\* What is too old to be tracked is behind the window of what is tracked, or in it.
LEMMA AgeIs ==
  ASSUME NEW s, RegularStream(s), NEW n, InWindow(s, n), NEW m, InWindow(s, m)
  PROVE  LET old == Back(n, MaxPaddingAge)
         IN  /\ old \in SeqNum
             /\ AheadOf(old, m) <=> Pos(s, n) - MaxPaddingAge > Pos(s, m)
             /\ AheadOf(m, old) <=> Pos(s, m) > Pos(s, n) - MaxPaddingAge
<1> DEFINE old == Back(n, MaxPaddingAge)
           base == BaseOf(s)
           x == Pos(s, n)
           y == Pos(s, m)
           A == MaxPaddingAge
<1>1. /\ SeqMod \in Nat /\ A \in Nat /\ A > 0 /\ base \in 0 .. SeqMod - 1
      /\ n \in 0 .. SeqMod - 1 /\ 2 * (x + A) < SeqMod /\ n \in SeqNum
      /\ m \in 0 .. SeqMod - 1 /\ 2 * (y + A) < SeqMod /\ m \in SeqNum
  BY Sizes, BaseIs DEF InWindow, SeqNum
<1>2. /\ x = IF base <= n THEN n - base ELSE n - base + SeqMod
      /\ y = IF base <= m THEN m - base ELSE m - base + SeqMod
  BY <1>1, PosIs
<1>3. x \in Nat /\ y \in Nat /\ A \in 0 .. SeqMod
  BY <1>1, <1>2
<1>4. old = IF A <= n THEN n - A ELSE n - A + SeqMod
  BY <1>1, <1>3, BackIs
<1> HIDE DEF A, base, x, y, old
<1>5. old \in 0 .. SeqMod - 1
  BY <1>1, <1>3, <1>4
<1>6. old \in SeqNum
  BY <1>5 DEF SeqNum
<1>7. /\ ForwardDiff(m, old) = IF m <= old THEN old - m ELSE old - m + SeqMod
      /\ ForwardDiff(old, m) = IF old <= m THEN m - old ELSE m - old + SeqMod
  BY <1>1, <1>6, DiffIs
<1>8. /\ x - A > y => ForwardDiff(m, old) = x - A - y /\ m # old
      /\ x - A = y => m = old
      /\ x - A < y => ForwardDiff(m, old) = x - A - y + SeqMod /\ m # old
  BY <1>1, <1>2, <1>3, <1>4, <1>5, <1>7
<1>9. /\ x - A < y => ForwardDiff(old, m) = y - x + A
      /\ x - A > y => ForwardDiff(old, m) = y - x + A + SeqMod
  BY <1>1, <1>2, <1>3, <1>4, <1>5, <1>7
<1>10. AheadOf(old, m) <=> /\ old # m
                           /\ \/ 2 * ForwardDiff(m, old) < SeqMod
                              \/ 2 * ForwardDiff(m, old) = SeqMod /\ old > m
  BY DEF AheadOf
<1>11. AheadOf(m, old) <=> /\ m # old
                           /\ \/ 2 * ForwardDiff(old, m) < SeqMod
                              \/ 2 * ForwardDiff(old, m) = SeqMod /\ m > old
  BY DEF AheadOf
<1>12. AheadOf(old, m) <=> x - A > y
  BY <1>1, <1>3, <1>8, <1>10
<1>13. AheadOf(m, old) <=> y > x - A
  BY <1>1, <1>3, <1>8, <1>9, <1>11
<1>14. QED
  BY <1>6, <1>12, <1>13 DEF x, y, A, old

LEMMA LeastIs ==
  ASSUME NEW S \in SUBSET Nat, NEW m \in S
  PROVE  LeastOf(S) \in S /\ LeastOf(S) <= m /\ \A n \in S : LeastOf(S) <= n
  BY LeastExists

\* The frames of a stream, by the positions of their packets.
FrameAt(s, frame, e, l) ==
    /\ e \in Nat /\ l \in 1 .. StartBufferSize /\ l <= e + 1
    /\ \A i \in e - l + 1 .. e : \E p \in frame : Pos(s, p.seq) = i
    /\ \A p, q \in frame : p.h264 = q.h264
    /\ \A p \in frame :
          /\ Pos(s, p.seq) \in e - l + 1 .. e
          /\ p.last <=> Pos(s, p.seq) = e
          /\ StartIsMarked(frame) =>
                /\ p.first <=> Pos(s, p.seq) = e - l + 1
                /\ p.h264 => (p.generic <=> p.first)

LEMMA PacketIs ==
  ASSUME NEW s, RegularStream(s), NEW p \in s.packets
  PROVE  /\ p.seq \in NumbersOf(s) /\ InWindow(s, p.seq) /\ p.seq \in SeqNum
         /\ Pos(s, p.seq) \in Nat
         /\ p.first \in BOOLEAN /\ p.last \in BOOLEAN
         /\ p.h264 \in BOOLEAN /\ p.generic \in BOOLEAN
         /\ \A q \in s.packets : Pos(s, p.seq) = Pos(s, q.seq) => p = q
         /\ p.seq \notin s.padding
<1>1. \A q \in s.packets : q.seq \in NumbersOf(s)
  BY DEF NumbersOf
<1>2. \A q \in s.packets : InWindow(s, q.seq) /\ q.seq \in SeqNum /\ Pos(s, q.seq) \in Nat
  BY <1>1, NumberIs
<1>3. \A q \in s.packets : Pos(s, p.seq) = Pos(s, q.seq) => p.seq = q.seq
  BY <1>2, WindowIs
<1>4. QED
  BY <1>1, <1>2, <1>3 DEF RegularStream

LEMMA FrameIs ==
  ASSUME NEW s, RegularStream(s), NEW p \in s.packets
  PROVE  \E e \in Nat, l \in 1 .. StartBufferSize : FrameAt(s, FrameOf(s, p.ts), e, l)
<1> DEFINE frame == FrameOf(s, p.ts)
<1>1. PICK end \in SeqNum, l \in 1 .. StartBufferSize :
        /\ {q.seq : q \in frame} = {Back(end, k) : k \in 0 .. l - 1}
        /\ \A q, r \in frame : q.h264 = r.h264
        /\ \A q \in frame :
              /\ q.last <=> q.seq = end
              /\ StartIsMarked(frame) =>
                    /\ q.first <=> q.seq = Back(end, l - 1)
                    /\ q.h264 => (q.generic <=> q.first)
  BY DEF RegularStream, RegularFrame
<1> DEFINE e == Pos(s, end)
<1>2. frame \subseteq s.packets
  BY DEF FrameOf
<1>3. /\ SeqMod \in Nat /\ StartBufferSize \in Nat /\ 2 * StartBufferSize <= SeqMod
      /\ MaxPaddingAge \in Nat
  BY Sizes, PowersApart
<1>4. Back(end, 0) = end
  BY <1>3, BackIs DEF SeqNum
<1>5. \A k \in 0 .. l - 1 : \E q \in frame : q.seq = Back(end, k)
  BY <1>1
<1>6. PICK last \in frame : last.seq = end
  <2>1. 0 \in 0 .. l - 1
    BY <1>3
  <2>2. QED
    BY <1>4, <1>5, <2>1
<1>7. InWindow(s, end) /\ e \in Nat
  BY <1>2, <1>6, PacketIs
<1>8. \A k \in 0 .. l - 1 : k <= e /\ Pos(s, Back(end, k)) = e - k
  <2> SUFFICES ASSUME NEW k \in 0 .. l - 1 PROVE k <= e /\ Pos(s, Back(end, k)) = e - k
    OBVIOUS
  <2>1. PICK q \in frame : q.seq = Back(end, k)
    BY <1>5
  <2> DEFINE base == BaseOf(s)
             m == q.seq
  <2>2. m \in SeqNum /\ InWindow(s, m)
    BY <1>2, PacketIs
  <2>3. /\ Pos(s, m) = IF base <= m THEN m - base ELSE m - base + SeqMod
        /\ e = IF base <= end THEN end - base ELSE end - base + SeqMod
    BY <2>2, PosIs
  <2>4. m = IF k <= end THEN end - k ELSE end - k + SeqMod
    BY <1>3, <2>1, BackIs
  <2>5. 2 * (Pos(s, m) + MaxPaddingAge) < SeqMod
    BY <2>2 DEF InWindow
  <2>6. base \in 0 .. SeqMod - 1 /\ m \in 0 .. SeqMod - 1 /\ end \in 0 .. SeqMod - 1
    BY <2>2, BaseIs DEF SeqNum
  <2>7. k \in Nat /\ 2 * k < SeqMod
    BY <1>3
  <2> HIDE DEF m, base, e
  <2>8. k <= e
    BY <1>3, <1>7, <2>3, <2>4, <2>5, <2>6, <2>7
  <2>9. QED
    BY <1>7, <2>1, <2>7, <2>8, BackPos DEF e
<1>9. l <= e + 1
  <2>1. l - 1 \in 0 .. l - 1
    BY <1>3
  <2>2. QED
    BY <1>3, <1>7, <1>8, <2>1
<1>10. ASSUME NEW q \in frame
       PROVE  /\ Pos(s, q.seq) \in e - l + 1 .. e
              /\ q.seq = end <=> Pos(s, q.seq) = e
              /\ q.seq = Back(end, l - 1) <=> Pos(s, q.seq) = e - l + 1
  <2>1. PICK k \in 0 .. l - 1 : q.seq = Back(end, k)
    BY <1>1
  <2>2. Pos(s, q.seq) = e - k
    BY <1>8, <2>1
  <2>3. l - 1 \in 0 .. l - 1 /\ 0 \in 0 .. l - 1
    BY <1>3
  <2>4. PICK start \in frame : start.seq = Back(end, l - 1)
    BY <1>5, <2>3
  <2>5. Pos(s, start.seq) = e - (l - 1)
    BY <1>8, <2>3, <2>4
  <2>6. /\ q.seq = start.seq <=> Pos(s, q.seq) = Pos(s, start.seq)
        /\ q.seq = last.seq <=> Pos(s, q.seq) = Pos(s, last.seq)
    BY <1>2, PacketIs
  <2> HIDE DEF e
  <2>7. e - k \in e - l + 1 .. e /\ e - (l - 1) = e - l + 1
    BY <1>3, <1>7
  <2>8. QED
    BY <1>6, <2>2, <2>4, <2>5, <2>6, <2>7 DEF e
<1>11. ASSUME NEW i \in e - l + 1 .. e PROVE \E q \in frame : Pos(s, q.seq) = i
  <2>1. e - i \in 0 .. l - 1 /\ e - (e - i) = i
    BY <1>3, <1>7
  <2>2. QED
    BY <1>5, <1>8, <2>1
<1>12. FrameAt(s, frame, e, l)
  BY <1>1, <1>7, <1>9, <1>10, <1>11 DEF FrameAt
<1>13. QED
  BY <1>7, <1>12

-------------------------------------------------------------------------------
(* The slots of the buffer *)

Follows(b, q, p) == q.seq = Back(p.seq, 1) /\ q.ts = p.ts /\ q.seq \in b.continuous

\* One packet to a slot; what is continuous continues a frame from a first packet on.
SlotsOK(b, s) ==
    /\ b.size \in PowersOfTwo /\ StartBufferSize <= b.size /\ b.size <= MaxBufferSize
    /\ b.stored \subseteq s.packets
    /\ \A p, q \in b.stored : p.seq % b.size = q.seq % b.size => p = q
    /\ b.continuous \subseteq {p.seq : p \in b.stored}
    /\ \A p \in b.stored : p.seq \in b.continuous /\ ~p.first
                           => \E q \in b.stored : Follows(b, q, p)

LEMMA SizeIs ==
  ASSUME NEW s, NEW b, SlotsOK(b, s)
  PROVE  /\ b.size \in PowersOfTwo /\ b.size \in Nat /\ b.size > 0 /\ b.size < SeqMod
         /\ SeqMod \in Nat /\ StartBufferSize \in Nat /\ StartBufferSize <= b.size
<1>1. b.size \in PowersOfTwo /\ b.size <= MaxBufferSize /\ StartBufferSize <= b.size
  BY DEF SlotsOK
<1>2. b.size \in Nat /\ b.size > 0
  BY <1>1, PowerIs
<1>3. QED
  BY <1>1, <1>2, Sizes

LEMMA PrevPos ==
  ASSUME NEW s, RegularStream(s), NEW p \in s.packets, NEW q \in s.packets
  PROVE  q.seq = Back(p.seq, 1) <=> Pos(s, q.seq) = Pos(s, p.seq) - 1
<1> DEFINE base == BaseOf(s)
           n == p.seq
           m == q.seq
           x == Pos(s, n)
           y == Pos(s, m)
<1>1. /\ SeqMod \in Nat /\ MaxPaddingAge \in Nat /\ MaxPaddingAge > 0
      /\ base \in 0 .. SeqMod - 1 /\ n \in 0 .. SeqMod - 1 /\ m \in 0 .. SeqMod - 1
      /\ n \in SeqNum /\ m \in SeqNum
  BY PacketIs, BaseIs, Sizes DEF SeqNum
<1>2. 2 * (x + MaxPaddingAge) < SeqMod /\ 2 * (y + MaxPaddingAge) < SeqMod
  BY PacketIs DEF InWindow
<1>3. /\ x = IF base <= n THEN n - base ELSE n - base + SeqMod
      /\ y = IF base <= m THEN m - base ELSE m - base + SeqMod
  BY <1>1, PosIs
<1>4. 1 \in 0 .. SeqMod
  BY <1>1, <1>2, <1>3
<1>5. Back(n, 1) = IF 1 <= n THEN n - 1 ELSE n - 1 + SeqMod
  BY <1>1, <1>4, BackIs
<1> HIDE DEF base, n, m, x, y
<1>6. m = Back(n, 1) <=> y = x - 1
  BY <1>1, <1>2, <1>3, <1>5
<1>7. QED
  BY <1>6 DEF n, m, x, y

LEMMA SlotIs ==
  ASSUME NEW s, NEW b, SlotsOK(b, s), NEW p \in b.stored
  PROVE  Slot(b, p.seq) = {p}
  BY DEF SlotsOK, Slot

\* The number k behind p's, when a packet of the stream has it.
LEMMA BehindIs ==
  ASSUME NEW s, RegularStream(s), NEW p \in s.packets, NEW q \in s.packets, NEW k \in Nat,
         Pos(s, q.seq) = Pos(s, p.seq) - k
  PROVE  q.seq = Back(p.seq, k)
<1>1. Pos(s, p.seq) \in Nat /\ Pos(s, q.seq) \in Nat /\ InWindow(s, p.seq) /\ InWindow(s, q.seq)
  BY PacketIs
<1>2. k <= Pos(s, p.seq)
  BY <1>1
<1>3. InWindow(s, Back(p.seq, k)) /\ Pos(s, Back(p.seq, k)) = Pos(s, q.seq)
  BY <1>1, <1>2, BackPos
<1>4. QED
  BY <1>1, <1>3, WindowIs

LEMMA SlotAt ==
  ASSUME NEW s, RegularStream(s), NEW b, SlotsOK(b, s), NEW p \in s.packets,
         NEW q \in b.stored, NEW k \in Nat, Pos(s, q.seq) = Pos(s, p.seq) - k
  PROVE  Slot(b, Back(p.seq, k)) = {q}
<1>1. q \in s.packets
  BY DEF SlotsOK
<1>2. q.seq = Back(p.seq, k)
  BY <1>1, BehindIs
<1>3. QED
  BY <1>2, SlotIs

\* Behind the last packet of a frame, as many slots as there are, one of the frame is
\* where its number says.
LEMMA SlotInFrame ==
  ASSUME NEW s, RegularStream(s), NEW b, SlotsOK(b, s), NEW p \in b.stored, p.last,
         NEW k \in 0 .. b.size - 1, NEW q \in Slot(b, Back(p.seq, k)), q.ts = p.ts
  PROVE  Pos(s, q.seq) = Pos(s, p.seq) - k
<1>1. p \in s.packets /\ q \in s.packets /\ q.seq % b.size = Back(p.seq, k) % b.size
  BY DEF SlotsOK, Slot
<1>2. PICK e \in Nat, l \in 1 .. StartBufferSize : FrameAt(s, FrameOf(s, p.ts), e, l)
  BY <1>1, FrameIs
<1>3. p \in FrameOf(s, p.ts) /\ q \in FrameOf(s, p.ts)
  BY <1>1 DEF FrameOf
<1>4. Pos(s, p.seq) = e /\ Pos(s, q.seq) \in e - l + 1 .. e
  BY <1>2, <1>3 DEF FrameAt
<1> DEFINE j == Pos(s, p.seq) - Pos(s, q.seq)
<1>5. j \in Nat /\ j \in 0 .. b.size - 1 /\ Pos(s, q.seq) = Pos(s, p.seq) - j
  BY <1>4, SizeIs
<1> HIDE DEF j
<1>6. q.seq = Back(p.seq, j)
  BY <1>1, <1>5, BehindIs
<1>7. p.seq \in SeqNum /\ Back(p.seq, j) % b.size = Back(p.seq, k) % b.size
  BY <1>1, <1>6, PacketIs
<1>8. b.size \in PowersOfTwo /\ b.size < SeqMod
  BY SizeIs
<1>9. j = k
  BY <1>5, <1>7, <1>8, SlotsDiffer
<1>10. QED
  BY <1>5, <1>9

\* The d packets before p, of its frame, are in the buffer.
Run(b, s, p, d) == \A k \in 0 .. d : \E q \in b.stored : /\ q.ts = p.ts
                                                        /\ Pos(s, q.seq) = Pos(s, p.seq) - k

LEMMA InSlotsIs ==
  ASSUME NEW s, RegularStream(s), NEW b, SlotsOK(b, s), NEW p \in b.stored, p.last,
         NEW d \in 0 .. b.size - 1, Run(b, s, p, d)
  PROVE  LET from == Back(p.seq, d)
         IN  /\ InWindow(s, from) /\ Pos(s, from) = Pos(s, p.seq) - d
             /\ ForwardDiff(from, p.seq) = d
             /\ InSlots(b, from, p.seq)
                  = {q \in b.stored : q.ts = p.ts /\ Pos(s, q.seq) >= Pos(s, from)}
<1> DEFINE from == Back(p.seq, d)
           behind == {q \in b.stored : q.ts = p.ts /\ Pos(s, q.seq) >= Pos(s, from)}
<1>1. p \in s.packets /\ b.stored \subseteq s.packets
  BY DEF SlotsOK
<1>2. InWindow(s, p.seq) /\ Pos(s, p.seq) \in Nat
  BY <1>1, PacketIs
<1>3. d \in Nat /\ d <= Pos(s, p.seq)
  <2>1. d \in 0 .. d /\ d \in Nat
    BY SizeIs
  <2>2. PICK q \in b.stored : Pos(s, q.seq) = Pos(s, p.seq) - d
    BY <2>1 DEF Run
  <2>3. Pos(s, q.seq) \in Nat
    BY <1>1, PacketIs
  <2>4. QED
    BY <1>2, <2>1, <2>2, <2>3
<1>4. InWindow(s, from) /\ Pos(s, from) = Pos(s, p.seq) - d
  BY <1>2, <1>3, BackPos
<1>5. ForwardDiff(from, p.seq) = d
  <2>1. Pos(s, from) <= Pos(s, p.seq) /\ Pos(s, p.seq) - Pos(s, from) = d
    BY <1>2, <1>3, <1>4
  <2>2. QED
    BY <1>2, <1>4, <2>1, WindowIs
<1>6. ASSUME NEW q \in InSlots(b, from, p.seq) PROVE q \in behind
  <2>1. PICK k \in 0 .. d : q \in Slot(b, Back(p.seq, k))
    BY <1>5 DEF InSlots
  <2>2. PICK r \in b.stored : r.ts = p.ts /\ Pos(s, r.seq) = Pos(s, p.seq) - k
    BY <2>1 DEF Run
  <2>3. Slot(b, Back(p.seq, k)) = {r}
    BY <1>1, <2>2, SlotAt
  <2>4. Pos(s, r.seq) >= Pos(s, from)
    BY <1>2, <1>3, <1>4, <2>2
  <2>5. QED
    BY <2>1, <2>2, <2>3, <2>4
<1>7. ASSUME NEW q \in behind PROVE q \in InSlots(b, from, p.seq)
  <2>1. PICK e \in Nat, l \in 1 .. StartBufferSize : FrameAt(s, FrameOf(s, p.ts), e, l)
    BY <1>1, FrameIs
  <2>2. Pos(s, p.seq) = e /\ Pos(s, q.seq) \in Nat /\ Pos(s, q.seq) <= e
    <3>1. p \in FrameOf(s, p.ts) /\ q \in FrameOf(s, p.ts)
      BY <1>1 DEF FrameOf
    <3>2. Pos(s, q.seq) \in e - l + 1 .. e /\ Pos(s, q.seq) \in Nat
      BY <1>1, <2>1, <3>1, PacketIs DEF FrameAt
    <3>3. QED
      BY <2>1, <3>1, <3>2 DEF FrameAt
  <2> DEFINE k == Pos(s, p.seq) - Pos(s, q.seq)
  <2>3. k \in 0 .. d /\ k \in Nat /\ Pos(s, q.seq) = Pos(s, p.seq) - k
    BY <1>3, <1>4, <2>2
  <2> HIDE DEF k
  <2>4. q \in Slot(b, Back(p.seq, k))
    BY <1>1, <2>3, SlotAt
  <2>5. QED
    BY <1>5, <2>3, <2>4 DEF InSlots
<1>8. InSlots(b, from, p.seq) = behind
  BY <1>6, <1>7 DEF InSlots
<1>9. QED
  BY <1>4, <1>5, <1>8

\* Between the last packet of a frame and where the timestamps of the slots change, its
\* packets are in the buffer, and nowhere else.
LEMMA SameTimestampIs ==
  ASSUME NEW s, RegularStream(s), NEW b, SlotsOK(b, s), NEW p \in b.stored, p.last
  PROVE  LET t == SameTimestamp(b, p.seq)
         IN  /\ t \in 0 .. b.size - 1 /\ Run(b, s, p, t)
             /\ \A d \in 0 .. b.size - 1 : Run(b, s, p, d) => d <= t
<1> DEFINE At(k) == {q.ts : q \in Slot(b, Back(p.seq, k))}
           breaks == {k \in 1 .. b.size - 1 : At(k) # {p.ts}}
           S == breaks \cup {b.size}
           t == SameTimestamp(b, p.seq)
<1>1. p \in s.packets /\ b.stored \subseteq s.packets
  BY DEF SlotsOK
<1>2. b.size \in Nat /\ b.size > 0
  BY SizeIs
<1>3. {q.ts : q \in Slot(b, p.seq)} = {p.ts}
  BY SlotIs
<1>4. t = LeastOf(S) - 1
  BY <1>3 DEF SameTimestamp
<1>5. S \in SUBSET Nat /\ b.size \in S /\ \A k \in S : k \in 1 .. b.size
  BY <1>2
<1>6. LeastOf(S) \in S /\ LeastOf(S) <= b.size /\ \A k \in S : LeastOf(S) <= k
  <2> HIDE DEF S
  <2>1. QED
    BY <1>5, LeastIs
<1>7. LeastOf(S) \in 1 .. b.size
  BY <1>5, <1>6
<1>8. t \in 0 .. b.size - 1
  BY <1>2, <1>4, <1>7
<1>9. ASSUME NEW k \in 0 .. t
      PROVE  \E q \in b.stored : q.ts = p.ts /\ Pos(s, q.seq) = Pos(s, p.seq) - k
  <2>1. CASE k = 0
    <3>1. Pos(s, p.seq) = Pos(s, p.seq) - 0
      BY <1>1, PacketIs
    <3>2. QED
      BY <2>1, <3>1
  <2>2. CASE k # 0
    <3>1. k \in 1 .. b.size - 1 /\ k \in 0 .. b.size - 1 /\ k < LeastOf(S)
      BY <1>2, <1>4, <1>7, <1>8, <2>2
    <3>2. k \notin S
      <4> HIDE DEF S
      <4>1. k \in Int /\ LeastOf(S) \in Int /\ ~ (LeastOf(S) <= k)
        BY <1>7, <3>1
      <4>2. QED
        BY <1>6, <4>1
    <3>3. At(k) = {p.ts}
      BY <3>1, <3>2
    <3>4. PICK q \in Slot(b, Back(p.seq, k)) : q.ts = p.ts
      BY <3>3
    <3>5. q \in b.stored
      BY DEF Slot
    <3>6. QED
      BY <3>1, <3>4, <3>5, SlotInFrame
  <2>3. QED
    BY <2>1, <2>2
<1>10. ASSUME NEW d \in 0 .. b.size - 1, Run(b, s, p, d) PROVE d <= t
  <2> SUFFICES ASSUME t < d PROVE FALSE
    BY <1>2, <1>8
  <2> DEFINE k == LeastOf(S)
  <2>1. k \in 0 .. d /\ k \in Nat /\ k # b.size
    BY <1>2, <1>4, <1>7, <1>8
  <2>2. PICK q \in b.stored : q.ts = p.ts /\ Pos(s, q.seq) = Pos(s, p.seq) - k
    BY <1>10, <2>1 DEF Run
  <2>3. Slot(b, Back(p.seq, k)) = {q}
    <3> HIDE DEF k
    <3>1. QED
      BY <1>1, <2>1, <2>2, SlotAt
  <2>4. At(k) = {p.ts}
    BY <2>2, <2>3
  <2>5. k \in breaks
    BY <1>6, <2>1
  <2>6. QED
    BY <2>4, <2>5
<1>11. QED
  BY <1>8, <1>9, <1>10 DEF Run

-------------------------------------------------------------------------------
(* The frame that ends with a packet *)

\* What is continuous in a frame whose start is marked is there from its start on.
LEMMA RunToStart ==
  ASSUME NEW s, RegularStream(s), NEW b, SlotsOK(b, s), NEW p \in b.stored,
         p.seq \in b.continuous, StartIsMarked(FrameOf(s, p.ts)),
         NEW e \in Nat, NEW l \in 1 .. StartBufferSize, FrameAt(s, FrameOf(s, p.ts), e, l)
  PROVE  Run(b, s, p, Pos(s, p.seq) - (e - l + 1))
<1> DEFINE N == Pos(s, p.seq) - (e - l + 1)
           Has(k) == \E q \in b.stored : /\ q.ts = p.ts /\ q.seq \in b.continuous
                                         /\ Pos(s, q.seq) = Pos(s, p.seq) - k
           T == {k \in 0 .. N : Has(k)}
<1>1. b.stored \subseteq s.packets
  BY DEF SlotsOK
<1>2. \A q \in b.stored : q.ts = p.ts => q \in FrameOf(s, p.ts)
  BY <1>1 DEF FrameOf
<1>3. Pos(s, p.seq) \in Nat /\ Pos(s, p.seq) \in e - l + 1 .. e /\ StartBufferSize \in Nat
  BY <1>1, <1>2, PacketIs, SizeIs DEF FrameAt
<1>4. N \in Nat /\ \A k \in 0 .. N : k \in Nat
  BY <1>3
<1>5. 0 \in T
  <2>1. Pos(s, p.seq) = Pos(s, p.seq) - 0 /\ 0 \in 0 .. N
    BY <1>3
  <2>2. QED
    BY <2>1
<1>6. ASSUME NEW k \in 1 .. N, k - 1 \in T PROVE k \in T
  <2>1. PICK q \in b.stored : /\ q.ts = p.ts /\ q.seq \in b.continuous
                              /\ Pos(s, q.seq) = Pos(s, p.seq) - (k - 1)
    BY <1>6
  <2>2. Pos(s, q.seq) # e - l + 1
    BY <1>3, <2>1
  <2>3. ~q.first
    BY <1>2, <2>1, <2>2 DEF FrameAt
  <2>4. PICK r \in b.stored : Follows(b, r, q)
    BY <2>1, <2>3 DEF SlotsOK
  <2>5. r.ts = p.ts /\ r.seq \in b.continuous /\ Pos(s, r.seq) = Pos(s, q.seq) - 1
    BY <1>1, <2>1, <2>4, PrevPos DEF Follows
  <2>6. Pos(s, r.seq) = Pos(s, p.seq) - k /\ k \in 0 .. N
    BY <1>3, <2>1, <2>5
  <2>7. QED
    BY <2>5, <2>6
<1> HIDE DEF N
<1>7. 0 .. N \subseteq T
  <2> HIDE DEF T
  <2>1. QED
    BY <1>4, <1>5, <1>6, InductionUpTo
<1>8. Run(b, s, p, N)
  BY <1>7 DEF Run
<1>9. QED
  BY <1>8 DEF N

Frames(s) == [from : SeqNum, to : SeqNum, packets : SUBSET s.packets,
              h264 : BOOLEAN, key : BOOLEAN, found : BOOLEAN]

\* What FrameEndingAt finds: the frame's packets from one of its numbers on, and all of
\* them if its start is marked.
EndsAt(b, s, p, f) ==
    /\ f \in Frames(s) /\ f.to = p.seq /\ f.found
    /\ InWindow(s, f.from) /\ Pos(s, f.from) <= Pos(s, p.seq)
    /\ ForwardDiff(f.from, p.seq) = Pos(s, p.seq) - Pos(s, f.from)
    /\ f.packets = {q \in b.stored : q.ts = p.ts /\ Pos(s, q.seq) >= Pos(s, f.from)}
    /\ Run(b, s, p, Pos(s, p.seq) - Pos(s, f.from))
    /\ IF StartIsMarked(FrameOf(s, p.ts))
       THEN f.packets = FrameOf(s, p.ts) /\ ~f.h264 /\ ~f.key
       ELSE f.h264

LEMMA EndIs ==
  ASSUME NEW s, RegularStream(s), NEW b, SlotsOK(b, s), NEW p \in b.stored, p.last,
         NEW d \in 0 .. b.size - 1, Run(b, s, p, d), NEW f, f \in Frames(s),
         f.from = Back(p.seq, d), f.to = p.seq, f.found,
         f.packets = InSlots(b, f.from, p.seq),
         IF StartIsMarked(FrameOf(s, p.ts))
         THEN f.packets = FrameOf(s, p.ts) /\ ~f.h264 /\ ~f.key
         ELSE f.h264
  PROVE  EndsAt(b, s, p, f)
<1>1. /\ InWindow(s, f.from) /\ Pos(s, f.from) = Pos(s, p.seq) - d
      /\ ForwardDiff(f.from, p.seq) = d
      /\ f.packets = {q \in b.stored : q.ts = p.ts /\ Pos(s, q.seq) >= Pos(s, f.from)}
  BY InSlotsIs
<1>2. Pos(s, p.seq) \in Nat /\ d \in Nat
  BY PacketIs, SizeIs DEF SlotsOK
<1>3. Pos(s, f.from) <= Pos(s, p.seq) /\ Pos(s, p.seq) - Pos(s, f.from) = d
  BY <1>1, <1>2
<1>4. QED
  BY <1>1, <1>3 DEF EndsAt

LEMMA FrameEndingAtType ==
  ASSUME NEW s, RegularStream(s), NEW b, SlotsOK(b, s), NEW p \in b.stored, p.last,
         NEW spsPps \in BOOLEAN, FrameEndingAt(b, p.seq, spsPps).from \in SeqNum
  PROVE  FrameEndingAt(b, p.seq, spsPps) \in Frames(s)
<1>1. p.seq \in SeqNum /\ b.stored \subseteq s.packets
  BY PacketIs DEF SlotsOK
<1>2. \A from : InSlots(b, from, p.seq) \subseteq s.packets
  BY <1>1 DEF InSlots, Slot
<1> DEFINE g == GenericFrom(b, p.seq)
           stops == Stops(b, p.seq, g)
           from == IF g = None THEN Back(p.seq, SameTimestamp(b, p.seq))
                   ELSE IF stops = {} THEN Back(p.seq, b.size - 1)
                   ELSE Back(p.seq, LeastOf(stops))
           packets == InSlots(b, from, p.seq)
           f == [from |-> from, to |-> p.seq, packets |-> packets, h264 |-> g = None,
                 key |-> g = None /\ IsH264Keyframe(UNION {q.nalus : q \in packets}, spsPps),
                 found |-> g = None \/ (stops # {} /\ Slot(b, from) # {})]
<1>3. FrameEndingAt(b, p.seq, spsPps) = f
  BY DEF FrameEndingAt
<1>4. from \in SeqNum
  <2> HIDE DEF from
  <2>1. f.from = from
    OBVIOUS
  <2>2. QED
    BY <1>3, <2>1
<1>5. /\ packets \in SUBSET s.packets /\ (g = None) \in BOOLEAN
      /\ (g = None /\ IsH264Keyframe(UNION {q.nalus : q \in packets}, spsPps)) \in BOOLEAN
      /\ (g = None \/ (stops # {} /\ Slot(b, from) # {})) \in BOOLEAN
  <2>1. packets \in SUBSET s.packets
    BY <1>2
  <2> HIDE DEF packets, from, g, stops
  <2>2. QED
    BY <2>1 DEF IsH264Keyframe
<1> HIDE DEF packets, from, g, stops
<1>6. f \in Frames(s)
  BY <1>1, <1>4, <1>5 DEF Frames
<1>7. QED
  BY <1>3, <1>6

\* H.264 without a descriptor: the frame is what lies behind its last packet.
LEMMA UnmarkedEnds ==
  ASSUME NEW s, RegularStream(s), NEW b, SlotsOK(b, s), NEW p \in b.stored, p.last,
         NEW spsPps \in BOOLEAN, ~StartIsMarked(FrameOf(s, p.ts))
  PROVE  EndsAt(b, s, p, FrameEndingAt(b, p.seq, spsPps))
<1> DEFINE n == p.seq
           t == SameTimestamp(b, n)
           g == GenericFrom(b, n)
           f == FrameEndingAt(b, n, spsPps)
           frame == FrameOf(s, p.ts)
<1>1. p \in s.packets /\ b.stored \subseteq s.packets
  BY DEF SlotsOK
<1>2. t \in 0 .. b.size - 1 /\ Run(b, s, p, t)
  BY SameTimestampIs
<1>3. \A q \in frame : q.h264 /\ ~q.generic
  <2>1. PICK q \in frame : q.h264 /\ \A r \in frame : ~r.generic
    BY DEF StartIsMarked
  <2>2. \A r \in frame : q.h264 = r.h264
    <3>1. PICK e \in Nat, l \in 1 .. StartBufferSize : FrameAt(s, frame, e, l)
      BY <1>1, FrameIs
    <3>2. QED
      BY <3>1 DEF FrameAt
  <2>3. QED
    BY <2>1, <2>2
<1>4. Slot(b, n) = {p} /\ p \in frame
  BY <1>1, SlotIs DEF FrameOf
<1>5. ASSUME NEW k \in 0 .. t PROVE \A q \in Slot(b, Back(n, k)) : ~q.generic /\ q.h264
  <2>1. PICK q \in b.stored : q.ts = p.ts /\ Pos(s, q.seq) = Pos(s, p.seq) - k
    BY <1>2 DEF Run
  <2>2. k \in Nat
    BY <1>2
  <2>3. Slot(b, Back(n, k)) = {q}
    BY <1>1, <2>1, <2>2, SlotAt
  <2>4. q \in frame
    BY <1>1, <2>1 DEF FrameOf
  <2>5. QED
    BY <1>3, <2>3, <2>4
<1>6. g = None
  <2> DEFINE offsets == IF \E q \in Slot(b, n) : q.h264 THEN 0 .. t ELSE {0}
             generic == {k \in offsets : \E q \in Slot(b, Back(n, k)) : q.generic \/ ~q.h264}
  <2>1. g = IF generic = {} THEN None ELSE LeastOf(generic)
    BY DEF GenericFrom
  <2>2. offsets = 0 .. t
    BY <1>3, <1>4
  <2>3. generic = {}
    <3> HIDE DEF offsets
    <3>1. QED
      BY <1>5, <2>2
  <2>4. QED
    BY <2>1, <2>3
<1>7. f.from = Back(n, t) /\ f.to = n /\ f.found /\ f.h264 /\ f.packets = InSlots(b, f.from, n)
  <2> HIDE DEF g, n, t
  <2>1. QED
    BY <1>6 DEF FrameEndingAt, g, t
<1>8. f.from \in SeqNum
  BY <1>2, <1>7, InSlotsIs DEF InWindow
<1>9. f \in Frames(s)
  BY <1>8, FrameEndingAtType
<1> HIDE DEF f, t, g
<1>10. QED
  BY <1>2, <1>7, <1>9, EndIs DEF f

\* A frame whose start is marked is handed out as it was sent.
LEMMA MarkedEnds ==
  ASSUME NEW s, RegularStream(s), NEW b, SlotsOK(b, s), NEW p \in b.stored, p.last,
         p.seq \in b.continuous,
         NEW spsPps \in BOOLEAN, StartIsMarked(FrameOf(s, p.ts))
  PROVE  EndsAt(b, s, p, FrameEndingAt(b, p.seq, spsPps))
<1> DEFINE n == p.seq
           t == SameTimestamp(b, n)
           g == GenericFrom(b, n)
           stops == Stops(b, n, g)
           f == FrameEndingAt(b, n, spsPps)
           frame == FrameOf(s, p.ts)
<1>1. p \in s.packets /\ b.stored \subseteq s.packets /\ p \in frame
  BY DEF SlotsOK, FrameOf
<1>2. PICK e \in Nat, l \in 1 .. StartBufferSize : FrameAt(s, frame, e, l)
  BY <1>1, FrameIs
<1> DEFINE d == l - 1
<1>3. /\ b.size \in Nat /\ d \in 0 .. b.size - 1 /\ d \in Nat
      /\ Pos(s, p.seq) = e /\ e - (e - l + 1) = d /\ e - d = e - l + 1
  BY <1>1, <1>2, SizeIs DEF FrameAt
<1>4. Run(b, s, p, d)
  BY <1>2, <1>3, RunToStart
<1>5. t \in 0 .. b.size - 1 /\ Run(b, s, p, t) /\ d <= t
  BY <1>3, <1>4, SameTimestampIs
<1>6. Slot(b, n) = {p}
  BY SlotIs
\* The packet k behind.
<1>7. ASSUME NEW k \in Nat, NEW u \in Nat, Run(b, s, p, u), k <= u
      PROVE  \E q \in frame : /\ Slot(b, Back(n, k)) = {q} /\ q \in b.stored
                              /\ q.first <=> k = d
                              /\ q.h264 = p.h264
                              /\ q.h264 => (q.generic <=> k = d)
  <2>1. k \in 0 .. u
    BY <1>7
  <2>2. PICK q \in b.stored : q.ts = p.ts /\ Pos(s, q.seq) = Pos(s, p.seq) - k
    BY <1>7, <2>1 DEF Run
  <2>3. Slot(b, Back(n, k)) = {q}
    BY <1>1, <2>2, SlotAt
  <2>4. q \in frame
    BY <1>1, <2>2 DEF FrameOf
  <2>5. Pos(s, q.seq) = e - l + 1 <=> k = d
    BY <1>3, <2>2
  <2>6. QED
    BY <1>1, <1>2, <2>2, <2>3, <2>4, <2>5 DEF FrameAt
<1>8. g \in 0 .. d /\ g # None
  <2> DEFINE offsets == IF \E q \in Slot(b, n) : q.h264 THEN 0 .. t ELSE {0}
             generic == {k \in offsets : \E q \in Slot(b, Back(n, k)) : q.generic \/ ~q.h264}
  <2>1. g = IF generic = {} THEN None ELSE LeastOf(generic)
    BY DEF GenericFrom
  <2>2. \A k \in 0 .. t : k \in Nat /\ k <= t /\ t \in Nat
    BY <1>5
  <2>3. CASE p.h264
    <3>1. offsets = 0 .. t
      BY <1>6, <2>3
    <3>2. d \in 0 .. t
      BY <1>3, <1>5
    <3>3. \A k \in 0 .. t : (\E q \in Slot(b, Back(n, k)) : q.generic \/ ~q.h264) <=> k = d
      <4> SUFFICES ASSUME NEW k \in 0 .. t
                   PROVE  (\E q \in Slot(b, Back(n, k)) : q.generic \/ ~q.h264) <=> k = d
        OBVIOUS
      <4>1. PICK q \in frame : /\ Slot(b, Back(n, k)) = {q}
                               /\ q.h264 = p.h264 /\ (q.h264 => (q.generic <=> k = d))
        BY <1>5, <1>7, <2>2
      <4>2. QED
        BY <2>3, <4>1
    <3>4. generic = {d}
      <4> HIDE DEF offsets
      <4>1. QED
        BY <3>1, <3>2, <3>3
    <3>5. LeastOf({d}) = d
      BY <1>3, LeastIs
    <3>6. QED
      <4> HIDE DEF generic, d, g
      <4>1. g = d
        BY <2>1, <3>4, <3>5
      <4>2. QED
        BY <1>3, <4>1 DEF None
  <2>4. CASE ~p.h264
    <3>1. offsets = {0}
      BY <1>6, <2>4
    <3>2. PICK q \in frame : Slot(b, Back(n, 0)) = {q} /\ q.h264 = p.h264
      BY <1>3, <1>4, <1>7
    <3>3. generic = {0}
      <4> HIDE DEF offsets
      <4>1. QED
        BY <2>4, <3>1, <3>2
    <3>4. LeastOf({0}) = 0
      BY LeastIs
    <3>5. QED
      <4> HIDE DEF generic, d, g
      <4>1. g = 0
        BY <2>1, <3>3, <3>4
      <4>2. QED
        BY <1>3, <4>1 DEF None
  <2>5. QED
    BY <2>3, <2>4
<1>9. d \in stops /\ stops \in SUBSET Nat /\ LeastOf(stops) = d
  <2>1. PICK q \in frame : Slot(b, Back(n, d)) = {q} /\ (q.first <=> d = d)
    BY <1>3, <1>4, <1>7
  <2>2. d \in stops
    BY <1>3, <1>8, <2>1 DEF Stops
  <2>3. stops \in SUBSET Nat
    BY <1>3, <1>8 DEF Stops
  <2>4. ASSUME NEW i \in stops, i < d PROVE FALSE
    <3>1. i \in Nat /\ \A r \in Slot(b, Back(n, i)) : r.first
      BY <1>3, <1>8 DEF Stops
    <3>2. PICK r \in frame : Slot(b, Back(n, i)) = {r} /\ (r.first <=> i = d)
      BY <1>3, <1>4, <1>7, <2>4, <3>1
    <3>3. QED
      BY <1>3, <2>4, <3>1, <3>2
  <2>5. LeastOf(stops) \in stops /\ LeastOf(stops) <= d
    <3> HIDE DEF stops
    <3>1. QED
      BY <2>2, <2>3, LeastIs
  <2>6. ~ (LeastOf(stops) < d)
    BY <2>4, <2>5
  <2>7. LeastOf(stops) \in Nat
    BY <2>3, <2>5
  <2>8. QED
    BY <1>3, <2>2, <2>3, <2>5, <2>6, <2>7
<1>10. PICK q \in frame : Slot(b, Back(n, d)) = {q}
  BY <1>3, <1>4, <1>7
<1>11. /\ f.from = Back(n, d) /\ f.to = n /\ f.found /\ ~f.h264 /\ ~f.key
       /\ f.packets = InSlots(b, f.from, n)
  <2>1. stops # {} /\ LeastOf(stops) = d /\ Slot(b, Back(n, d)) # {} /\ g # None
    BY <1>8, <1>9, <1>10
  <2> HIDE DEF d, n
  <2>2. QED
    BY <2>1 DEF FrameEndingAt
<1>12. /\ InWindow(s, f.from) /\ Pos(s, f.from) = e - d
       /\ f.packets = {r \in b.stored : r.ts = p.ts /\ Pos(s, r.seq) >= e - d}
  BY <1>3, <1>4, <1>11, InSlotsIs
<1>13. f.packets = frame
  <2>1. f.packets \subseteq frame
    BY <1>1, <1>12 DEF FrameOf
  <2>2. ASSUME NEW r \in frame PROVE r \in f.packets
    <3>1. Pos(s, r.seq) \in e - d .. e
      BY <1>2, <1>3 DEF FrameAt
    <3>2. e - Pos(s, r.seq) \in 0 .. d /\ Pos(s, r.seq) \in Int
          /\ e - (e - Pos(s, r.seq)) = Pos(s, r.seq)
      BY <1>3, <3>1
    <3>3. PICK q1 \in b.stored : q1.ts = p.ts /\ Pos(s, q1.seq) = Pos(s, r.seq)
      BY <1>3, <1>4, <3>2 DEF Run
    <3>4. r \in s.packets /\ r.ts = p.ts
      BY DEF FrameOf
    <3>5. q1 = r
      BY <1>1, <3>3, <3>4, PacketIs
    <3>6. Pos(s, r.seq) >= e - d
      BY <1>3, <3>1
    <3>7. QED
      BY <1>12, <3>3, <3>5, <3>6
  <2>3. QED
    BY <2>1, <2>2
<1>14. f \in Frames(s)
  BY <1>12, FrameEndingAtType DEF InWindow
<1> HIDE DEF f, d
<1>15. QED
  BY <1>3, <1>4, <1>11, <1>13, <1>14, EndIs DEF f

-------------------------------------------------------------------------------
(* One round of FindFrames *)

Buffers(s) ==
    [size : PowersOfTwo, stored : SUBSET s.packets, continuous : SUBSET SeqNum,
     first : SeqNum, received : BOOLEAN, clearedTo : BOOLEAN,
     newest : SeqNum \cup {None}, missing : SUBSET SeqNum, padding : SUBSET SeqNum]
Walks(s) == [b : Buffers(s), seq : SeqNum, out : SUBSET Frames(s), ended : BOOLEAN]

Mark(b, n) == [b EXCEPT !.continuous = @ \cup {n}]

LEMMA MarkIs ==
  ASSUME NEW s, NEW b \in Buffers(s), NEW n \in SeqNum
  PROVE  /\ Mark(b, n) \in Buffers(s)
         /\ Mark(b, n).size = b.size /\ Mark(b, n).stored = b.stored
         /\ Mark(b, n).continuous = b.continuous \cup {n}
         /\ Mark(b, n).first = b.first /\ Mark(b, n).received = b.received
         /\ Mark(b, n).clearedTo = b.clearedTo
         /\ Mark(b, n).newest = b.newest /\ Mark(b, n).missing = b.missing
         /\ Mark(b, n).padding = b.padding
  BY DEF Mark, Buffers

LEMMA MarkOK ==
  ASSUME NEW s, RegularStream(s), NEW b \in Buffers(s), SlotsOK(b, s), NEW n \in SeqNum,
         PotentialNewFrame(b, n)
  PROVE  SlotsOK(Mark(b, n), s)
<1> DEFINE c == Mark(b, n)
<1>1. PICK p \in b.stored :
        /\ p.seq = n
        /\ \/ p.first
           \/ \E q \in b.stored : q.seq = Back(n, 1) /\ q.ts = p.ts /\ q.seq \in b.continuous
  BY DEF PotentialNewFrame
<1>2. c.size = b.size /\ c.stored = b.stored /\ c.continuous = b.continuous \cup {n}
  BY MarkIs
<1> HIDE DEF c
<1>3. ASSUME NEW q \in c.stored, q.seq \in c.continuous, ~q.first
      PROVE  \E r \in c.stored : Follows(c, r, q)
  <2>1. CASE q.seq \in b.continuous
    BY <1>2, <1>3, <2>1 DEF SlotsOK, Follows
  <2>2. CASE q.seq = n
    <3>1. q = p
      BY <1>1, <1>2, <2>2 DEF SlotsOK
    <3>2. QED
      BY <1>1, <1>2, <1>3, <3>1 DEF Follows
  <2>3. QED
    BY <1>2, <1>3, <2>1, <2>2
<1>4. c.continuous \subseteq {q.seq : q \in c.stored}
  BY <1>1, <1>2 DEF SlotsOK
<1>5. QED
  BY <1>2, <1>3, <1>4 DEF SlotsOK, c

LEMMA HandOutIs ==
  ASSUME NEW s, NEW b \in Buffers(s), NEW f \in Frames(s), NEW start
  PROVE  LET c == HandOut(b, f, start)
         IN  /\ c \in Buffers(s)
             /\ c.size = b.size /\ c.stored = b.stored \ f.packets
             /\ c.continuous = b.continuous \ {p.seq : p \in f.packets}
             /\ c.first = b.first /\ c.received = b.received /\ c.clearedTo = b.clearedTo
             /\ c.newest = b.newest /\ c.missing = {m \in b.missing : AheadOf(m, f.to)}
             /\ c.padding \subseteq b.padding
  BY DEF HandOut, Buffers

LEMMA HandOutOK ==
  ASSUME NEW s, RegularStream(s), NEW b \in Buffers(s), SlotsOK(b, s), NEW p \in b.stored,
         NEW f, EndsAt(b, s, p, f), NEW start
  PROVE  SlotsOK(HandOut(b, f, start), s)
<1> DEFINE c == HandOut(b, f, start)
           gone == {q.seq : q \in f.packets}
<1>1. c.size = b.size /\ c.stored = b.stored \ f.packets /\ c.continuous = b.continuous \ gone
  BY HandOutIs DEF EndsAt
<1>2. f.packets = {q \in b.stored : q.ts = p.ts /\ Pos(s, q.seq) >= Pos(s, f.from)}
  BY DEF EndsAt
<1>3. b.stored \subseteq s.packets
  BY DEF SlotsOK
<1>4. ASSUME NEW q \in c.stored PROVE q.seq \notin gone
  BY <1>1, <1>2, <1>3 DEF RegularStream
<1> HIDE DEF c
<1>5. ASSUME NEW q \in c.stored, q.seq \in c.continuous, ~q.first
      PROVE  \E r \in c.stored : Follows(c, r, q)
  <2>1. PICK r \in b.stored : Follows(b, r, q)
    BY <1>1, <1>5 DEF SlotsOK
  <2>2. r.ts = q.ts /\ Pos(s, r.seq) = Pos(s, q.seq) - 1
    BY <1>1, <1>3, <2>1, PrevPos DEF Follows
  <2>3. Pos(s, r.seq) \in Nat /\ Pos(s, q.seq) \in Nat /\ Pos(s, f.from) \in Nat
    BY <1>1, <1>3, PacketIs, WindowIs DEF EndsAt
  <2>4. r \notin f.packets
    BY <1>1, <1>2, <2>2, <2>3
  <2>5. QED
    BY <1>1, <1>4, <2>1, <2>4 DEF Follows
<1>6. c.continuous \subseteq {q.seq : q \in c.stored}
  BY <1>1 DEF SlotsOK
<1>7. QED
  BY <1>1, <1>5, <1>6 DEF SlotsOK, c

\* What a round may do: nothing more, go on, or mark a packet; and what it does when the
\* packet is the last of its frame.
Ended(w, v) == v = w /\ w.ended
Skipped(w, v) == ~w.ended /\ w.seq \in w.b.padding /\ v = [w EXCEPT !.seq = Succ(@)]
Stopped(w, v) ==
    ~w.ended /\ ~PotentialNewFrame(w.b, w.seq) /\ v = [w EXCEPT !.ended = TRUE]
Marks(w, p) ==
    ~w.ended /\ w.seq \notin w.b.padding /\ PotentialNewFrame(w.b, w.seq) /\ p.seq = w.seq
Continued(w, v, p) ==
    Marks(w, p) /\ ~p.last /\ v = [w EXCEPT !.b = Mark(w.b, w.seq), !.seq = Succ(@)]
Waited(w, v, p, f) ==
    Marks(w, p) /\ p.last /\ f.h264 /\ v = [w EXCEPT !.b = Mark(w.b, w.seq), !.ended = TRUE]
HandedOut(w, v, p, f, start) ==
    /\ Marks(w, p) /\ p.last /\ ~Blocked(Mark(w.b, w.seq), f)
    /\ v = [w EXCEPT !.b = HandOut(Mark(w.b, w.seq), f, start), !.seq = Succ(@),
                     !.out = @ \cup {f}]

LEMMA StepCases ==
  ASSUME NEW s, RegularStream(s), NEW w \in Walks(s), SlotsOK(w.b, s), NEW start,
         NEW spsPps \in BOOLEAN
  PROVE  LET v == FindStep(w, start, spsPps)
         IN  \/ Ended(w, v) \/ Skipped(w, v) \/ Stopped(w, v)
             \/ \E p \in w.b.stored :
                  \/ Continued(w, v, p)
                  \/ \E f \in Frames(s) : /\ EndsAt(Mark(w.b, w.seq), s, p, f)
                                          /\ Waited(w, v, p, f) \/ HandedOut(w, v, p, f, start)
<1> DEFINE v == FindStep(w, start, spsPps)
           c == Mark(w.b, w.seq)
           f == FrameEndingAt(c, w.seq, spsPps)
<1>1. w.b \in Buffers(s) /\ w.seq \in SeqNum
  BY DEF Walks
<1>2. CASE w.ended
  BY <1>2 DEF FindStep, Ended
<1>3. CASE ~w.ended /\ w.seq \in w.b.padding
  BY <1>3 DEF FindStep, Skipped
<1>4. CASE ~w.ended /\ w.seq \notin w.b.padding /\ ~PotentialNewFrame(w.b, w.seq)
  BY <1>4 DEF FindStep, Stopped
<1>5. CASE ~w.ended /\ w.seq \notin w.b.padding /\ PotentialNewFrame(w.b, w.seq)
  <2>1. PICK p \in w.b.stored : p.seq = w.seq
    BY <1>5 DEF PotentialNewFrame
  <2>2. Marks(w, p)
    BY <1>5, <2>1 DEF Marks
  <2>3. SlotsOK(c, s) /\ p \in c.stored /\ p.seq \in c.continuous
    BY <1>1, <1>5, <2>1, MarkOK, MarkIs
  <2>4. Slot(c, w.seq) = {p}
    BY <2>1, <2>3, SlotIs
  <2>5. v = IF \E q \in Slot(c, w.seq) : ~q.last
            THEN [w EXCEPT !.b = c, !.seq = Succ(@)]
            ELSE IF Blocked(c, f) THEN [w EXCEPT !.b = c, !.ended = TRUE]
            ELSE IF f.found
            THEN [w EXCEPT !.b = HandOut(c, f, start), !.seq = Succ(@), !.out = @ \cup {f}]
            ELSE [w EXCEPT !.b = c, !.seq = Succ(@)]
    <3> HIDE DEF f
    <3>1. QED
      BY <1>5 DEF FindStep, Mark, f
  <2>6. CASE ~p.last
    BY <2>2, <2>4, <2>5, <2>6 DEF Continued
  <2>7. CASE p.last
    <3>1. EndsAt(c, s, p, f)
      BY <2>1, <2>3, <2>7, UnmarkedEnds, MarkedEnds
    <3>2. f \in Frames(s) /\ f.found
      BY <3>1 DEF EndsAt
    <3> HIDE DEF f
    <3>3. CASE Blocked(c, f)
      <4>1. v = [w EXCEPT !.b = c, !.ended = TRUE] /\ f.h264
        BY <2>4, <2>5, <2>7, <3>3 DEF Blocked
      <4>2. QED
        BY <2>2, <2>7, <3>1, <3>2, <4>1 DEF Waited
    <3>4. CASE ~Blocked(c, f)
      <4>1. v = [w EXCEPT !.b = HandOut(c, f, start), !.seq = Succ(@), !.out = @ \cup {f}]
        BY <2>4, <2>5, <2>7, <3>2, <3>4
      <4>2. QED
        BY <2>2, <2>7, <3>1, <3>2, <3>4, <4>1 DEF HandedOut
    <3>5. QED
      BY <3>3, <3>4
  <2>8. QED
    BY <2>6, <2>7
<1>6. QED
  BY <1>2, <1>3, <1>4, <1>5

-------------------------------------------------------------------------------
(* The loop of FindFrames *)

Begin(b, start) == [b |-> b, seq |-> start, out |-> {}, ended |-> FALSE]

\* The rounds of the loop in a set W of walks that no round leaves.
IsWalk(walk, b, start, spsPps, W) ==
    /\ walk \in [0 .. b.size -> W]
    /\ walk[0] = Begin(b, start)
    /\ \A i \in 1 .. b.size : walk[i] = FindStep(walk[i - 1], start, spsPps)
    /\ FindFrames(b, start, spsPps) = walk[b.size]

LEMMA WalkExists ==
  ASSUME NEW b, b.size \in Nat, NEW start, NEW spsPps, NEW W, Begin(b, start) \in W,
         \A w \in W : FindStep(w, start, spsPps) \in W
  PROVE  \E walk : IsWalk(walk, b, start, spsPps, W)
<1> DEFINE N == b.size
           none == Begin(b, start)
           Step(w) == FindStep(w, start, spsPps)
           Body(f) == [i \in 0 .. N |->
                          IF i = 0
                          THEN [b |-> b, seq |-> start, out |-> {}, ended |-> FALSE]
                          ELSE FindStep(f[i - 1], start, spsPps)]
           walk == CHOOSE f : f = Body(f)
           g == [x \in (1 .. N) \X W |-> Step(x[2])]
           T == {i \in 0 .. N : walk[i] \in W}
<1>1. FindFrames(b, start, spsPps) = walk[N]
  BY DEF FindFrames
<1>2. N \in Nat /\ none \in W /\ \A w \in W : Step(w) \in W
  OBVIOUS
<1>3. Begin(b, start) = [b |-> b, seq |-> start, out |-> {}, ended |-> FALSE]
  BY DEF Begin
<1> HIDE DEF Step
<1>4. /\ g \in [(1 .. N) \X W -> W]
      /\ \A i \in 1 .. N, w \in W : g[<<i, w>>] = Step(w)
  BY <1>2
<1> HIDE DEF g
<1>5. PICK f \in [0 .. N -> W] :
        \A i \in 0 .. N : f[i] = IF i = 0 THEN none ELSE g[<<i, f[i - 1]>>]
  <2> HIDE DEF N, none
  <2>1. HasRecursion(N, W, none, g)
    BY <1>2, <1>4, RecursionExists
  <2>2. QED
    BY <2>1 DEF HasRecursion
<1>6. f = Body(f)
  <2>1. ASSUME NEW i \in 0 .. N
        PROVE  f[i] = IF i = 0 THEN none ELSE Step(f[i - 1])
    <3>1. i # 0 => i \in 1 .. N /\ i - 1 \in 0 .. N
      BY <1>2
    <3>2. i # 0 => f[i - 1] \in W
      BY <3>1
    <3>3. QED
      BY <1>4, <1>5, <3>1, <3>2
  <2>2. QED
    BY <1>3, <2>1 DEF Step
<1>7. walk = Body(walk)
  <2> HIDE DEF Body
  <2>1. QED
    BY <1>6
<1> HIDE DEF walk
<1>8. \A i \in 0 .. N : walk[i] = IF i = 0 THEN none ELSE Step(walk[i - 1])
  BY <1>3, <1>7 DEF Step
<1>9. 0 .. N \subseteq T
  <2>1. 0 \in T
    BY <1>2, <1>8
  <2>2. ASSUME NEW i \in 1 .. N, i - 1 \in T PROVE i \in T
    BY <1>2, <1>8, <2>2
  <2> HIDE DEF T, N
  <2>3. QED
    BY <1>2, <2>1, <2>2, InductionUpTo
<1>10. walk \in [0 .. N -> W]
  <2>1. walk = [i \in 0 .. N |-> walk[i]]
    BY <1>7
  <2>2. \A i \in 0 .. N : walk[i] \in W
    BY <1>9
  <2> HIDE DEF N
  <2>3. QED
    BY <2>1, <2>2
<1>11. \A i \in 1 .. N : walk[i] = Step(walk[i - 1]) /\ walk[0] = none
  BY <1>2, <1>8
<1>12. walk[0] = none
  BY <1>2, <1>8
<1>13. IsWalk(walk, b, start, spsPps, W)
  BY <1>1, <1>10, <1>11, <1>12 DEF IsWalk, Step
<1>14. QED
  BY <1>13

LEMMA FindFramesIn ==
  ASSUME NEW b, b.size \in Nat, NEW start, NEW spsPps, NEW W, Begin(b, start) \in W,
         \A w \in W : FindStep(w, start, spsPps) \in W
  PROVE  FindFrames(b, start, spsPps) \in W
<1>1. PICK walk : IsWalk(walk, b, start, spsPps, W)
  BY WalkExists
<1>2. b.size \in 0 .. b.size
  OBVIOUS
<1>3. QED
  BY <1>1, <1>2 DEF IsWalk

-------------------------------------------------------------------------------
(* Frames that are whole *)

Ends(s) == {p.seq : p \in {q \in s.packets : q.last}}

Whole(s, f) ==
    /\ f \in Frames(s) /\ f.to \in Ends(s)
    /\ {p.seq : p \in f.packets} = {Back(f.to, k) : k \in 0 .. ForwardDiff(f.from, f.to)}
    /\ \A p, q \in f.packets : p.ts = q.ts
    /\ \A p \in f.packets : StartIsMarked(FrameOf(s, p.ts)) => f.packets = FrameOf(s, p.ts)
    /\ \A p \in f.packets : f.h264 <=> ~StartIsMarked(FrameOf(s, p.ts))
    /\ \E p \in f.packets : p.seq = f.to
    /\ InWindow(s, f.from) /\ Pos(s, f.from) <= Pos(s, f.to)

LEMMA EndWhole ==
  ASSUME NEW s, RegularStream(s), NEW b, SlotsOK(b, s), NEW p \in b.stored, p.last,
         NEW f, EndsAt(b, s, p, f)
  PROVE  Whole(s, f)
<1> DEFINE x == Pos(s, p.seq)
           y == Pos(s, f.from)
           d == x - y
<1>1. b.stored \subseteq s.packets /\ p \in s.packets
  BY DEF SlotsOK
<1>2. /\ f \in Frames(s) /\ f.to = p.seq /\ y <= x /\ ForwardDiff(f.from, p.seq) = d
      /\ f.packets = {q \in b.stored : q.ts = p.ts /\ Pos(s, q.seq) >= y}
      /\ Run(b, s, p, d)
      /\ StartIsMarked(FrameOf(s, p.ts)) => f.packets = FrameOf(s, p.ts)
      /\ f.h264 <=> ~StartIsMarked(FrameOf(s, p.ts))
      /\ InWindow(s, f.from)
  BY DEF EndsAt
<1>3. x \in Nat /\ y \in Nat /\ d \in Nat
  <2>1. y \in Nat
    BY WindowIs DEF EndsAt
  <2>2. x \in Nat
    BY <1>1, PacketIs
  <2> HIDE DEF x, y
  <2>3. QED
    BY <1>2, <2>1, <2>2
<1>4. p \in f.packets
  BY <1>2, <1>3
<1>5. ASSUME NEW q \in f.packets
      PROVE  \E k \in 0 .. d : q.seq = Back(p.seq, k)
  <2>1. q \in b.stored /\ q.ts = p.ts /\ Pos(s, q.seq) >= y /\ q \in s.packets
    BY <1>1, <1>2
  <2>2. PICK e \in Nat, l \in 1 .. StartBufferSize : FrameAt(s, FrameOf(s, p.ts), e, l)
    BY <1>1, FrameIs
  <2>3. p \in FrameOf(s, p.ts) /\ q \in FrameOf(s, p.ts)
    BY <1>1, <2>1 DEF FrameOf
  <2>4. x = e /\ Pos(s, q.seq) \in e - l + 1 .. e
    BY <2>2, <2>3 DEF FrameAt
  <2>5. Pos(s, q.seq) \in Nat
    BY <2>1, PacketIs
  <2> DEFINE k == x - Pos(s, q.seq)
  <2>6. k \in 0 .. d /\ k \in Nat /\ Pos(s, q.seq) = x - k
    BY <1>3, <2>1, <2>2, <2>4, <2>5
  <2> HIDE DEF k
  <2>7. QED
    BY <1>1, <2>1, <2>6, BehindIs
<1>6. ASSUME NEW k \in 0 .. d
      PROVE  \E q \in f.packets : q.seq = Back(p.seq, k)
  <2>1. PICK q \in b.stored : q.ts = p.ts /\ Pos(s, q.seq) = x - k
    BY <1>2 DEF Run
  <2>2. k \in Nat /\ x - k >= y
    BY <1>3
  <2>3. QED
    BY <1>1, <1>2, <2>1, <2>2, BehindIs
<1>7. {q.seq : q \in f.packets} = {Back(p.seq, k) : k \in 0 .. d}
  <2> HIDE DEF d
  <2>1. QED
    BY <1>5, <1>6
<1>8. p.seq \in Ends(s)
  BY <1>1 DEF Ends
<1>9. \A q \in f.packets : q.ts = p.ts
  BY <1>2
<1> HIDE DEF d
<1>10. QED
  BY <1>2, <1>4, <1>7, <1>8, <1>9 DEF Whole

\* What FindFrames leaves of a buffer b.
Derived(b, c) ==
    /\ c.size = b.size /\ c.stored \subseteq b.stored /\ c.first = b.first
    /\ c.received = b.received /\ c.clearedTo = b.clearedTo /\ c.newest = b.newest
    /\ c.missing \subseteq b.missing /\ c.padding \subseteq b.padding

GoodWalk(s, b, w) ==
    /\ w \in Walks(s) /\ SlotsOK(w.b, s) /\ Derived(b, w.b)
    /\ \A f \in w.out : Whole(s, f) /\ f.packets \subseteq b.stored

LEMMA StepKeeps ==
  ASSUME NEW s, RegularStream(s), NEW b, NEW w, GoodWalk(s, b, w), NEW start,
         NEW spsPps \in BOOLEAN
  PROVE  GoodWalk(s, b, FindStep(w, start, spsPps))
<1> DEFINE v == FindStep(w, start, spsPps)
           c == Mark(w.b, w.seq)
<1>1. /\ w \in Walks(s) /\ SlotsOK(w.b, s) /\ Derived(b, w.b)
      /\ \A f \in w.out : Whole(s, f) /\ f.packets \subseteq b.stored
      /\ w.b \in Buffers(s) /\ w.seq \in SeqNum
  BY DEF GoodWalk, Walks
<1>2. Succ(w.seq) \in SeqNum
  BY <1>1, AheadIs
<1>4. /\ c \in Buffers(s) /\ c.size = w.b.size /\ c.stored = w.b.stored /\ c.first = w.b.first
      /\ c.received = w.b.received /\ c.clearedTo = w.b.clearedTo
      /\ c.newest = w.b.newest /\ c.missing = w.b.missing /\ c.padding = w.b.padding
  BY <1>1, MarkIs
<1>5. Derived(b, c)
  BY <1>1, <1>4 DEF Derived
<1> HIDE DEF c
<1>6. CASE Ended(w, v)
  BY <1>6 DEF Ended
<1>7. CASE Skipped(w, v)
  <2>1. v \in Walks(s) /\ v.b = w.b /\ v.out = w.out
    BY <1>1, <1>2, <1>7 DEF Skipped, Walks
  <2>2. QED
    BY <1>1, <2>1 DEF GoodWalk
<1>8. CASE Stopped(w, v)
  <2>1. v \in Walks(s) /\ v.b = w.b /\ v.out = w.out
    BY <1>1, <1>8 DEF Stopped, Walks
  <2>2. QED
    BY <1>1, <2>1 DEF GoodWalk
<1>9. ASSUME NEW p \in w.b.stored, Continued(w, v, p) PROVE GoodWalk(s, b, v)
  <2>1. SlotsOK(c, s)
    BY <1>1, <1>9, MarkOK DEF Continued, Marks, c
  <2>2. v \in Walks(s) /\ v.b = c /\ v.out = w.out
    BY <1>1, <1>2, <1>4, <1>9 DEF Continued, Walks, c
  <2>3. QED
    BY <1>1, <1>5, <2>1, <2>2 DEF GoodWalk
<1>10. ASSUME NEW p \in w.b.stored, NEW f \in Frames(s), EndsAt(c, s, p, f),
              Waited(w, v, p, f)
       PROVE  GoodWalk(s, b, v)
  <2>1. SlotsOK(c, s)
    BY <1>1, <1>10, MarkOK DEF Waited, Marks, c
  <2>2. v \in Walks(s) /\ v.b = c /\ v.out = w.out
    BY <1>1, <1>4, <1>10 DEF Waited, Walks, c
  <2>3. QED
    BY <1>1, <1>5, <2>1, <2>2 DEF GoodWalk
<1>11. ASSUME NEW p \in w.b.stored, NEW f \in Frames(s), EndsAt(c, s, p, f),
              HandedOut(w, v, p, f, start)
       PROVE  GoodWalk(s, b, v)
  <2> DEFINE h == HandOut(c, f, start)
  <2>1. SlotsOK(c, s) /\ p \in c.stored /\ p.last
    BY <1>1, <1>4, <1>11, MarkOK DEF HandedOut, Marks, c
  <2>2. Whole(s, f) /\ f.packets \subseteq b.stored
    <3>1. f.packets \subseteq c.stored
      BY <1>11 DEF EndsAt
    <3>2. QED
      BY <1>5, <1>11, <2>1, <3>1, EndWhole DEF Derived
  <2>3. SlotsOK(h, s)
    BY <1>4, <1>11, <2>1, HandOutOK
  <2>4. h \in Buffers(s) /\ Derived(c, h)
    BY <1>4, HandOutIs DEF Derived
  <2>5. Derived(b, h)
    BY <1>5, <2>4 DEF Derived
  <2> HIDE DEF h
  <2>6. v = [w EXCEPT !.b = h, !.seq = Succ(@), !.out = @ \cup {f}]
    BY <1>11 DEF HandedOut, c, h
  <2>7. v \in Walks(s) /\ v.b = h /\ v.out = w.out \cup {f}
    <3> DEFINE out == w.out \cup {f}
               next == Succ(w.seq)
    <3>1. out \in SUBSET Frames(s)
      BY <1>1 DEF Walks
    <3>2. next \in SeqNum
      BY <1>2
    <3>3. v = [w EXCEPT !.b = h, !.seq = next, !.out = out]
      BY <1>1, <2>6 DEF Walks
    <3> HIDE DEF out, next
    <3>4. v \in Walks(s) /\ v.b = h /\ v.out = out
      BY <1>1, <2>4, <3>1, <3>2, <3>3 DEF Walks
    <3>5. QED
      BY <3>4 DEF out
  <2>8. QED
    BY <1>1, <2>2, <2>3, <2>5, <2>7 DEF GoodWalk
<1>12. \/ Ended(w, v) \/ Skipped(w, v) \/ Stopped(w, v)
       \/ \E p \in w.b.stored :
            \/ Continued(w, v, p)
            \/ \E f \in Frames(s) : /\ EndsAt(c, s, p, f)
                                    /\ Waited(w, v, p, f) \/ HandedOut(w, v, p, f, start)
  <2> HIDE DEF v
  <2>1. QED
    BY <1>1, StepCases DEF c, v
<1> HIDE DEF v
<1>13. CASE Ended(w, v) \/ Skipped(w, v) \/ Stopped(w, v)
  BY <1>6, <1>7, <1>8, <1>13 DEF v
<1>14. CASE \E p \in w.b.stored :
            \/ Continued(w, v, p)
            \/ \E f \in Frames(s) : /\ EndsAt(c, s, p, f)
                                    /\ Waited(w, v, p, f) \/ HandedOut(w, v, p, f, start)
  BY <1>9, <1>10, <1>11, <1>14 DEF v
<1>15. QED
  BY <1>12, <1>13, <1>14 DEF v

LEMMA FoundIs ==
  ASSUME NEW s, RegularStream(s), NEW b \in Buffers(s), SlotsOK(b, s), NEW start \in SeqNum,
         NEW spsPps \in BOOLEAN
  PROVE  GoodWalk(s, b, FindFrames(b, start, spsPps))
<1> DEFINE W == {w \in Walks(s) : GoodWalk(s, b, w)}
<1>1. GoodWalk(s, b, Begin(b, start))
  BY DEF Begin, GoodWalk, Walks, Derived
<1>2. Begin(b, start) \in W
  BY <1>1 DEF GoodWalk
<1>3. \A w \in W : FindStep(w, start, spsPps) \in W
  <2>1. \A w \in W : GoodWalk(s, b, FindStep(w, start, spsPps))
    BY StepKeeps
  <2>2. QED
    BY <2>1 DEF GoodWalk
<1>4. b.size \in Nat
  BY SizeIs
<1> HIDE DEF W
<1>5. FindFrames(b, start, spsPps) \in W
  BY <1>2, <1>3, <1>4, FindFramesIn
<1>6. QED
  BY <1>5 DEF W

-------------------------------------------------------------------------------
(* What the operations do to the fields of a buffer *)

\* Everything stored is at or after the first number, if there is one.
FromFirst(b, s) ==
    /\ ~b.received => b.stored = {}
    /\ b.received => InWindow(s, b.first) /\ \A p \in b.stored : Pos(s, b.first) <= Pos(s, p.seq)

Good(b, s) == b \in Buffers(s) /\ SlotsOK(b, s) /\ FromFirst(b, s)

LEMMA EmptyIs ==
  ASSUME NEW s
  PROVE  /\ EmptyBuffer \in Buffers(s) /\ Good(EmptyBuffer, s)
         /\ EmptyBuffer.size = StartBufferSize /\ EmptyBuffer.stored = {}
         /\ EmptyBuffer.continuous = {} /\ EmptyBuffer.received = FALSE
         /\ EmptyBuffer.newest = None /\ EmptyBuffer.missing = {} /\ EmptyBuffer.padding = {}
<1>1. 0 \in SeqNum
  BY Sizes DEF SeqNum
<1>2. EmptyBuffer \in Buffers(s)
  BY <1>1, Sizes DEF EmptyBuffer, Buffers
<1>3. SlotsOK(EmptyBuffer, s) /\ FromFirst(EmptyBuffer, s)
  BY Sizes DEF EmptyBuffer, SlotsOK, FromFirst
<1>4. QED
  BY <1>2, <1>3 DEF Good, EmptyBuffer

LEMMA ClearInternalIs ==
  ASSUME NEW s, NEW b \in Buffers(s), SlotsOK(b, s)
  PROVE  LET c == ClearInternal(b)
         IN  /\ c \in Buffers(s) /\ Good(c, s)
             /\ c.size = b.size /\ c.first = b.first /\ c.stored = {} /\ c.continuous = {}
             /\ c.received = FALSE /\ c.clearedTo = FALSE
             /\ c.newest = None /\ c.missing = {} /\ c.padding = {}
<1> DEFINE c == ClearInternal(b)
<1>1. /\ c.size = b.size /\ c.first = b.first /\ c.stored = {} /\ c.continuous = {}
      /\ c.received = FALSE /\ c.clearedTo = FALSE
      /\ c.newest = None /\ c.missing = {} /\ c.padding = {}
      /\ c \in Buffers(s)
  BY DEF ClearInternal, EmptyBuffer, Buffers
<1> HIDE DEF c
<1>2. SlotsOK(c, s) /\ FromFirst(c, s)
  BY <1>1 DEF SlotsOK, FromFirst
<1>3. QED
  BY <1>1, <1>2 DEF Good, c

\* Packets are older than the first number by their positions.
LEMMA OldIs ==
  ASSUME NEW s, RegularStream(s), NEW b, Good(b, s), NEW n, InWindow(s, n)
  PROVE  /\ Old(b, n) \in BOOLEAN
         /\ Old(b, n) <=> b.received /\ Pos(s, b.first) > Pos(s, n)
<1>1. b.received \in BOOLEAN
  BY DEF Good, Buffers
<1>2. b.received => InWindow(s, b.first)
  BY DEF Good, FromFirst
<1>3. b.received => (AheadOf(b.first, n) <=> Pos(s, b.first) > Pos(s, n))
  BY <1>2, WindowIs
<1>4. QED
  BY <1>1, <1>3 DEF Old

\* Admit takes n as the first number, or leaves the buffer; a large jump empties it.
LEMMA AdmitIs ==
  ASSUME NEW s, RegularStream(s), NEW b, Good(b, s), NEW n, InWindow(s, n)
  PROVE  LET c == Admit(b, n)
         IN  /\ Good(c, s) /\ c.received /\ Pos(s, c.first) <= Pos(s, n)
             /\ c.size = b.size
             /\ \/ /\ Old(b, n) /\ LargeJump(b, n)
                   /\ c.stored = {} /\ c.continuous = {} /\ c.newest = None
                   /\ c.missing = {} /\ c.padding = {}
                \/ /\ ~(Old(b, n) /\ LargeJump(b, n))
                   /\ c.stored = b.stored /\ c.continuous = b.continuous
                   /\ c.newest = b.newest /\ c.missing = b.missing /\ c.padding = b.padding
<1> DEFINE c == Admit(b, n)
           d == IF Old(b, n) /\ LargeJump(b, n) THEN ClearInternal(b) ELSE b
<1>1. b \in Buffers(s) /\ SlotsOK(b, s) /\ FromFirst(b, s) /\ n \in SeqNum
  BY DEF Good, InWindow
<1>2. /\ d \in Buffers(s) /\ SlotsOK(d, s) /\ d.size = b.size
      /\ \/ /\ Old(b, n) /\ LargeJump(b, n)
            /\ d.stored = {} /\ d.continuous = {} /\ d.newest = None
            /\ d.missing = {} /\ d.padding = {}
         \/ ~(Old(b, n) /\ LargeJump(b, n)) /\ d = b
  BY <1>1, ClearInternalIs DEF Good
<1>3. \A p \in b.stored : Pos(s, p.seq) \in Nat
  BY <1>1, PacketIs DEF SlotsOK
<1>4. Pos(s, n) \in Nat
  BY WindowIs
<1>5. CASE ~b.received \/ Old(b, n)
  <2>1. c = [d EXCEPT !.first = n, !.received = TRUE]
    BY <1>5 DEF Admit
  <2> HIDE DEF c, d
  <2>2. /\ c \in Buffers(s) /\ c.size = d.size /\ c.stored = d.stored
        /\ c.continuous = d.continuous /\ c.newest = d.newest /\ c.missing = d.missing
        /\ c.padding = d.padding /\ c.received = TRUE /\ c.first = n
    BY <1>1, <1>2, <2>1 DEF Buffers
  <2>3. SlotsOK(c, s)
    BY <1>2, <2>2 DEF SlotsOK, Follows
  <2>4. \A p \in d.stored : Pos(s, n) <= Pos(s, p.seq)
    <3>1. CASE d = b
      <4>1. CASE ~b.received
        BY <1>1, <3>1, <4>1 DEF FromFirst
      <4>2. CASE b.received
        <5>1. Pos(s, b.first) > Pos(s, n) /\ Pos(s, b.first) \in Nat
          BY <1>1, <1>5, <4>2, OldIs, WindowIs DEF FromFirst
        <5>2. \A p \in b.stored : Pos(s, b.first) <= Pos(s, p.seq)
          BY <1>1, <4>2 DEF FromFirst
        <5>3. QED
          BY <1>3, <1>4, <3>1, <5>1, <5>2
      <4>3. QED
        BY <4>1, <4>2
    <3>2. QED
      BY <1>2, <3>1
  <2>5. FromFirst(c, s)
    BY <2>2, <2>4 DEF FromFirst
  <2>6. QED
    BY <1>2, <1>4, <2>2, <2>3, <2>5 DEF Good, c
<1>6. CASE b.received /\ ~Old(b, n)
  <2>1. c = b
    BY <1>6 DEF Admit
  <2>2. InWindow(s, b.first) /\ Pos(s, b.first) <= Pos(s, n)
    <3>1. InWindow(s, b.first) /\ ~(Pos(s, b.first) > Pos(s, n))
      BY <1>1, <1>6, OldIs DEF FromFirst
    <3>2. Pos(s, b.first) \in Nat
      BY <3>1, WindowIs
    <3>3. QED
      BY <1>4, <3>1, <3>2
  <2>3. QED
    BY <1>6, <2>1, <2>2
<1>7. b.received \in BOOLEAN
  BY <1>1 DEF Buffers
<1>8. QED
  BY <1>5, <1>6, <1>7

LEMMA ExpandIs ==
  ASSUME NEW s, RegularStream(s), NEW b, Good(b, s), NEW n
  PROVE  LET c == Expand(b, n)
         IN  /\ Good(c, s)
             /\ c.stored = b.stored /\ c.continuous = b.continuous /\ c.first = b.first
             /\ c.received = b.received /\ c.clearedTo = b.clearedTo
             /\ c.newest = b.newest /\ c.missing = b.missing /\ c.padding = b.padding
             /\ b.size <= c.size
<1> DEFINE c == Expand(b, n)
           sizes == {z \in PowersOfTwo : b.size <= z /\ z <= MaxBufferSize}
           free == {z \in sizes : \A p \in b.stored : p.seq % z # n % z}
           size == IF free = {} THEN MaxBufferSize ELSE LeastOf(free)
<1>1. b \in Buffers(s) /\ SlotsOK(b, s) /\ FromFirst(b, s) /\ b.stored \subseteq s.packets
  BY DEF Good, SlotsOK
<1>2. c = [b EXCEPT !.size = size]
  BY DEF Expand
<1>3. size \in sizes
  <2>1. MaxBufferSize \in sizes
    BY <1>1, Sizes DEF SlotsOK
  <2>2. sizes \in SUBSET Nat
    BY PowerIs
  <2>3. free \in SUBSET Nat /\ free \subseteq sizes
    BY <2>2
  <2>4. free # {} => LeastOf(free) \in free
    <3> HIDE DEF free
    <3>1. QED
      BY <2>3, LeastExists
  <2> HIDE DEF free, sizes
  <2>5. QED
    BY <2>1, <2>3, <2>4
<1> HIDE DEF size, c
<1>4. size \in PowersOfTwo /\ b.size <= size /\ size <= MaxBufferSize
  BY <1>3
<1>5. /\ c \in Buffers(s) /\ c.size = size /\ c.stored = b.stored
      /\ c.continuous = b.continuous /\ c.first = b.first
      /\ c.received = b.received /\ c.clearedTo = b.clearedTo
      /\ c.newest = b.newest /\ c.missing = b.missing /\ c.padding = b.padding
  BY <1>1, <1>2, <1>4 DEF Buffers
<1>6. b.size \in PowersOfTwo /\ b.size \in Nat /\ StartBufferSize \in Nat
      /\ StartBufferSize <= b.size /\ size \in Nat
  BY <1>1, <1>4, PowerIs, SizeIs
<1>7. StartBufferSize <= size
  BY <1>4, <1>6
<1>8. ASSUME NEW p \in b.stored, NEW q \in b.stored, p.seq % size = q.seq % size
      PROVE  p = q
  <2>1. p.seq \in SeqNum /\ q.seq \in SeqNum
    BY <1>1, PacketIs
  <2>2. p.seq % b.size = q.seq % b.size
    BY <1>4, <1>6, <1>8, <2>1, SlotsSplit
  <2>3. QED
    BY <1>1, <2>2 DEF SlotsOK
<1>9. SlotsOK(c, s)
  BY <1>1, <1>4, <1>5, <1>7, <1>8 DEF SlotsOK, Follows
<1>10. FromFirst(c, s)
  BY <1>1, <1>5 DEF FromFirst
<1>11. QED
  BY <1>4, <1>5, <1>9, <1>10 DEF Good, c

LEMMA UpdateMissingIs ==
  ASSUME NEW s, RegularStream(s), NEW b, b \in Buffers(s), NEW n \in SeqNum
  PROVE  LET c == UpdateMissingPackets(b, n)
         IN  /\ c \in Buffers(s)
             /\ c.size = b.size /\ c.stored = b.stored /\ c.continuous = b.continuous
             /\ c.first = b.first /\ c.received = b.received /\ c.clearedTo = b.clearedTo
             /\ c.padding = b.padding
<1> DEFINE newest == IF b.newest = None THEN n ELSE b.newest
           old == Back(n, MaxPaddingAge)
           from == IF AheadOf(old, newest) THEN old ELSE newest
           more == {m \in b.missing : ~AheadOf(old, m)}
                          \cup {m \in SeqNum : AheadOf(m, from) /\ AheadOf(n, m)}
           c == UpdateMissingPackets(b, n)
<1>1. more \in SUBSET SeqNum /\ newest \in SeqNum
  BY DEF Buffers
<1>2. c = IF AheadOf(n, newest) THEN [b EXCEPT !.newest = n, !.missing = more]
          ELSE [[b EXCEPT !.newest = newest] EXCEPT !.missing = @ \ {n}]
  BY DEF UpdateMissingPackets, FillGap
<1> HIDE DEF more, newest
<1>3. CASE AheadOf(n, newest)
  <2>1. c = [b EXCEPT !.newest = n, !.missing = more]
    BY <1>2, <1>3
  <2> HIDE DEF c
  <2>2. QED
    BY <1>1, <2>1 DEF Buffers, c
<1>4. CASE ~AheadOf(n, newest)
  <2>1. c = [b EXCEPT !.newest = newest, !.missing = b.missing \ {n}]
    BY <1>2, <1>4 DEF Buffers
  <2> HIDE DEF c
  <2>2. QED
    BY <1>1, <2>1 DEF Buffers, c
<1>5. QED
  BY <1>3, <1>4

LEMMA ForgetPaddingIs ==
  ASSUME NEW s, NEW b, b \in Buffers(s), NEW n
  PROVE  LET c == ForgetPadding(b, n)
         IN  /\ c \in Buffers(s)
             /\ c.size = b.size /\ c.stored = b.stored /\ c.continuous = b.continuous
             /\ c.first = b.first /\ c.received = b.received /\ c.clearedTo = b.clearedTo
             /\ c.newest = b.newest /\ c.missing = b.missing /\ c.padding \subseteq b.padding
  BY DEF ForgetPadding, Buffers

\* A packet goes into a free slot.
LEMMA PlaceIs ==
  ASSUME NEW s, RegularStream(s), NEW b, Good(b, s), b.received, NEW p \in s.packets,
         Pos(s, b.first) <= Pos(s, p.seq), Slot(b, p.seq) = {}
  PROVE  LET c == Place(b, p)
             d == UpdateMissingPackets([b EXCEPT !.stored = @ \cup {p}], p.seq)
         IN  /\ Good(c, s)
             /\ c.size = b.size /\ c.stored = b.stored \cup {p}
             /\ c.continuous = b.continuous /\ c.first = b.first /\ c.received
             /\ c.newest = d.newest /\ c.missing = d.missing /\ c.padding \subseteq b.padding
<1> DEFINE a == [b EXCEPT !.stored = @ \cup {p}]
           d == UpdateMissingPackets(a, p.seq)
           c == ForgetPadding(d, p.seq)
<1>1. b \in Buffers(s) /\ SlotsOK(b, s) /\ FromFirst(b, s) /\ p.seq \in SeqNum
  BY PacketIs DEF Good
<1>2. /\ a \in Buffers(s) /\ a.size = b.size /\ a.stored = b.stored \cup {p}
      /\ a.continuous = b.continuous /\ a.first = b.first /\ a.received = b.received
      /\ a.padding = b.padding
  BY <1>1 DEF Buffers
<1> HIDE DEF a
<1>3. /\ d \in Buffers(s)
      /\ d.size = a.size /\ d.stored = a.stored /\ d.continuous = a.continuous
      /\ d.first = a.first /\ d.received = a.received /\ d.padding = a.padding
  <2> DEFINE n == p.seq
  <2>1. n \in SeqNum /\ a \in Buffers(s)
    BY <1>1, <1>2
  <2> HIDE DEF n
  <2>2. d = UpdateMissingPackets(a, n)
    BY DEF n
  <2> HIDE DEF d
  <2>3. QED
    BY <2>1, <2>2, UpdateMissingIs
<1> HIDE DEF d
<1>4. /\ c \in Buffers(s)
      /\ c.size = d.size /\ c.stored = d.stored /\ c.continuous = d.continuous
      /\ c.first = d.first /\ c.received = d.received
      /\ c.newest = d.newest /\ c.missing = d.missing /\ c.padding \subseteq d.padding
  BY <1>3, ForgetPaddingIs
<1> HIDE DEF c
<1>5. \A q \in b.stored : q.seq % b.size # p.seq % b.size
  BY DEF Slot
<1>6. /\ c.size = b.size /\ c.stored = b.stored \cup {p} /\ c.continuous = b.continuous
      /\ c.first = b.first /\ c.received /\ c.padding \subseteq b.padding
  BY <1>2, <1>3, <1>4
<1>7. SlotsOK(c, s)
  <2>1. \A q, r \in c.stored : q.seq % c.size = r.seq % c.size => q = r
    BY <1>1, <1>5, <1>6 DEF SlotsOK
  <2>2. c.continuous \subseteq {q.seq : q \in c.stored}
    BY <1>1, <1>6 DEF SlotsOK
  <2>3. ASSUME NEW q \in c.stored, q.seq \in c.continuous, ~q.first
        PROVE  \E r \in c.stored : Follows(c, r, q)
    <3>1. q \in b.stored
      <4>1. PICK r \in b.stored : r.seq = q.seq
        BY <1>1, <1>6, <2>3 DEF SlotsOK
      <4>2. q # p
        BY <1>5, <4>1
      <4>3. QED
        BY <1>6, <4>2
    <3>2. PICK r \in b.stored : Follows(b, r, q)
      BY <1>1, <1>6, <2>3, <3>1 DEF SlotsOK
    <3>3. QED
      BY <1>6, <3>2 DEF Follows
  <2>4. QED
    BY <1>1, <1>6, <2>1, <2>2, <2>3 DEF SlotsOK
<1>8. FromFirst(c, s)
  BY <1>1, <1>6 DEF FromFirst
<1>9. Place(b, p) = c
  BY DEF Place, a, c, d
<1>10. QED
  BY <1>4, <1>6, <1>7, <1>8, <1>9 DEF Good, a, d

LEMMA DerivedGood ==
  ASSUME NEW s, NEW b, Good(b, s), NEW w, GoodWalk(s, b, w)
  PROVE  Good(w.b, s)
<1>1. w.b \in Buffers(s) /\ SlotsOK(w.b, s) /\ Derived(b, w.b) /\ FromFirst(b, s)
  BY DEF GoodWalk, Walks, Good
<1>2. FromFirst(w.b, s)
  BY <1>1 DEF FromFirst, Derived
<1>3. QED
  BY <1>1, <1>2 DEF Good

GoodReturn(s, r) ==
    /\ Good(r.b, s) /\ r.out \subseteq Frames(s) /\ \A f \in r.out : Whole(s, f)
    /\ r.cleared \in BOOLEAN

\* What InsertPacket may do.
Kept(b, p, r) == Ignored(b, p.seq) /\ r = Returns(b, {}, FALSE)
Repeated(b, p, r) ==
    /\ ~Ignored(b, p.seq) /\ p \in Admit(b, p.seq).stored
    /\ r = Returns(Admit(b, p.seq), {}, FALSE)
Filled(b, p, r) ==
    /\ ~Ignored(b, p.seq)
    /\ r = Returns(ClearInternal(Expand(Admit(b, p.seq), p.seq)), {}, TRUE)
Inserted(b, p, spsPps, r) ==
    LET c == Expand(Admit(b, p.seq), p.seq)
        w == FindFrames(Place(c, p), p.seq, spsPps)
    IN ~Ignored(b, p.seq) /\ Slot(c, p.seq) = {} /\ r = Returns(w.b, w.out, FALSE)

LEMMA InsertCases ==
  ASSUME NEW s, RegularStream(s), NEW b, Good(b, s), NEW p \in s.packets, NEW spsPps
  PROVE  LET r == InsertPacket(b, p, spsPps)
         IN Kept(b, p, r) \/ Repeated(b, p, r) \/ Filled(b, p, r) \/ Inserted(b, p, spsPps, r)
<1> DEFINE r == InsertPacket(b, p, spsPps)
           b1 == Admit(b, p.seq)
           b2 == Expand(b1, p.seq)
           w == FindFrames(Place(b2, p), p.seq, spsPps)
<1>1. r = IF Ignored(b, p.seq) THEN Returns(b, {}, FALSE)
          ELSE IF p \in Slot(b1, p.seq) THEN Returns(b1, {}, FALSE)
          ELSE IF Slot(b2, p.seq) # {} THEN Returns(ClearInternal(b2), {}, TRUE)
          ELSE Returns(w.b, w.out, FALSE)
  <2> HIDE DEF w
  <2>1. QED
    BY DEF InsertPacket, w
<1>2. p \in Slot(b1, p.seq) => p \in b1.stored
  BY DEF Slot
<1> HIDE DEF r
<1>3. QED
  BY <1>1, <1>2 DEF Kept, Repeated, Filled, Inserted, r

LEMMA InsertPacketGood ==
  ASSUME NEW s, RegularStream(s), NEW b, Good(b, s), NEW p \in s.packets,
         NEW spsPps \in BOOLEAN
  PROVE  GoodReturn(s, InsertPacket(b, p, spsPps))
<1> DEFINE r == InsertPacket(b, p, spsPps)
           b1 == Admit(b, p.seq)
           b2 == Expand(b1, p.seq)
           b3 == Place(b2, p)
           w == FindFrames(b3, p.seq, spsPps)
<1>1. InWindow(s, p.seq) /\ p.seq \in SeqNum
  BY PacketIs
<1>2. Good(b1, s) /\ b1.received /\ Pos(s, b1.first) <= Pos(s, p.seq)
  BY <1>1, AdmitIs
<1> HIDE DEF b1
<1>3. Good(b2, s) /\ b2.received /\ Pos(s, b2.first) <= Pos(s, p.seq)
  BY <1>2, ExpandIs
<1> HIDE DEF b2
<1>4. CASE Kept(b, p, r)
  BY <1>4 DEF Returns, GoodReturn, Kept
<1>5. CASE Repeated(b, p, r)
  BY <1>2, <1>5 DEF Returns, GoodReturn, Repeated, b1
<1>6. CASE Filled(b, p, r)
  <2>1. Good(ClearInternal(b2), s)
    BY <1>3, ClearInternalIs DEF Good
  <2>2. r = Returns(ClearInternal(b2), {}, TRUE)
    BY <1>6 DEF Filled, b1, b2
  <2>3. QED
    BY <2>1, <2>2 DEF Returns, GoodReturn
<1>7. CASE Inserted(b, p, spsPps, r)
  <2>1. Slot(b2, p.seq) = {} /\ r = Returns(w.b, w.out, FALSE)
    BY <1>7 DEF Inserted, b1, b2
  <2>2. Good(b3, s)
    BY <1>3, <2>1, PlaceIs
  <2> HIDE DEF b3
  <2>3. GoodWalk(s, b3, w)
    BY <1>1, <2>2, FoundIs DEF Good
  <2> HIDE DEF w, r
  <2>4. Good(w.b, s) /\ w.out \subseteq Frames(s) /\ \A f \in w.out : Whole(s, f)
    BY <2>2, <2>3, DerivedGood DEF GoodWalk, Walks
  <2>5. QED
    BY <2>1, <2>4 DEF Returns, GoodReturn, r
<1>8. QED
  BY <1>4, <1>5, <1>6, <1>7, InsertCases

LEMMA InsertPaddingGood ==
  ASSUME NEW s, RegularStream(s), NEW b, Good(b, s), NEW n \in s.padding,
         NEW spsPps \in BOOLEAN
  PROVE  GoodReturn(s, InsertPadding(b, n, spsPps))
<1> DEFINE r == InsertPadding(b, n, spsPps)
           b1 == UpdateMissingPackets(b, n)
           b2 == [b1 EXCEPT !.padding = @ \cup {n}]
           w == FindFrames(b2, Succ(n), spsPps)
<1>1. n \in SeqNum /\ Succ(n) \in SeqNum
  BY NumberIs DEF NumbersOf
<1>2. b \in Buffers(s) /\ SlotsOK(b, s) /\ FromFirst(b, s)
  BY DEF Good
<1>3. /\ b1 \in Buffers(s)
      /\ b1.size = b.size /\ b1.stored = b.stored /\ b1.continuous = b.continuous
      /\ b1.first = b.first /\ b1.received = b.received
  BY <1>1, <1>2, UpdateMissingIs
<1> HIDE DEF b1
<1>4. /\ b2 \in Buffers(s)
      /\ b2.size = b.size /\ b2.stored = b.stored /\ b2.continuous = b.continuous
      /\ b2.first = b.first /\ b2.received = b.received
  BY <1>1, <1>3 DEF Buffers
<1>5. r = Returns(w.b, w.out, FALSE)
  <2> HIDE DEF w
  <2>1. QED
    BY DEF InsertPadding, w, b1
<1> HIDE DEF b2
<1>6. Good(b2, s)
  BY <1>2, <1>4 DEF Good, SlotsOK, FromFirst, Follows
<1>7. GoodWalk(s, b2, w)
  BY <1>1, <1>6, FoundIs DEF Good
<1> HIDE DEF w, r
<1>8. Good(w.b, s) /\ w.out \subseteq Frames(s) /\ \A f \in w.out : Whole(s, f)
  BY <1>6, <1>7, DerivedGood DEF GoodWalk, Walks
<1>9. QED
  BY <1>5, <1>8 DEF Returns, GoodReturn, r

\* ClearTo removes exactly what is at or before the number.
LEMMA ClearToIs ==
  ASSUME NEW s, RegularStream(s), NEW b, Good(b, s), NEW n \in Ends(s)
  PROVE  LET c == ClearTo(b, n)
             gone == {p \in b.stored : Pos(s, p.seq) <= Pos(s, n)}
         IN  \/ (~b.received \/ Pos(s, b.first) > Pos(s, n)) /\ c = b
             \/ /\ b.received /\ c \in Buffers(s)
                /\ c.size = b.size /\ c.stored = b.stored \ gone
                /\ c.continuous = b.continuous \ {p.seq : p \in gone}
                /\ c.first = Succ(n) /\ c.received = b.received /\ c.newest = b.newest
                /\ c.missing = {m \in b.missing : ~AheadOf(Succ(n), m)}
                /\ c.padding \subseteq b.padding
<1> DEFINE upto == Succ(n)
           c == ClearTo(b, n)
           gone == {p \in Visited(b, upto) : AheadOf(upto, p.seq)}
           before == {p \in b.stored : Pos(s, p.seq) <= Pos(s, n)}
<1>1. b \in Buffers(s) /\ SlotsOK(b, s) /\ FromFirst(b, s) /\ b.stored \subseteq s.packets
  BY DEF Good, SlotsOK
<1>2. /\ InWindow(s, n) /\ InWindow(s, upto) /\ Pos(s, upto) = Pos(s, n) + 1
      /\ upto \in SeqNum /\ Pos(s, n) \in Nat
  <2>1. n \in NumbersOf(s)
    BY DEF Ends, NumbersOf
  <2>2. QED
    BY <2>1, NumberIs
<1>3. b.received \in BOOLEAN /\ (b.received => InWindow(s, b.first) /\ Pos(s, b.first) \in Nat)
  BY <1>1, WindowIs DEF FromFirst, Buffers
<1>4. b.received => (AheadOf(b.first, n) <=> Pos(s, b.first) > Pos(s, n))
  BY <1>2, <1>3, WindowIs
<1>5. CASE ~b.received \/ AheadOf(b.first, n)
  BY <1>4, <1>5 DEF ClearTo
<1>6. CASE b.received /\ ~AheadOf(b.first, n)
  <2>1. c = [b EXCEPT
               !.stored = @ \ gone,
               !.continuous = @ \ {p.seq : p \in gone},
               !.first = upto, !.clearedTo = TRUE,
               !.missing = {m \in @ : ~AheadOf(upto, m)},
               !.padding = {m \in @ : ~AheadOf(upto, m)}]
    BY <1>6 DEF ClearTo
  <2> DEFINE x == Pos(s, b.first)
             y == Pos(s, upto)
             count == y - x
  <2>2. x \in Nat /\ y \in Nat /\ x < y
    <3>1. x \in Nat /\ ~(x > Pos(s, n)) /\ y = Pos(s, n) + 1
      BY <1>2, <1>3, <1>4, <1>6
    <3> HIDE DEF x, y
    <3>2. QED
      BY <1>2, <3>1
  <2>3. ForwardDiff(b.first, upto) = count
    <3>1. x <= y
      BY <2>2
    <3>2. QED
      BY <1>2, <1>3, <1>6, <3>1, WindowIs
  <2>4. ASSUME NEW p \in b.stored
        PROVE  /\ AheadOf(upto, p.seq) <=> Pos(s, p.seq) <= Pos(s, n)
               /\ Pos(s, p.seq) <= Pos(s, n) => p \in Visited(b, upto)
    <3> DEFINE z == Pos(s, p.seq)
    <3>1. InWindow(s, p.seq) /\ z \in Nat /\ x <= z
      BY <1>1, <1>6, PacketIs DEF FromFirst
    <3>2. AheadOf(upto, p.seq) <=> y > z
      BY <1>2, <3>1, WindowIs
    <3>3. y > z <=> z <= Pos(s, n)
      <4>1. y = Pos(s, n) + 1 /\ Pos(s, n) \in Nat
        BY <1>2
      <4> HIDE DEF y, z
      <4>2. QED
        BY <3>1, <4>1
    <3>4. ASSUME y > z, ~(count >= b.size) PROVE ForwardDiff(b.first, p.seq) % b.size < count
      <4>1. ForwardDiff(b.first, p.seq) = z - x
        BY <1>3, <1>6, <3>1, WindowIs
      <4>2. b.size \in Nat \ {0}
        BY <1>1, SizeIs
      <4>3. z - x \in 0 .. b.size - 1 /\ z - x < count /\ z - x \in Int
        <5> HIDE DEF x, y, z
        <5>1. QED
          BY <2>2, <3>1, <3>4, <4>2
      <4>4. (z - x) % b.size = z - x
        <5> HIDE DEF x, y, z
        <5>1. QED
          BY <4>2, <4>3, SmallRemainder
      <4>5. QED
        BY <4>1, <4>3, <4>4
    <3>5. y > z => p \in Visited(b, upto)
      <4>1. Visited(b, upto) = {q \in b.stored : \/ count >= b.size
                                                 \/ ForwardDiff(b.first, q.seq) % b.size < count}
        BY <2>3 DEF Visited
      <4> HIDE DEF count, y, z
      <4>2. QED
        BY <3>4, <4>1
    <3>6. QED
      BY <3>2, <3>3, <3>5
  <2>5. gone = before
    <3>1. Visited(b, upto) \subseteq b.stored
      BY DEF Visited
    <3>2. QED
      BY <2>4, <3>1
  <2> HIDE DEF gone, upto, c, before
  <2>6. /\ c \in Buffers(s)
        /\ c.size = b.size /\ c.stored = b.stored \ gone
        /\ c.continuous = b.continuous \ {p.seq : p \in gone}
        /\ c.first = upto /\ c.received = b.received /\ c.newest = b.newest
        /\ c.missing = {m \in b.missing : ~AheadOf(upto, m)}
        /\ c.padding \subseteq b.padding
    BY <1>1, <1>2, <2>1 DEF Buffers
  <2>7. QED
    BY <1>6, <2>5, <2>6 DEF upto, c, before
<1>7. QED
  BY <1>5, <1>6

LEMMA ClearToGood ==
  ASSUME NEW s, RegularStream(s), NEW b, Good(b, s), NEW n \in Ends(s)
  PROVE  Good(ClearTo(b, n), s)
<1> DEFINE c == ClearTo(b, n)
           gone == {p \in b.stored : Pos(s, p.seq) <= Pos(s, n)}
<1>1. b \in Buffers(s) /\ SlotsOK(b, s) /\ FromFirst(b, s) /\ b.stored \subseteq s.packets
  BY DEF Good, SlotsOK
<1>2. PICK last \in s.packets : last.last /\ last.seq = n
  BY DEF Ends
<1>3. /\ InWindow(s, Succ(n)) /\ Pos(s, Succ(n)) = Pos(s, n) + 1
      /\ Pos(s, n) \in Nat
  BY <1>2, PacketIs, NumberIs
<1> SUFFICES ASSUME c # b PROVE Good(c, s)
  BY DEF c
<1>4. /\ b.received /\ c \in Buffers(s)
      /\ c.size = b.size /\ c.stored = b.stored \ gone
      /\ c.continuous = b.continuous \ {p.seq : p \in gone}
      /\ c.first = Succ(n) /\ c.received = b.received
  <2> HIDE DEF c, gone
  <2>1. QED
    BY ClearToIs DEF c, gone
<1> HIDE DEF c
<1>5. ASSUME NEW p \in c.stored, p.seq \in c.continuous, ~p.first
      PROVE  \E q \in c.stored : Follows(c, q, p)
  <2>1. p \in b.stored /\ ~(Pos(s, p.seq) <= Pos(s, n)) /\ p \in s.packets
    BY <1>1, <1>4
  <2>2. PICK q \in b.stored : Follows(b, q, p)
    BY <1>1, <1>4, <1>5 DEF SlotsOK
  <2>3. q \in s.packets /\ q.ts = p.ts /\ q.seq \in b.continuous
        /\ Pos(s, q.seq) = Pos(s, p.seq) - 1
    BY <1>1, <2>1, <2>2, PrevPos DEF Follows
  <2>4. Pos(s, p.seq) \in Nat /\ Pos(s, q.seq) \in Nat
    BY <2>1, <2>3, PacketIs
  <2>5. q \notin gone
    <3> SUFFICES ASSUME Pos(s, q.seq) <= Pos(s, n) PROVE FALSE
      OBVIOUS
    <3>1. Pos(s, q.seq) = Pos(s, n) /\ Pos(s, p.seq) = Pos(s, n) + 1
      BY <1>3, <2>1, <2>3, <2>4
    <3>2. q = last
      BY <1>2, <2>3, <3>1, PacketIs
    <3>3. PICK e \in Nat, l \in 1 .. StartBufferSize : FrameAt(s, FrameOf(s, p.ts), e, l)
      BY <2>1, FrameIs
    <3>4. p \in FrameOf(s, p.ts) /\ q \in FrameOf(s, p.ts)
      BY <2>1, <2>3 DEF FrameOf
    <3>5. Pos(s, q.seq) = e /\ Pos(s, p.seq) \in e - l + 1 .. e
      BY <1>2, <3>2, <3>3, <3>4 DEF FrameAt
    <3>6. QED
      BY <1>3, <3>1, <3>3, <3>5
  <2>6. q \in c.stored
    BY <1>4, <2>5
  <2>7. q.seq \in c.continuous
    <3>1. \A r \in gone : r.seq # q.seq
      BY <1>1, <2>5 DEF RegularStream
    <3>2. QED
      BY <1>4, <2>3, <3>1
  <2>8. QED
    BY <2>2, <2>6, <2>7 DEF Follows
<1>6. c.continuous \subseteq {p.seq : p \in c.stored}
  BY <1>1, <1>4 DEF SlotsOK
<1>7. SlotsOK(c, s)
  BY <1>1, <1>4, <1>5, <1>6 DEF SlotsOK
<1>8. FromFirst(c, s)
  <2>1. ASSUME NEW p \in c.stored PROVE Pos(s, Succ(n)) <= Pos(s, p.seq)
    <3>1. ~(Pos(s, p.seq) <= Pos(s, n)) /\ Pos(s, p.seq) \in Nat
      BY <1>1, <1>4, PacketIs
    <3>2. QED
      BY <1>3, <3>1
  <2>2. QED
    BY <1>3, <1>4, <2>1 DEF FromFirst
<1>9. QED
  BY <1>4, <1>7, <1>8 DEF Good

-------------------------------------------------------------------------------
(* WholeFrames *)

IInv ==
    /\ sent \in Streams /\ Good(buffer, sent) /\ handed \subseteq Ends(sent)
    /\ result \subseteq Frames(sent) /\ \A f \in result : Whole(sent, f)

LEMMA InitIInv == ASSUME RegularStreams PROVE Init => IInv
<1> SUFFICES ASSUME Init PROVE IInv
  OBVIOUS
<1>1. Good(buffer, sent)
  BY EmptyIs DEF Init
<1>2. QED
  BY <1>1 DEF Init, IInv

LEMMA ObserveKeeps ==
  ASSUME IInv, NEW n, NEW r, GoodReturn(sent, r), NEW fresh, Observe(n, r, fresh)
  PROVE  IInv'
<1>1. /\ buffer' = r.b /\ result' = r.out /\ sent' = sent
      /\ handed' = (IF fresh THEN {} ELSE handed) \cup {f.to : f \in r.out}
  BY DEF Observe
<1>2. handed' \subseteq Ends(sent)
  BY <1>1 DEF IInv, GoodReturn, Whole
<1>3. QED
  BY <1>1, <1>2 DEF IInv, GoodReturn

LEMMA NextIInv == ASSUME RegularStreams PROVE IInv /\ [Next]_vars => IInv'
<1> SUFFICES ASSUME IInv, [Next]_vars PROVE IInv'
  OBVIOUS
<1>1. RegularStream(sent) /\ Good(buffer, sent) /\ sent.spsPps \in BOOLEAN
  BY DEF IInv, RegularStreams, RegularStream
<1>2. ASSUME NEW p \in sent.packets, Packet(p) PROVE IInv'
  <2>1. GoodReturn(sent, InsertPacket(buffer, p, sent.spsPps))
    BY <1>1, InsertPacketGood
  <2>2. QED
    BY <1>2, <2>1, ObserveKeeps DEF Packet
<1>3. ASSUME NEW n \in sent.padding, Padding(n) PROVE IInv'
  <2>1. GoodReturn(sent, InsertPadding(buffer, n, sent.spsPps))
    BY <1>1, InsertPaddingGood
  <2>2. QED
    BY <1>3, <2>1, ObserveKeeps DEF Padding
<1>4. ASSUME NEW n \in handed, ClearToFrame(n) PROVE IInv'
  <2>1. Good(ClearTo(buffer, n), sent)
    BY <1>1, ClearToGood DEF IInv
  <2>2. QED
    BY <1>4, <2>1 DEF ClearToFrame, IInv
<1>5. CASE Clear
  <2>1. Good(ClearInternal(buffer), sent)
    BY <1>1, ClearInternalIs DEF Good
  <2>2. QED
    BY <1>5, <2>1 DEF Clear, IInv
<1>6. CASE UNCHANGED vars
  BY <1>6 DEF vars, IInv
<1>7. QED
  BY <1>2, <1>3, <1>4, <1>5, <1>6 DEF Next

LEMMA IInvWhole == IInv => WholeFrames
<1> SUFFICES ASSUME IInv PROVE WholeFrames
  OBVIOUS
<1>1. \A f \in result : Whole(sent, f)
  BY DEF IInv
<1>2. SlotsHoldFrame
  BY <1>1 DEF SlotsHoldFrame, Whole
<1>3. \A f \in result : \A p \in f.packets :
          /\ p.ts = (CHOOSE q \in f.packets : TRUE).ts
          /\ IsGeneric(p.ts) => f.packets = SentFrame(p.ts)
  BY <1>1 DEF Whole, IsGeneric, SentFrame
<1>4. QED
  BY <1>2, <1>3 DEF WholeFrames

\* Whatever is lost, repeated or reordered, a frame that is handed out has the packets
\* of its numbers and of one timestamp, and all the sender sent with it where the start
\* of frames is marked: no packet of an earlier lap of the buffer is taken for one of it.
THEOREM FramesAreWhole == ASSUME RegularStreams PROVE Spec => []WholeFrames
<1>1. Init => IInv
  BY InitIInv
<1>2. IInv /\ [Next]_vars => IInv'
  BY NextIInv
<1>3. QED
  BY <1>1, <1>2, IInvWhole, PTL DEF Spec

-------------------------------------------------------------------------------
(* CompleteFrameLeaves: what continues a frame is marked, and what ends one is not *)

Pending(b, q) == PotentialNewFrame(b, q.seq) /\ q.seq \notin b.continuous
AllMarked(b) == \A q \in b.stored : ~Pending(b, q)
NoneEnds(b, s) ==
    \A p \in b.stored : p.last /\ StartIsMarked(FrameOf(s, p.ts)) => p.seq \notin b.continuous
MarkedOK(b, s) == AllMarked(b) /\ NoneEnds(b, s) /\ b.padding \subseteq s.padding

LEMMA PotentialIs ==
  ASSUME NEW s, RegularStream(s), NEW b, SlotsOK(b, s), NEW q \in b.stored
  PROVE  PotentialNewFrame(b, q.seq) <=> q.first \/ \E r \in b.stored : Follows(b, r, q)
<1>1. \A p \in b.stored : p.seq = q.seq => p = q
  BY DEF SlotsOK
<1>2. QED
  BY <1>1 DEF PotentialNewFrame, Follows

LEMMA AfterLast ==
  ASSUME NEW s, RegularStream(s), NEW p \in s.packets, NEW q \in s.packets, q.ts = p.ts,
         Pos(s, q.seq) = Pos(s, p.seq) + 1
  PROVE  ~p.last
<1>1. PICK e \in Nat, l \in 1 .. StartBufferSize : FrameAt(s, FrameOf(s, p.ts), e, l)
  BY FrameIs
<1>2. p \in FrameOf(s, p.ts) /\ q \in FrameOf(s, p.ts)
  BY DEF FrameOf
<1>3. Pos(s, q.seq) \in e - l + 1 .. e /\ (p.last <=> Pos(s, p.seq) = e)
  BY <1>1, <1>2 DEF FrameAt
<1>4. QED
  BY <1>1, <1>3

\* Marking a packet makes the next one of its frame pending, if it was itself.
LEMMA MarkPending ==
  ASSUME NEW s, RegularStream(s), NEW b \in Buffers(s), SlotsOK(b, s), NEW p \in b.stored,
         PotentialNewFrame(b, p.seq), NEW q \in b.stored, Pending(Mark(b, p.seq), q)
  PROVE  /\ q.seq # p.seq
         /\ \/ Pending(b, q)
            \/ /\ Pending(b, p) /\ ~p.last /\ q.ts = p.ts
               /\ Pos(s, q.seq) = Pos(s, p.seq) + 1 /\ q.seq = Succ(p.seq)
<1> DEFINE c == Mark(b, p.seq)
<1>1. p \in s.packets /\ q \in s.packets /\ p.seq \in SeqNum /\ b.stored \subseteq s.packets
  BY PacketIs DEF SlotsOK
<1>2. SlotsOK(c, s) /\ c.stored = b.stored /\ c.continuous = b.continuous \cup {p.seq}
  BY <1>1, MarkOK, MarkIs
<1> HIDE DEF c
<1>3. PotentialNewFrame(c, q.seq) /\ q.seq \notin c.continuous
  BY DEF Pending, c
<1>4. q.seq # p.seq /\ q.seq \notin b.continuous
  BY <1>2, <1>3
<1>5. CASE q.first \/ \E r \in b.stored : Follows(b, r, q)
  BY <1>4, <1>5, PotentialIs DEF Pending
<1>6. CASE ~(q.first \/ \E r \in b.stored : Follows(b, r, q))
  <2>1. PICK r \in b.stored : Follows(c, r, q)
    BY <1>2, <1>3, <1>6, PotentialIs
  <2>2. /\ r.seq = Back(q.seq, 1) /\ r.ts = q.ts
        /\ r.seq = p.seq /\ r.seq \notin b.continuous
    BY <1>2, <1>6, <2>1 DEF Follows
  <2>3. r = p
    BY <2>2 DEF SlotsOK
  <2>4. Pending(b, p)
    BY <2>2, <2>3 DEF Pending
  <2>5. Pos(s, p.seq) = Pos(s, q.seq) - 1
    BY <1>1, <2>2, <2>3, PrevPos
  <2>6. Pos(s, p.seq) \in Nat /\ Pos(s, q.seq) \in Nat /\ InWindow(s, q.seq)
    BY <1>1, PacketIs
  <2>7. Pos(s, q.seq) = Pos(s, p.seq) + 1
    BY <2>5, <2>6
  <2>8. ~p.last
    BY <1>1, <2>2, <2>3, <2>7, AfterLast
  <2>9. InWindow(s, Succ(p.seq)) /\ Pos(s, Succ(p.seq)) = Pos(s, p.seq) + 1
    BY <1>1, PacketIs, NumberIs
  <2>10. q.seq = Succ(p.seq)
    BY <2>6, <2>7, <2>9, WindowIs
  <2>11. QED
    BY <1>4, <2>2, <2>3, <2>4, <2>7, <2>8, <2>10
<1>7. QED
  BY <1>5, <1>6

\* After i rounds, only the packet i after the first one looked at may be pending.
PendingAfter(s, start, w, i) ==
    \A q \in w.b.stored : Pending(w.b, q) =>
        /\ ~w.ended /\ q.seq = w.seq
        /\ \E p \in s.packets : p.seq = start /\ q.ts = p.ts /\ Pos(s, q.seq) = Pos(s, p.seq) + i

LEMMA StepPending ==
  ASSUME NEW s, RegularStream(s), NEW b, NEW w, GoodWalk(s, b, w), NoneEnds(w.b, s),
         b.padding \subseteq s.padding, NEW start, NEW spsPps \in BOOLEAN,
         NEW i \in Nat, PendingAfter(s, start, w, i)
  PROVE  LET v == FindStep(w, start, spsPps)
         IN NoneEnds(v.b, s) /\ PendingAfter(s, start, v, i + 1)
<1> DEFINE v == FindStep(w, start, spsPps)
           c == Mark(w.b, w.seq)
<1>1. /\ w \in Walks(s) /\ SlotsOK(w.b, s) /\ w.b \in Buffers(s) /\ w.seq \in SeqNum
      /\ w.b.padding \subseteq s.padding /\ w.b.stored \subseteq s.packets
  BY DEF GoodWalk, Walks, Derived, SlotsOK
<1>2. c.stored = w.b.stored /\ c.continuous = w.b.continuous \cup {w.seq} /\ c \in Buffers(s)
  BY <1>1, MarkIs
<1>3. \A q \in w.b.stored : Pending(w.b, q) => q.seq = w.seq /\ ~w.ended
  BY DEF PendingAfter
\* A round that looks no further leaves nothing pending.
<1>4. ASSUME v.b = w.b, \A q \in w.b.stored : q.seq = w.seq /\ ~w.ended => ~Pending(w.b, q)
      PROVE  NoneEnds(v.b, s) /\ PendingAfter(s, start, v, i + 1)
  BY <1>3, <1>4 DEF PendingAfter
<1>5. CASE Ended(w, v)
  <2>1. v.b = w.b /\ w.ended
    BY <1>5 DEF Ended
  <2>2. QED
    BY <1>4, <2>1
<1>6. CASE Skipped(w, v)
  <2>1. v.b = w.b /\ w.seq \in s.padding
    BY <1>1, <1>6 DEF Skipped, Walks
  <2>2. \A q \in w.b.stored : q.seq # w.seq
    BY <1>1, <2>1, PacketIs
  <2>3. QED
    BY <1>4, <2>1, <2>2
<1>7. CASE Stopped(w, v)
  <2>1. v.b = w.b /\ ~PotentialNewFrame(w.b, w.seq)
    BY <1>1, <1>7 DEF Stopped, Walks
  <2>2. QED
    BY <1>4, <2>1 DEF Pending
\* What a marked packet leaves pending.
<1>8. ASSUME NEW p \in w.b.stored, Marks(w, p), NEW q \in w.b.stored, Pending(c, q)
      PROVE  /\ q.seq = Succ(w.seq) /\ ~p.last
             /\ \E r \in s.packets : /\ r.seq = start /\ q.ts = r.ts
                                     /\ Pos(s, q.seq) = Pos(s, r.seq) + (i + 1)
  <2>1. p.seq = w.seq /\ PotentialNewFrame(w.b, p.seq)
    BY <1>8 DEF Marks
  <2>2. /\ q.seq # p.seq
        /\ \/ Pending(w.b, q)
           \/ /\ Pending(w.b, p) /\ ~p.last /\ q.ts = p.ts
              /\ Pos(s, q.seq) = Pos(s, p.seq) + 1 /\ q.seq = Succ(p.seq)
    BY <1>1, <1>8, <2>1, MarkPending
  <2>3. /\ Pending(w.b, p) /\ ~p.last /\ q.ts = p.ts
        /\ Pos(s, q.seq) = Pos(s, p.seq) + 1 /\ q.seq = Succ(p.seq)
    BY <1>3, <2>1, <2>2
  <2>4. PICK r \in s.packets : /\ r.seq = start /\ p.ts = r.ts
                               /\ Pos(s, p.seq) = Pos(s, r.seq) + i
    BY <2>3 DEF PendingAfter
  <2>5. Pos(s, r.seq) \in Nat
    BY <2>4, PacketIs
  <2>6. Pos(s, q.seq) = Pos(s, r.seq) + (i + 1)
    BY <2>3, <2>4, <2>5
  <2>7. QED
    BY <2>1, <2>3, <2>4, <2>6
<1> HIDE DEF c
<1>9. ASSUME NEW p \in w.b.stored, Continued(w, v, p)
      PROVE  NoneEnds(v.b, s) /\ PendingAfter(s, start, v, i + 1)
  <2>1. v.b = c /\ v.seq = Succ(w.seq) /\ ~v.ended /\ Marks(w, p) /\ ~p.last /\ p.seq = w.seq
    BY <1>1, <1>2, <1>9 DEF Continued, Walks, Marks, c
  <2>2. NoneEnds(c, s)
    <3>1. ASSUME NEW q \in c.stored, q.last, StartIsMarked(FrameOf(s, q.ts))
          PROVE  q.seq \notin c.continuous
      <4>1. q.seq \notin w.b.continuous
        BY <1>2, <3>1 DEF NoneEnds
      <4>2. q.seq # w.seq
        BY <1>1, <1>2, <2>1, <3>1 DEF SlotsOK
      <4>3. QED
        BY <1>2, <4>1, <4>2
    <3>2. QED
      BY <3>1 DEF NoneEnds
  <2>3. QED
    BY <1>2, <1>8, <2>1, <2>2 DEF PendingAfter
<1>10. ASSUME NEW p \in w.b.stored, NEW f \in Frames(s), EndsAt(c, s, p, f),
              Waited(w, v, p, f)
       PROVE  NoneEnds(v.b, s) /\ PendingAfter(s, start, v, i + 1)
  <2>1. v.b = c /\ Marks(w, p) /\ p.last /\ p.seq = w.seq /\ f.h264
    BY <1>1, <1>2, <1>10 DEF Waited, Walks, Marks, c
  <2>2. ~StartIsMarked(FrameOf(s, p.ts))
    BY <1>10, <2>1 DEF EndsAt
  <2>3. NoneEnds(c, s)
    <3>1. ASSUME NEW q \in c.stored, q.last, StartIsMarked(FrameOf(s, q.ts))
          PROVE  q.seq \notin c.continuous
      <4>1. q.seq \notin w.b.continuous
        BY <1>2, <3>1 DEF NoneEnds
      <4>2. q # p
        BY <2>2, <3>1
      <4>3. q.seq # w.seq
        BY <1>1, <1>2, <2>1, <4>2 DEF SlotsOK
      <4>4. QED
        BY <1>2, <4>1, <4>3
    <3>2. QED
      BY <3>1 DEF NoneEnds
  <2>4. QED
    BY <1>2, <1>8, <2>1, <2>3 DEF PendingAfter
<1>11. ASSUME NEW p \in w.b.stored, NEW f \in Frames(s), EndsAt(c, s, p, f),
              HandedOut(w, v, p, f, start)
       PROVE  NoneEnds(v.b, s) /\ PendingAfter(s, start, v, i + 1)
  <2> DEFINE h == HandOut(c, f, start)
             gone == {q.seq : q \in f.packets}
  <2>1. h.stored = c.stored \ f.packets /\ h.continuous = c.continuous \ gone
    BY <1>2, HandOutIs
  <2> HIDE DEF h
  <2>2. v.b = h /\ Marks(w, p) /\ p.last /\ p.seq = w.seq
    <3>1. v = [w EXCEPT !.b = h, !.seq = Succ(@), !.out = @ \cup {f}]
      BY <1>11 DEF HandedOut, c, h
    <3>2. v.b = h
      BY <1>1, <3>1 DEF Walks
    <3>3. QED
      BY <1>11, <3>2 DEF HandedOut, Marks
  <2>3. f.packets \subseteq c.stored
    BY <1>11 DEF EndsAt
  <2>4. p.seq \in gone
    <3>1. f.packets = {q \in c.stored : q.ts = p.ts /\ Pos(s, q.seq) >= Pos(s, f.from)}
          /\ Pos(s, f.from) <= Pos(s, p.seq) /\ InWindow(s, f.from)
      BY <1>11 DEF EndsAt
    <3>2. Pos(s, p.seq) \in Nat /\ Pos(s, f.from) \in Nat
      BY <1>1, <3>1, PacketIs, WindowIs
    <3>3. p \in f.packets
      BY <1>2, <3>1, <3>2
    <3>4. QED
      BY <3>3
  <2>5. NoneEnds(h, s)
    <3>1. ASSUME NEW q \in h.stored, q.last, StartIsMarked(FrameOf(s, q.ts))
          PROVE  q.seq \notin h.continuous
      <4>1. q.seq \notin w.b.continuous
        BY <1>2, <2>1, <3>1 DEF NoneEnds
      <4>2. QED
        BY <1>2, <2>1, <2>2, <2>4, <4>1
    <3>2. QED
      BY <3>1 DEF NoneEnds
  <2>6. ASSUME NEW q \in h.stored PROVE ~Pending(h, q)
    <3>1. q \in w.b.stored
      BY <1>2, <2>1
    <3>2. q.seq \notin gone
      BY <1>1, <1>2, <2>1, <2>3 DEF RegularStream
    <3>3. Pending(h, q) => Pending(c, q)
      BY <2>1, <3>2 DEF Pending, PotentialNewFrame
    <3>4. ~Pending(c, q)
      BY <1>8, <2>2, <3>1
    <3>5. QED
      BY <3>3, <3>4
  <2>7. QED
    BY <2>2, <2>5, <2>6 DEF PendingAfter
<1>12. \/ Ended(w, v) \/ Skipped(w, v) \/ Stopped(w, v)
       \/ \E p \in w.b.stored :
            \/ Continued(w, v, p)
            \/ \E f \in Frames(s) : /\ EndsAt(c, s, p, f)
                                    /\ Waited(w, v, p, f) \/ HandedOut(w, v, p, f, start)
  <2> HIDE DEF v
  <2>1. QED
    BY <1>1, StepCases DEF c, v
<1> HIDE DEF v
<1>13. QED
  BY <1>5, <1>6, <1>7, <1>9, <1>10, <1>11, <1>12 DEF v

LEMMA FoundMarked ==
  ASSUME NEW s, RegularStream(s), NEW b \in Buffers(s), SlotsOK(b, s), NoneEnds(b, s),
         b.padding \subseteq s.padding, NEW start \in SeqNum, NEW spsPps \in BOOLEAN,
         \A q \in b.stored : Pending(b, q) => q.seq = start
  PROVE  MarkedOK(FindFrames(b, start, spsPps).b, s)
<1> DEFINE N == b.size
           W == {w \in Walks(s) : GoodWalk(s, b, w)}
<1>1. Begin(b, start) \in W
  BY DEF Begin, GoodWalk, Walks, Derived
<1>2. \A w \in W : GoodWalk(s, b, w) /\ FindStep(w, start, spsPps) \in W
  <2>1. \A w \in W : GoodWalk(s, b, FindStep(w, start, spsPps))
    BY StepKeeps
  <2>2. QED
    BY <2>1 DEF GoodWalk
<1>3. N \in Nat /\ N > 0 /\ StartBufferSize \in Nat /\ StartBufferSize <= N
  BY SizeIs
<1> HIDE DEF W
<1>4. PICK walk : IsWalk(walk, b, start, spsPps, W)
  BY <1>1, <1>2, <1>3, WalkExists
<1>5. /\ walk[0] = Begin(b, start) /\ FindFrames(b, start, spsPps) = walk[N]
      /\ \A i \in 0 .. N : walk[i] \in W
      /\ \A i \in 1 .. N : walk[i] = FindStep(walk[i - 1], start, spsPps)
  BY <1>4 DEF IsWalk
<1> DEFINE Holds(i) == NoneEnds(walk[i].b, s) /\ PendingAfter(s, start, walk[i], i)
           T == {i \in 0 .. N : Holds(i)}
<1>6. 0 \in T
  <2>1. walk[0].b = b /\ walk[0].seq = start /\ walk[0].ended = FALSE
    BY <1>5 DEF Begin
  <2>2. ASSUME NEW q \in b.stored, Pending(b, q)
        PROVE  \E p \in s.packets : p.seq = start /\ q.ts = p.ts
                                    /\ Pos(s, q.seq) = Pos(s, p.seq) + 0
    <3>1. q \in s.packets
      BY DEF SlotsOK
    <3>2. Pos(s, q.seq) \in Nat
      BY <3>1, PacketIs
    <3>3. QED
      BY <2>2, <3>1, <3>2
  <2>3. PendingAfter(s, start, walk[0], 0)
    BY <2>1, <2>2 DEF PendingAfter
  <2>4. 0 \in 0 .. N
    BY <1>3
  <2>5. QED
    BY <2>1, <2>3, <2>4
<1>7. ASSUME NEW i \in 1 .. N, i - 1 \in T PROVE i \in T
  <2>1. i - 1 \in Nat /\ i - 1 \in 0 .. N /\ i \in 0 .. N /\ (i - 1) + 1 = i
    BY <1>3
  <2>2. GoodWalk(s, b, walk[i - 1]) /\ Holds(i - 1)
    BY <1>2, <1>5, <1>7, <2>1
  <2> DEFINE j == i - 1
             w == walk[j]
  <2>3. j \in Nat /\ GoodWalk(s, b, w) /\ NoneEnds(w.b, s) /\ PendingAfter(s, start, w, j)
    BY <2>1, <2>2
  <2> HIDE DEF j, w
  <2>4. /\ NoneEnds(FindStep(w, start, spsPps).b, s)
        /\ PendingAfter(s, start, FindStep(w, start, spsPps), j + 1)
    BY <2>3, StepPending
  <2>5. walk[i] = FindStep(w, start, spsPps) /\ j + 1 = i
    BY <1>5, <2>1 DEF w, j
  <2>6. Holds(i)
    BY <2>4, <2>5
  <2>7. QED
    BY <2>1, <2>6
<1> HIDE DEF T
<1>8. 0 .. N \subseteq T
  <2> HIDE DEF N
  <2>1. QED
    BY <1>3, <1>6, <1>7, InductionUpTo
<1>9. Holds(N) /\ GoodWalk(s, b, walk[N])
  <2>1. N \in 0 .. N
    BY <1>3
  <2>2. QED
    BY <1>2, <1>5, <1>8, <2>1 DEF T
<1> DEFINE c == walk[N].b
<1>10. SlotsOK(c, s) /\ c.padding \subseteq s.padding /\ NoneEnds(c, s)
       /\ PendingAfter(s, start, walk[N], N)
  BY <1>9 DEF GoodWalk, Derived
<1>11. ASSUME NEW q \in c.stored, Pending(c, q) PROVE FALSE
  <2>1. PICK p \in s.packets : /\ p.seq = start /\ q.ts = p.ts
                               /\ Pos(s, q.seq) = Pos(s, p.seq) + N
    BY <1>10, <1>11 DEF PendingAfter
  <2>2. q \in s.packets
    BY <1>10 DEF SlotsOK
  <2>3. PICK e \in Nat, l \in 1 .. StartBufferSize : FrameAt(s, FrameOf(s, p.ts), e, l)
    BY FrameIs
  <2>4. p \in FrameOf(s, p.ts) /\ q \in FrameOf(s, p.ts)
    BY <2>1, <2>2 DEF FrameOf
  <2>5. Pos(s, p.seq) \in e - l + 1 .. e /\ Pos(s, q.seq) \in e - l + 1 .. e
    BY <2>3, <2>4 DEF FrameAt
  <2> HIDE DEF N
  <2>6. QED
    BY <1>3, <2>1, <2>3, <2>5
<1>12. QED
  BY <1>5, <1>10, <1>11 DEF MarkedOK, AllMarked

\* Fewer packets, and no more of them continuous, leave no more pending.
LEMMA FewerMarked ==
  ASSUME NEW s, RegularStream(s), NEW b, SlotsOK(b, s), MarkedOK(b, s), NEW c, NEW gone,
         gone \subseteq b.stored, c.stored = b.stored \ gone,
         c.continuous = b.continuous \ {p.seq : p \in gone}, c.padding \subseteq b.padding
  PROVE  MarkedOK(c, s)
<1>1. ASSUME NEW q \in c.stored, Pending(c, q) PROVE FALSE
  <2>1. q \in b.stored /\ PotentialNewFrame(b, q.seq)
    BY <1>1 DEF Pending, PotentialNewFrame
  <2>2. q.seq \in b.continuous
    BY <2>1 DEF MarkedOK, AllMarked, Pending
  <2>3. \A p \in gone : p.seq # q.seq
    BY <2>1 DEF SlotsOK
  <2>4. QED
    BY <1>1, <2>2, <2>3 DEF Pending
<1>2. NoneEnds(c, s)
  BY DEF MarkedOK, NoneEnds
<1>3. QED
  BY <1>1, <1>2 DEF MarkedOK, AllMarked

LEMMA EmptyMarked ==
  ASSUME NEW s, NEW b, b.stored = {}, b.padding = {}
  PROVE  MarkedOK(b, s)
  BY DEF MarkedOK, AllMarked, NoneEnds

LEMMA SameMarked ==
  ASSUME NEW s, NEW b, MarkedOK(b, s), NEW c, c.stored = b.stored,
         c.continuous = b.continuous, c.padding = b.padding
  PROVE  MarkedOK(c, s)
  BY DEF MarkedOK, AllMarked, NoneEnds, Pending, PotentialNewFrame

LEMMA InsertPacketMarked ==
  ASSUME NEW s, RegularStream(s), NEW b, Good(b, s), MarkedOK(b, s), NEW p \in s.packets,
         NEW spsPps \in BOOLEAN
  PROVE  MarkedOK(InsertPacket(b, p, spsPps).b, s)
<1> DEFINE r == InsertPacket(b, p, spsPps)
           b1 == Admit(b, p.seq)
           b2 == Expand(b1, p.seq)
           b3 == Place(b2, p)
           w == FindFrames(b3, p.seq, spsPps)
<1>1. InWindow(s, p.seq) /\ p.seq \in SeqNum
  BY PacketIs
<1>2. Good(b1, s) /\ b1.received /\ Pos(s, b1.first) <= Pos(s, p.seq)
  BY <1>1, AdmitIs
<1>3. MarkedOK(b1, s)
  <2> HIDE DEF b1
  <2>1. \/ b1.stored = {} /\ b1.padding = {}
        \/ b1.stored = b.stored /\ b1.continuous = b.continuous /\ b1.padding = b.padding
    BY <1>1, AdmitIs DEF b1
  <2>2. QED
    BY <2>1, EmptyMarked, SameMarked
<1> HIDE DEF b1
<1>4. /\ Good(b2, s) /\ b2.received /\ Pos(s, b2.first) <= Pos(s, p.seq)
      /\ b2.stored = b1.stored /\ b2.continuous = b1.continuous /\ b2.padding = b1.padding
  BY <1>2, ExpandIs
<1> HIDE DEF b2
<1>5. MarkedOK(b2, s)
  BY <1>3, <1>4, SameMarked
<1>6. CASE Kept(b, p, r)
  BY <1>6 DEF Returns, Kept
<1>7. CASE Repeated(b, p, r)
  BY <1>3, <1>7 DEF Returns, Repeated, b1
<1>8. CASE Filled(b, p, r)
  <2>1. r.b = ClearInternal(b2)
    BY <1>8 DEF Filled, Returns, b1, b2
  <2>2. r.b.stored = {} /\ r.b.padding = {}
    BY <1>4, <2>1, ClearInternalIs DEF Good
  <2> HIDE DEF r
  <2>3. QED
    BY <2>2, EmptyMarked DEF r
<1>9. CASE Inserted(b, p, spsPps, r)
  <2>1. Slot(b2, p.seq) = {} /\ r.b = w.b
    BY <1>9 DEF Inserted, Returns, b1, b2
  <2>2. /\ Good(b3, s) /\ b3.stored = b2.stored \cup {p} /\ b3.continuous = b2.continuous
        /\ b3.padding \subseteq b2.padding
    BY <1>4, <2>1, PlaceIs
  <2> HIDE DEF b3
  <2>3. p.seq \notin b2.continuous
    <3>1. \A q \in b2.stored : q.seq # p.seq
      BY <2>1 DEF Slot
    <3>2. QED
      BY <1>4, <3>1 DEF Good, SlotsOK
  <2>4. NoneEnds(b3, s) /\ b3.padding \subseteq s.padding
    BY <1>5, <2>2, <2>3 DEF NoneEnds, MarkedOK
  <2>5. ASSUME NEW q \in b3.stored, Pending(b3, q) PROVE q.seq = p.seq
    <3> SUFFICES ASSUME q \in b2.stored PROVE FALSE
      BY <2>2
    <3>1. SlotsOK(b3, s) /\ SlotsOK(b2, s)
      BY <1>4, <2>2 DEF Good
    <3>2. q.seq \notin b2.continuous /\ (q.first \/ \E t \in b3.stored : Follows(b3, t, q))
      BY <2>2, <2>5, <3>1, PotentialIs DEF Pending
    <3>3. \A t \in b3.stored : Follows(b3, t, q) => t \in b2.stored /\ Follows(b2, t, q)
      BY <2>2, <2>3 DEF Follows
    <3>4. Pending(b2, q)
      BY <3>1, <3>2, <3>3, PotentialIs DEF Pending
    <3>5. QED
      BY <1>5, <3>4 DEF MarkedOK, AllMarked
  <2>6. MarkedOK(w.b, s)
    BY <1>1, <2>2, <2>4, <2>5, FoundMarked DEF Good
  <2> HIDE DEF w, r
  <2>7. QED
    BY <2>1, <2>6 DEF r
<1>10. QED
  BY <1>6, <1>7, <1>8, <1>9, InsertCases

LEMMA InsertPaddingMarked ==
  ASSUME NEW s, RegularStream(s), NEW b, Good(b, s), MarkedOK(b, s), NEW n \in s.padding,
         NEW spsPps \in BOOLEAN
  PROVE  MarkedOK(InsertPadding(b, n, spsPps).b, s)
<1> DEFINE r == InsertPadding(b, n, spsPps)
           b1 == UpdateMissingPackets(b, n)
           b2 == [b1 EXCEPT !.padding = @ \cup {n}]
           w == FindFrames(b2, Succ(n), spsPps)
<1>1. n \in SeqNum /\ Succ(n) \in SeqNum
  BY NumberIs DEF NumbersOf
<1>2. b \in Buffers(s) /\ SlotsOK(b, s) /\ FromFirst(b, s)
  BY DEF Good
<1>3. /\ b1 \in Buffers(s)
      /\ b1.size = b.size /\ b1.stored = b.stored /\ b1.continuous = b.continuous
      /\ b1.first = b.first /\ b1.received = b.received /\ b1.padding = b.padding
  BY <1>1, <1>2, UpdateMissingIs
<1> HIDE DEF b1
<1>4. /\ b2 \in Buffers(s)
      /\ b2.size = b.size /\ b2.stored = b.stored /\ b2.continuous = b.continuous
      /\ b2.padding = b.padding \cup {n}
  BY <1>1, <1>3 DEF Buffers
<1>5. r = Returns(w.b, w.out, FALSE)
  <2> HIDE DEF w
  <2>1. QED
    BY DEF InsertPadding, w, b1
<1> HIDE DEF b2
<1>6. SlotsOK(b2, s)
  BY <1>2, <1>4 DEF SlotsOK, Follows
<1>7. /\ NoneEnds(b2, s) /\ b2.padding \subseteq s.padding
      /\ \A q \in b2.stored : ~Pending(b2, q)
  BY <1>4 DEF NoneEnds, MarkedOK, AllMarked, Pending, PotentialNewFrame
<1>8. MarkedOK(w.b, s)
  BY <1>1, <1>4, <1>6, <1>7, FoundMarked
<1> HIDE DEF w, r
<1>9. QED
  BY <1>5, <1>8 DEF Returns, r

LEMMA ClearToMarked ==
  ASSUME NEW s, RegularStream(s), NEW b, Good(b, s), MarkedOK(b, s), NEW n \in Ends(s)
  PROVE  MarkedOK(ClearTo(b, n), s)
<1> DEFINE c == ClearTo(b, n)
           gone == {p \in b.stored : Pos(s, p.seq) <= Pos(s, n)}
<1>1. \/ c = b
      \/ /\ c.stored = b.stored \ gone
         /\ c.continuous = b.continuous \ {p.seq : p \in gone}
         /\ c.padding \subseteq b.padding
  <2> HIDE DEF c, gone
  <2>1. QED
    BY ClearToIs DEF c, gone
<1>2. gone \subseteq b.stored /\ SlotsOK(b, s)
  BY DEF Good
<1> HIDE DEF c, gone
<1>3. QED
  BY <1>1, <1>2, FewerMarked DEF c

-------------------------------------------------------------------------------

MarkedInv == MarkedOK(buffer, sent)

LEMMA InitMarked == Init => MarkedInv
  BY EmptyIs, EmptyMarked DEF Init, MarkedInv

LEMMA NextMarked == ASSUME RegularStreams PROVE IInv /\ MarkedInv /\ [Next]_vars => MarkedInv'
<1> SUFFICES ASSUME IInv, MarkedInv, [Next]_vars PROVE MarkedInv'
  OBVIOUS
<1>1. RegularStream(sent) /\ Good(buffer, sent) /\ sent.spsPps \in BOOLEAN
      /\ MarkedOK(buffer, sent)
  BY DEF IInv, RegularStreams, RegularStream, MarkedInv
<1>2. ASSUME NEW p \in sent.packets, Packet(p) PROVE MarkedInv'
  <2>1. MarkedOK(InsertPacket(buffer, p, sent.spsPps).b, sent)
    BY <1>1, InsertPacketMarked
  <2>2. buffer' = InsertPacket(buffer, p, sent.spsPps).b /\ sent' = sent
    BY <1>2 DEF Packet, Observe
  <2>3. QED
    BY <2>1, <2>2 DEF MarkedInv
<1>3. ASSUME NEW n \in sent.padding, Padding(n) PROVE MarkedInv'
  <2>1. MarkedOK(InsertPadding(buffer, n, sent.spsPps).b, sent)
    BY <1>1, InsertPaddingMarked
  <2>2. buffer' = InsertPadding(buffer, n, sent.spsPps).b /\ sent' = sent
    BY <1>3 DEF Padding, Observe
  <2>3. QED
    BY <2>1, <2>2 DEF MarkedInv
<1>4. ASSUME NEW n \in handed, ClearToFrame(n) PROVE MarkedInv'
  <2>1. MarkedOK(ClearTo(buffer, n), sent)
    BY <1>1, ClearToMarked DEF IInv
  <2>2. QED
    BY <1>4, <2>1 DEF ClearToFrame, MarkedInv
<1>5. CASE Clear
  <2>1. MarkedOK(ClearInternal(buffer), sent)
    BY <1>1, ClearInternalIs, EmptyMarked DEF Good
  <2>2. QED
    BY <1>5, <2>1 DEF Clear, MarkedInv
<1>6. CASE UNCHANGED vars
  BY <1>6 DEF vars, MarkedInv
<1>7. QED
  BY <1>2, <1>3, <1>4, <1>5, <1>6 DEF Next

\* A frame that is all there is continuous up to its last packet.
LEMMA MarkedLeaves == ASSUME RegularStreams PROVE IInv /\ MarkedInv => CompleteFrameLeaves
<1> SUFFICES ASSUME IInv, MarkedInv, NEW p \in buffer.stored, IsGeneric(p.ts),
                    SentFrame(p.ts) \subseteq buffer.stored
             PROVE  FALSE
  BY DEF CompleteFrameLeaves
<1> DEFINE frame == FrameOf(sent, p.ts)
<1>1. /\ RegularStream(sent) /\ SlotsOK(buffer, sent) /\ AllMarked(buffer)
      /\ NoneEnds(buffer, sent) /\ p \in sent.packets /\ frame \subseteq buffer.stored
      /\ StartIsMarked(frame)
  BY DEF IInv, RegularStreams, Good, MarkedInv, MarkedOK, SlotsOK, IsGeneric, SentFrame
<1>2. PICK e \in Nat, l \in 1 .. StartBufferSize : FrameAt(sent, frame, e, l)
  BY <1>1, FrameIs
<1> DEFINE N == l - 1
           Has(i) == \E q \in frame : Pos(sent, q.seq) = e - l + 1 + i
                                      /\ q.seq \in buffer.continuous
           T == {i \in 0 .. N : Has(i)}
<1>3. N \in Nat /\ StartBufferSize \in Nat
  BY <1>1, Sizes
<1>4. \A i \in e - l + 1 .. e : \E q \in frame : Pos(sent, q.seq) = i
  BY <1>2 DEF FrameAt
<1>5. \A q \in frame : q \in buffer.stored /\ q \in sent.packets /\ q.ts = p.ts
  BY <1>1 DEF FrameOf
<1>6. \A q \in buffer.stored : PotentialNewFrame(buffer, q.seq) => q.seq \in buffer.continuous
  BY <1>1 DEF AllMarked, Pending
<1>7. 0 \in T
  <2>1. e - l + 1 \in e - l + 1 .. e /\ e - l + 1 + 0 = e - l + 1 /\ 0 \in 0 .. N
    BY <1>3
  <2>2. PICK q \in frame : Pos(sent, q.seq) = e - l + 1
    BY <1>4, <2>1
  <2>3. q.first
    BY <1>1, <1>2, <2>2 DEF FrameAt
  <2>4. q.seq \in buffer.continuous
    BY <1>1, <1>5, <1>6, <2>3, PotentialIs
  <2>5. QED
    BY <2>1, <2>2, <2>4
<1>8. ASSUME NEW i \in 1 .. N, i - 1 \in T PROVE i \in T
  <2>1. e - l + 1 + i \in e - l + 1 .. e /\ i \in 0 .. N
    BY <1>3
  <2>2. PICK q \in frame : Pos(sent, q.seq) = e - l + 1 + i
    BY <1>4, <2>1
  <2>3. PICK r \in frame : Pos(sent, r.seq) = e - l + 1 + (i - 1) /\ r.seq \in buffer.continuous
    BY <1>8
  <2>4. Pos(sent, r.seq) = Pos(sent, q.seq) - 1
    BY <1>3, <2>2, <2>3
  <2>5. Follows(buffer, r, q)
    BY <1>1, <1>5, <2>3, <2>4, PrevPos DEF Follows
  <2>6. q.seq \in buffer.continuous
    BY <1>1, <1>5, <1>6, <2>5, PotentialIs
  <2>7. QED
    BY <2>1, <2>2, <2>6
<1>9. 0 .. N \subseteq T
  <2> HIDE DEF N, T
  <2>1. QED
    BY <1>3, <1>7, <1>8, InductionUpTo
<1>10. Has(N)
  <2>1. N \in 0 .. N
    BY <1>3
  <2>2. QED
    BY <1>9, <2>1
<1>11. PICK q \in frame : Pos(sent, q.seq) = e - l + 1 + N /\ q.seq \in buffer.continuous
  BY <1>10
<1>12. Pos(sent, q.seq) = e
  BY <1>3, <1>11
<1>13. q.last
  BY <1>2, <1>12 DEF FrameAt
<1>14. QED
  BY <1>1, <1>5, <1>11, <1>13 DEF NoneEnds

\* A frame whose start is marked leaves with the packet that completes it, whichever of
\* its packets that is, through overflows, jumps, padding and ClearTo.
THEOREM CompleteFramesLeave == ASSUME RegularStreams PROVE Spec => []CompleteFrameLeaves
<1>1. Init => IInv /\ MarkedInv
  BY InitIInv, InitMarked
<1>2. IInv /\ MarkedInv /\ [Next]_vars => IInv' /\ MarkedInv'
  BY NextIInv, NextMarked
<1>3. IInv /\ MarkedInv => CompleteFrameLeaves
  BY MarkedLeaves
<1>4. QED
  BY <1>1, <1>2, <1>3, PTL DEF Spec

-------------------------------------------------------------------------------
(* DeltaWaitsForGaps: what is missing is tracked *)

LEMMA NewestIs ==
  ASSUME NEW s, RegularStream(s), NEW S, S # {}, \A n \in S : InWindow(s, n)
  PROVE  Newest(S) \in S /\ \A n \in S : Pos(s, n) <= Pos(s, Newest(S))
<1> DEFINE Left == {SeqMod - Pos(s, n) : n \in S}
<1>1. SeqMod \in Nat /\ \A n \in S : Pos(s, n) \in 0 .. SeqMod - 1
  BY Sizes, PosIs DEF InWindow
<1>2. \A n \in S : SeqMod - Pos(s, n) \in Nat /\ Pos(s, n) \in Int
  BY <1>1
<1>3. Left \in SUBSET Nat /\ Left # {}
  BY <1>2
<1>4. LeastOf(Left) \in Left /\ \A x \in Left : LeastOf(Left) <= x
  <2> HIDE DEF Left
  <2>1. QED
    BY <1>3, LeastExists
<1>5. PICK m \in S : LeastOf(Left) = SeqMod - Pos(s, m)
  BY <1>4
<1>6. \A n \in S : SeqMod - Pos(s, m) <= SeqMod - Pos(s, n)
  BY <1>4, <1>5
<1>7. \A n \in S : Pos(s, n) <= Pos(s, m)
  BY <1>1, <1>2, <1>6
<1>8. \A a, b \in S : AheadOf(a, b) <=> Pos(s, a) > Pos(s, b)
  BY WindowIs
<1>9. \A n \in S : ~AheadOf(n, m)
  BY <1>2, <1>7, <1>8
<1>10. Newest(S) \in S /\ \A n \in S : ~AheadOf(n, Newest(S))
  BY <1>9 DEF Newest
<1>11. QED
  BY <1>2, <1>8, <1>10

\* What comes after the last packet of a frame is after all of its packets, and none of
\* its own frame is before it.
LEMMA FramesApart ==
  ASSUME NEW s, RegularStream(s), NEW p \in s.packets, p.last, NEW q \in s.packets,
         NEW r \in s.packets, r.ts = q.ts, Pos(s, p.seq) < Pos(s, q.seq)
  PROVE  Pos(s, p.seq) < Pos(s, r.seq)
<1>1. PICK e \in Nat, l \in 1 .. StartBufferSize : FrameAt(s, FrameOf(s, q.ts), e, l)
  BY FrameIs
<1>2. q \in FrameOf(s, q.ts) /\ r \in FrameOf(s, q.ts)
  BY DEF FrameOf
<1>3. Pos(s, q.seq) \in e - l + 1 .. e /\ Pos(s, r.seq) \in e - l + 1 .. e
  BY <1>1, <1>2 DEF FrameAt
<1>4. Pos(s, p.seq) \in Nat
  BY PacketIs
<1> SUFFICES ASSUME Pos(s, r.seq) <= Pos(s, p.seq) PROVE FALSE
  BY <1>1, <1>3, <1>4
<1>5. Pos(s, p.seq) \in e - l + 1 .. e /\ Pos(s, p.seq) # e
  BY <1>1, <1>3, <1>4
<1>6. PICK t \in FrameOf(s, q.ts) : Pos(s, t.seq) = Pos(s, p.seq)
  BY <1>1, <1>5 DEF FrameAt
<1>7. t = p
  BY <1>6, PacketIs DEF FrameOf
<1>8. QED
  BY <1>1, <1>5, <1>6, <1>7 DEF FrameAt

Gaps(s, b) ==
    /\ b.newest \in NumbersOf(s) \cup {None}
    /\ b.newest = None => b.stored = {} /\ b.missing = {} /\ ~b.received /\ ~b.clearedTo
    /\ b.newest # None => \A p \in b.stored : Pos(s, p.seq) <= Pos(s, b.newest)
    /\ \A p \in b.stored : p.seq \notin b.missing
    /\ \A m \in b.missing \cap NumbersOf(s) : Pos(s, m) < Pos(s, b.newest)

Seen(s, b, all, from) ==
    /\ all \subseteq NumbersOf(s) /\ (all = {} <=> b.newest = None)
    /\ b.newest # None => b.newest \in all
    /\ \A p \in b.stored : p.seq \in all
    /\ all # {} => from \in all
    /\ all = {} => from = None

\* A number of the stream that is in between and is not forgiven is missing.
Tracks(s, b, all, from, to) ==
    \A p \in s.packets :
        /\ ~StartIsMarked(FrameOf(s, p.ts))
        /\ p.seq \notin all /\ from # None
        /\ Pos(s, from) <= Pos(s, p.seq)
        /\ Pos(s, p.seq) < Pos(s, b.newest)
        /\ Pos(s, p.seq) > Pos(s, b.newest) - MaxPaddingAge
        /\ to # None => Pos(s, p.seq) > Pos(s, to)
        => p.seq \in b.missing

LEMMA UpdateGaps ==
  ASSUME NEW s, RegularStream(s), NEW b \in Buffers(s), Gaps(s, b), b.stored \subseteq s.packets,
         NEW a \in Buffers(s), a.newest = b.newest, a.missing = b.missing,
         NEW n \in NumbersOf(s), NEW all, NEW from, NEW to,
         Seen(s, b, all, from), Tracks(s, b, all, from, to)
  PROVE  LET c == UpdateMissingPackets(a, n)
         IN  /\ c.newest \in {n, b.newest} /\ c.newest \in NumbersOf(s) /\ c.newest # None
             /\ Pos(s, n) <= Pos(s, c.newest)
             /\ b.newest # None => Pos(s, b.newest) <= Pos(s, c.newest)
             /\ n \notin c.missing /\ \A q \in b.stored : q.seq \notin c.missing
             /\ \A m \in c.missing \cap NumbersOf(s) : Pos(s, m) < Pos(s, c.newest)
             /\ Tracks(s, c, all \cup {n}, IF all = {} THEN n ELSE from, to)
<1> DEFINE A == MaxPaddingAge
           newest == IF a.newest = None THEN n ELSE a.newest
           old == Back(n, A)
           start == IF AheadOf(old, newest) THEN old ELSE newest
           more == {m \in a.missing : ~AheadOf(old, m)}
                          \cup {m \in SeqNum : AheadOf(m, start) /\ AheadOf(n, m)}
           c == UpdateMissingPackets(a, n)
           first == IF all = {} THEN n ELSE from
<1>1. c = IF AheadOf(n, newest) THEN [a EXCEPT !.newest = n, !.missing = more]
          ELSE [[a EXCEPT !.newest = newest] EXCEPT !.missing = @ \ {n}]
  BY DEF UpdateMissingPackets, FillGap
<1>2. \A m \in NumbersOf(s) : /\ m # None /\ m \in SeqNum /\ InWindow(s, m)
                              /\ Pos(s, m) \in Nat
  <2>1. \A m \in NumbersOf(s) : m \in SeqNum /\ InWindow(s, m) /\ Pos(s, m) \in Nat
    BY NumberIs
  <2>2. \A m \in SeqNum : m # None
    BY Sizes DEF SeqNum, None
  <2>3. QED
    BY <2>1, <2>2
<1>3. newest \in NumbersOf(s) /\ (b.newest # None => newest = b.newest)
  BY DEF Gaps
<1>4. \A m \in NumbersOf(s), k \in NumbersOf(s) : AheadOf(m, k) <=> Pos(s, m) > Pos(s, k)
  BY <1>2, WindowIs
<1>5. \A m \in NumbersOf(s) : /\ AheadOf(old, m) <=> Pos(s, n) - A > Pos(s, m)
                              /\ AheadOf(m, old) <=> Pos(s, m) > Pos(s, n) - A
  BY <1>2, AgeIs
<1>6. A \in Nat /\ A > 0
  BY Sizes
<1>7. \A p \in s.packets : p.seq \in NumbersOf(s)
  BY DEF NumbersOf
<1>8. \A q \in b.stored : q.seq \in NumbersOf(s) /\ b.newest # None
                          /\ Pos(s, q.seq) <= Pos(s, newest) /\ q.seq \notin b.missing
  BY <1>3, <1>7 DEF Gaps
<1>9. \A p \in s.packets : p.seq \notin all /\ b.newest # None => p.seq # newest
  BY <1>3 DEF Seen
<1> HIDE DEF newest, old, c, A
<1>10. CASE AheadOf(n, newest)
  <2>1. c.newest = n /\ c.missing = more
    BY <1>1, <1>10 DEF Buffers
  <2>2. Pos(s, newest) < Pos(s, n)
    BY <1>2, <1>3, <1>4, <1>10
  <2>3. b.newest # None
    BY <1>2, <1>3, <2>2 DEF newest
  <2>4. ~AheadOf(n, n)
    BY DEF AheadOf
  <2>5. \A m \in a.missing \cap NumbersOf(s) : Pos(s, m) < Pos(s, newest)
    BY <1>3, <2>3 DEF Gaps
  <2>6. \A m \in c.missing \cap NumbersOf(s) : Pos(s, m) < Pos(s, n)
    <3> SUFFICES ASSUME NEW m \in NumbersOf(s), m \in more PROVE Pos(s, m) < Pos(s, n)
      BY <2>1
    <3>1. CASE m \in a.missing
      <4>1. Pos(s, m) < Pos(s, newest)
        BY <2>5, <3>1
      <4>2. QED
        BY <1>2, <1>3, <2>2, <4>1
    <3>2. CASE AheadOf(n, m)
      BY <1>2, <1>4, <3>2
    <3>3. QED
      BY <3>1, <3>2
  <2>7. n \notin c.missing
    BY <1>2, <2>6
  <2>8. ASSUME NEW q \in b.stored PROVE q.seq \notin c.missing
    <3> DEFINE m == q.seq
    <3>1. m \in NumbersOf(s) /\ Pos(s, m) <= Pos(s, newest) /\ m \notin a.missing
      BY <1>8
    <3> SUFFICES ASSUME AheadOf(m, start), AheadOf(n, m) PROVE FALSE
      BY <2>1, <3>1
    <3> HIDE DEF m
    <3>2. CASE AheadOf(old, newest)
      <4>1. start = old
        BY <3>2
      <4>2. Pos(s, m) > Pos(s, n) - A /\ Pos(s, n) - A > Pos(s, newest)
        BY <1>3, <1>5, <3>1, <3>2, <4>1
      <4>3. QED
        BY <1>2, <1>3, <1>6, <3>1, <4>2
    <3>3. CASE ~AheadOf(old, newest)
      <4>1. start = newest
        BY <3>3
      <4>2. Pos(s, m) > Pos(s, newest)
        BY <1>3, <1>4, <3>1, <4>1
      <4>3. QED
        BY <1>2, <1>3, <3>1, <4>2
    <3>4. QED
      BY <3>2, <3>3
  <2>9. Tracks(s, c, all \cup {n}, first, to)
    <3> SUFFICES ASSUME NEW p \in s.packets, ~StartIsMarked(FrameOf(s, p.ts)),
                        p.seq \notin all, p.seq # n, Pos(s, first) <= Pos(s, p.seq),
                        Pos(s, p.seq) < Pos(s, n), Pos(s, p.seq) > Pos(s, n) - A,
                        to # None => Pos(s, p.seq) > Pos(s, to)
                 PROVE  p.seq \in more
      BY <2>1 DEF Tracks, A
    <3>1. p.seq \in NumbersOf(s) /\ p.seq \in SeqNum /\ Pos(s, p.seq) \in Nat
      BY <1>2, <1>7
    <3>2. /\ AheadOf(n, p.seq) /\ AheadOf(p.seq, old) /\ ~AheadOf(old, p.seq)
      <4>1. ~(Pos(s, n) - A > Pos(s, p.seq))
        BY <1>2, <1>6, <3>1
      <4>2. QED
        BY <1>4, <1>5, <3>1, <4>1
    <3>3. CASE Pos(s, p.seq) > Pos(s, newest)
      <4>1. AheadOf(p.seq, newest)
        BY <1>3, <1>4, <3>1, <3>3
      <4>2. QED
        BY <3>1, <3>2, <4>1
    <3>4. CASE Pos(s, p.seq) = Pos(s, newest)
      <4>1. p.seq = newest
        BY <1>2, <1>3, <3>1, <3>4, WindowIs
      <4>2. QED
        BY <1>9, <2>3, <4>1
    <3>5. CASE Pos(s, p.seq) < Pos(s, newest)
      <4>1. all # {} /\ first = from /\ from \in all /\ from # None
        <5>1. all # {}
          BY <2>3 DEF Seen
        <5>2. from \in all /\ from \in NumbersOf(s)
          BY <5>1 DEF Seen
        <5>3. QED
          BY <1>2, <5>1, <5>2
      <4>2. Pos(s, p.seq) > Pos(s, newest) - A
        BY <1>2, <1>3, <1>6, <2>2, <3>1
      <4>3. newest = b.newest
        BY <1>3, <2>3
      <4>4. p.seq \in b.missing
        BY <3>5, <4>1, <4>2, <4>3 DEF Tracks, A
      <4>5. QED
        BY <3>2, <4>4
    <3>6. Pos(s, newest) \in Nat
      BY <1>2, <1>3
    <3>7. QED
      BY <3>1, <3>3, <3>4, <3>5, <3>6
  <2>10. Pos(s, b.newest) <= Pos(s, n)
    <3>1. newest = b.newest
      BY <1>3, <2>3
    <3>2. QED
      BY <1>2, <1>3, <2>2, <3>1
  <2>11. n # None /\ Pos(s, n) <= Pos(s, n)
    BY <1>2
  <2> HIDE DEF more, first, start
  <2>12. QED
    BY <2>1, <2>6, <2>7, <2>8, <2>9, <2>10, <2>11 DEF first, c
<1>11. CASE ~AheadOf(n, newest)
  <2>1. c.newest = newest /\ c.missing = b.missing \ {n}
    BY <1>1, <1>11 DEF Buffers
  <2>2. Pos(s, n) <= Pos(s, newest) /\ newest # None
    <3>1. ~(Pos(s, n) > Pos(s, newest))
      BY <1>3, <1>4, <1>11
    <3>2. QED
      BY <1>2, <1>3, <3>1
  <2>3. \A m \in c.missing \cap NumbersOf(s) : Pos(s, m) < Pos(s, newest)
    <3>1. CASE b.newest = None
      <4>1. b.missing = {}
        BY <3>1 DEF Gaps
      <4>2. QED
        BY <2>1, <4>1
    <3>2. CASE b.newest # None
      BY <1>3, <2>1, <3>2 DEF Gaps
    <3>3. QED
      BY <3>1, <3>2
  <2>4. Tracks(s, c, all \cup {n}, first, to)
    <3> SUFFICES ASSUME NEW p \in s.packets, ~StartIsMarked(FrameOf(s, p.ts)),
                        p.seq \notin all, p.seq # n, Pos(s, first) <= Pos(s, p.seq),
                        Pos(s, p.seq) < Pos(s, newest), Pos(s, p.seq) > Pos(s, newest) - A,
                        to # None => Pos(s, p.seq) > Pos(s, to)
                 PROVE  p.seq \in b.missing
      BY <2>1 DEF Tracks, A
    <3>1. Pos(s, p.seq) \in Nat /\ Pos(s, n) \in Nat
      BY <1>2, <1>7
    <3>2. CASE b.newest = None
      <4>1. newest = n /\ all = {} /\ first = n
        BY <3>2 DEF newest, Seen, Gaps
      <4>2. QED
        BY <3>1, <4>1
    <3>3. CASE b.newest # None
      <4>1. all # {} /\ newest = b.newest
        BY <1>3, <3>3 DEF Seen
      <4>2. first = from /\ from \in NumbersOf(s)
        BY <4>1 DEF Seen
      <4>3. from # None
        BY <1>2, <4>2
      <4>4. QED
        BY <4>1, <4>2, <4>3 DEF Tracks, A
    <3>4. QED
      BY <3>2, <3>3
  <2>5. b.newest # None => Pos(s, b.newest) <= Pos(s, newest)
    BY <1>2, <1>3
  <2>6. newest \in {n, b.newest}
    BY DEF newest
  <2>7. \A q \in b.stored : q.seq \notin c.missing
    BY <1>8, <2>1
  <2> HIDE DEF first
  <2>8. QED
    BY <1>3, <2>1, <2>2, <2>3, <2>4, <2>5, <2>6, <2>7 DEF first, c
<1>12. QED
  BY <1>10, <1>11

\* Missing numbers stay so, or a keyframe at or after them is handed out.
KeyAfter(s, out, p) == \E g \in out : g.key /\ Pos(s, p.seq) <= Pos(s, g.to)

TrackedWalk(s, b, w) ==
    /\ InWindow(s, w.seq)
    /\ \A g \in w.out : Pos(s, g.to) < Pos(s, w.seq)
    /\ \A p \in s.packets : ~StartIsMarked(FrameOf(s, p.ts)) /\ p.seq \in b.missing
                            => p.seq \in w.b.missing \/ KeyAfter(s, w.out, p)
    /\ \A f \in w.out, p \in s.packets :
          f.h264 /\ ~f.key /\ Pos(s, p.seq) < Pos(s, f.from) /\ p.seq \in b.missing
          => \E g \in w.out : /\ g.key /\ Pos(s, p.seq) <= Pos(s, g.to)
                              /\ Pos(s, g.to) < Pos(s, f.from)

LEMMA StepTracked ==
  ASSUME NEW s, RegularStream(s), NEW b, b.stored \subseteq s.packets,
         \A p \in b.stored : p.seq \notin b.missing,
         NEW w, GoodWalk(s, b, w), TrackedWalk(s, b, w),
         b.padding \subseteq s.padding, NEW start, NEW spsPps \in BOOLEAN
  PROVE  TrackedWalk(s, b, FindStep(w, start, spsPps))
<1> DEFINE v == FindStep(w, start, spsPps)
           c == Mark(w.b, w.seq)
<1>1. /\ w \in Walks(s) /\ SlotsOK(w.b, s) /\ w.b \in Buffers(s) /\ w.seq \in SeqNum
      /\ w.b.padding \subseteq s.padding /\ w.b.stored \subseteq b.stored
      /\ w.b.missing \subseteq b.missing /\ w.b.stored \subseteq s.packets
      /\ \A f \in w.out : Whole(s, f)
  BY DEF GoodWalk, Walks, Derived, SlotsOK
<1>2. /\ c.stored = w.b.stored /\ c.continuous = w.b.continuous \cup {w.seq} /\ c \in Buffers(s)
      /\ c.missing = w.b.missing
  BY <1>1, MarkIs
<1>3. \A g \in w.out : g.to \in NumbersOf(s) /\ Pos(s, g.to) \in Nat
  <2>1. \A n \in Ends(s) : n \in NumbersOf(s) /\ Pos(s, n) \in Nat
    BY NumberIs DEF Ends, NumbersOf
  <2>2. QED
    BY <1>1, <2>1 DEF Whole
<1>4. w.seq \in NumbersOf(s) => /\ InWindow(s, Succ(w.seq)) /\ Pos(s, w.seq) \in Nat
                                /\ Pos(s, Succ(w.seq)) = Pos(s, w.seq) + 1
  BY NumberIs
<1>5. \A p \in s.packets : Pos(s, p.seq) \in Nat /\ InWindow(s, p.seq)
  BY PacketIs
\* A round that hands nothing out.
<1>6. ASSUME v.out = w.out, v.b.missing = w.b.missing,
             v.seq = w.seq \/ (w.seq \in NumbersOf(s) /\ v.seq = Succ(w.seq))
      PROVE  TrackedWalk(s, b, v)
  <2>1. InWindow(s, v.seq) /\ \A g \in v.out : Pos(s, g.to) < Pos(s, v.seq)
    <3>1. CASE v.seq = w.seq
      BY <1>6, <3>1 DEF TrackedWalk
    <3>2. CASE w.seq \in NumbersOf(s) /\ v.seq = Succ(w.seq)
      <4>1. \A g \in w.out : Pos(s, g.to) < Pos(s, w.seq)
        BY DEF TrackedWalk
      <4>2. QED
        BY <1>3, <1>4, <1>6, <3>2, <4>1
    <3>3. QED
      BY <1>6, <3>1, <3>2
  <2>2. QED
    BY <1>6, <2>1 DEF TrackedWalk
<1> HIDE DEF c
<1>7. CASE Ended(w, v)
  BY <1>6, <1>7 DEF Ended
<1>8. CASE Skipped(w, v)
  <2>1. v.b = w.b /\ v.out = w.out /\ v.seq = Succ(w.seq) /\ w.seq \in NumbersOf(s)
    BY <1>1, <1>8 DEF Skipped, Walks, NumbersOf
  <2>2. QED
    BY <1>6, <2>1
<1>9. CASE Stopped(w, v)
  <2>1. v.b = w.b /\ v.out = w.out /\ v.seq = w.seq
    BY <1>1, <1>9 DEF Stopped, Walks
  <2>2. QED
    BY <1>6, <2>1
<1>10. ASSUME NEW p \in w.b.stored, Continued(w, v, p) PROVE TrackedWalk(s, b, v)
  <2>1. v.b = c /\ v.out = w.out /\ v.seq = Succ(w.seq) /\ w.seq = p.seq
    BY <1>1, <1>2, <1>10 DEF Continued, Walks, Marks, c
  <2>2. w.seq \in NumbersOf(s)
    BY <1>1, <2>1 DEF NumbersOf
  <2>3. QED
    BY <1>2, <1>6, <2>1, <2>2
<1>11. ASSUME NEW p \in w.b.stored, NEW f \in Frames(s), EndsAt(c, s, p, f),
              Waited(w, v, p, f)
       PROVE  TrackedWalk(s, b, v)
  <2>1. v.b = c /\ v.out = w.out /\ v.seq = w.seq
    BY <1>1, <1>2, <1>11 DEF Waited, Walks, c
  <2>2. QED
    BY <1>2, <1>6, <2>1
<1>12. ASSUME NEW p \in w.b.stored, NEW f \in Frames(s), EndsAt(c, s, p, f),
              HandedOut(w, v, p, f, start)
       PROVE  TrackedWalk(s, b, v)
  <2> DEFINE h == HandOut(c, f, start)
  <2>1. h.missing = {m \in w.b.missing : AheadOf(m, f.to)}
    BY <1>2, HandOutIs
  <2> HIDE DEF h
  <2>2. /\ v.b = h /\ v.seq = Succ(w.seq) /\ v.out = w.out \cup {f}
        /\ p.last /\ p.seq = w.seq /\ ~Blocked(c, f)
    <3>1. v = [w EXCEPT !.b = h, !.seq = Succ(@), !.out = @ \cup {f}]
      BY <1>12 DEF HandedOut, c, h
    <3>2. v.b = h /\ v.seq = Succ(w.seq) /\ v.out = w.out \cup {f}
      BY <1>1, <3>1 DEF Walks
    <3>3. QED
      BY <1>12, <3>2 DEF HandedOut, Marks, c
  <2>3. p \in s.packets /\ w.seq \in NumbersOf(s)
    BY <1>1, <2>2 DEF NumbersOf
  <2>4. /\ f.to = p.seq /\ InWindow(s, f.from) /\ Pos(s, f.from) <= Pos(s, p.seq)
        /\ Run(c, s, p, Pos(s, p.seq) - Pos(s, f.from))
        /\ ~StartIsMarked(FrameOf(s, p.ts)) <=> f.h264
    BY <1>12 DEF EndsAt
  <2>5. Pos(s, f.from) \in Nat /\ Pos(s, p.seq) \in Nat
    BY <1>5, <2>3, <2>4, WindowIs
  <2>6. \A q \in s.packets : /\ AheadOf(q.seq, f.to) <=> Pos(s, q.seq) > Pos(s, p.seq)
                             /\ AheadOf(q.seq, f.from) <=> Pos(s, q.seq) > Pos(s, f.from)
    BY <1>5, <2>3, <2>4, WindowIs
  <2>7. InWindow(s, v.seq) /\ \A g \in v.out : Pos(s, g.to) < Pos(s, v.seq)
    <3>1. \A g \in w.out : Pos(s, g.to) < Pos(s, w.seq)
      BY DEF TrackedWalk
    <3>2. \A g \in w.out : Pos(s, g.to) < Pos(s, w.seq) + 1
      BY <1>3, <1>4, <2>3, <3>1
    <3>3. Pos(s, f.to) < Pos(s, w.seq) + 1
      BY <2>2, <2>4, <2>5
    <3>4. QED
      BY <1>4, <2>2, <2>3, <3>2, <3>3
  \* The number of a packet the hand-out no longer counts as missing.
  <2>8. ASSUME NEW q \in s.packets, ~StartIsMarked(FrameOf(s, q.ts)), q.seq \in b.missing
        PROVE  q.seq \in h.missing \/ KeyAfter(s, v.out, q)
    <3>1. CASE KeyAfter(s, w.out, q)
      BY <2>2, <3>1 DEF KeyAfter
    <3>2. CASE q.seq \in w.b.missing /\ Pos(s, q.seq) > Pos(s, p.seq)
      BY <2>1, <2>6, <3>2
    <3>3. CASE q.seq \in w.b.missing /\ Pos(s, q.seq) <= Pos(s, p.seq)
      <4>1. CASE f.key
        BY <2>2, <2>4, <3>3, <4>1 DEF KeyAfter
      <4>2. CASE ~f.key
        <5>1. f.h264
          BY <2>3, <2>4, <2>8 DEF RegularStream
        <5>2. Pos(s, q.seq) > Pos(s, f.from)
          BY <1>2, <2>2, <2>6, <3>3, <4>2, <5>1 DEF Blocked
        <5> DEFINE k == Pos(s, p.seq) - Pos(s, q.seq)
        <5>3. k \in 0 .. (Pos(s, p.seq) - Pos(s, f.from)) /\ Pos(s, q.seq) = Pos(s, p.seq) - k
          BY <1>5, <2>5, <3>3, <5>2
        <5> HIDE DEF k
        <5>4. PICK t \in c.stored : Pos(s, t.seq) = Pos(s, p.seq) - k
          BY <2>4, <5>3 DEF Run
        <5>5. t = q
          BY <1>1, <1>2, <5>3, <5>4, PacketIs
        <5>6. q \in b.stored
          BY <1>1, <1>2, <5>4, <5>5
        <5>7. QED
          BY <2>8, <5>6
      <4>3. QED
        BY <4>1, <4>2
    <3>4. q.seq \in w.b.missing \/ KeyAfter(s, w.out, q)
      BY <2>8 DEF TrackedWalk
    <3>5. QED
      BY <1>5, <2>5, <3>1, <3>2, <3>3, <3>4
  <2>9. ASSUME NEW q \in s.packets, f.h264, ~f.key, Pos(s, q.seq) < Pos(s, f.from),
               q.seq \in b.missing
        PROVE  \E g \in w.out : /\ g.key /\ Pos(s, q.seq) <= Pos(s, g.to)
                                /\ Pos(s, g.to) < Pos(s, f.from)
    <3>1. ~StartIsMarked(FrameOf(s, q.ts))
      BY <2>3, <2>4, <2>9 DEF RegularStream
    <3>2. q.seq \notin w.b.missing
      <4> SUFFICES ASSUME q.seq \in w.b.missing PROVE FALSE
        OBVIOUS
      <4>1. Pos(s, q.seq) > Pos(s, f.from)
        BY <1>2, <2>2, <2>6, <2>9 DEF Blocked
      <4>2. QED
        BY <1>5, <2>5, <2>9, <4>1
    <3>3. KeyAfter(s, w.out, q)
      BY <2>9, <3>1, <3>2 DEF TrackedWalk
    <3>4. PICK g \in w.out : g.key /\ Pos(s, q.seq) <= Pos(s, g.to)
      BY <3>3 DEF KeyAfter
    <3>5. Pos(s, g.to) < Pos(s, p.seq)
      BY <2>2 DEF TrackedWalk
    <3>6. PICK e \in s.packets : e.last /\ e.seq = g.to
      BY <1>1 DEF Whole, Ends
    <3> DEFINE d == Pos(s, p.seq) - Pos(s, f.from)
    <3>7. d \in 0 .. d /\ Pos(s, p.seq) - d = Pos(s, f.from)
      BY <2>4, <2>5
    <3> HIDE DEF d
    <3>8. PICK t \in c.stored : t.ts = p.ts /\ Pos(s, t.seq) = Pos(s, p.seq) - d
      BY <2>4, <3>7 DEF Run, d
    <3>9. t \in s.packets
      BY <1>1, <1>2
    <3>10. Pos(s, e.seq) < Pos(s, t.seq)
      BY <2>3, <3>5, <3>6, <3>8, <3>9, FramesApart
    <3>11. QED
      BY <3>4, <3>6, <3>7, <3>8, <3>10
  <2>10. \A g \in w.out, q \in s.packets :
          g.h264 /\ ~g.key /\ Pos(s, q.seq) < Pos(s, g.from) /\ q.seq \in b.missing
          => \E k \in w.out : /\ k.key /\ Pos(s, q.seq) <= Pos(s, k.to)
                              /\ Pos(s, k.to) < Pos(s, g.from)
    BY DEF TrackedWalk
  <2>11. \A g \in v.out, q \in s.packets :
          g.h264 /\ ~g.key /\ Pos(s, q.seq) < Pos(s, g.from) /\ q.seq \in b.missing
          => \E k \in v.out : /\ k.key /\ Pos(s, q.seq) <= Pos(s, k.to)
                              /\ Pos(s, k.to) < Pos(s, g.from)
    BY <2>2, <2>9, <2>10
  <2>12. QED
    BY <2>2, <2>7, <2>8, <2>11 DEF TrackedWalk
<1>13. \/ Ended(w, v) \/ Skipped(w, v) \/ Stopped(w, v)
       \/ \E p \in w.b.stored :
            \/ Continued(w, v, p)
            \/ \E f \in Frames(s) : /\ EndsAt(c, s, p, f)
                                    /\ Waited(w, v, p, f) \/ HandedOut(w, v, p, f, start)
  <2> HIDE DEF v
  <2>1. QED
    BY <1>1, StepCases DEF c, v
<1> HIDE DEF v
<1>14. QED
  BY <1>7, <1>8, <1>9, <1>10, <1>11, <1>12, <1>13 DEF v

LEMMA FoundTracked ==
  ASSUME NEW s, RegularStream(s), NEW b \in Buffers(s), SlotsOK(b, s),
         \A p \in b.stored : p.seq \notin b.missing, b.padding \subseteq s.padding,
         NEW start, InWindow(s, start), NEW spsPps \in BOOLEAN
  PROVE  TrackedWalk(s, b, FindFrames(b, start, spsPps))
<1> DEFINE W == {w \in Walks(s) : GoodWalk(s, b, w) /\ TrackedWalk(s, b, w)}
<1>1. start \in SeqNum /\ b.stored \subseteq s.packets
  BY DEF InWindow, SlotsOK
<1>2. GoodWalk(s, b, Begin(b, start)) /\ TrackedWalk(s, b, Begin(b, start))
  BY <1>1 DEF Begin, GoodWalk, Walks, Derived, TrackedWalk
<1>3. Begin(b, start) \in W
  BY <1>2 DEF GoodWalk
<1>4. \A w \in W : FindStep(w, start, spsPps) \in W
  <2>1. ASSUME NEW w, GoodWalk(s, b, w), TrackedWalk(s, b, w)
        PROVE  /\ GoodWalk(s, b, FindStep(w, start, spsPps))
               /\ TrackedWalk(s, b, FindStep(w, start, spsPps))
    BY <1>1, <2>1, StepKeeps, StepTracked
  <2>2. QED
    BY <2>1 DEF GoodWalk
<1>5. b.size \in Nat
  BY SizeIs
<1> HIDE DEF W
<1>6. FindFrames(b, start, spsPps) \in W
  BY <1>3, <1>4, <1>5, FindFramesIn
<1>7. QED
  BY <1>6 DEF W

\* A delta frame is handed out only if nothing that is tracked is missing before it.
Waits(s, b, out, all, from, to) ==
    \A f \in out, p \in s.packets :
        f.h264 /\ ~f.key /\ AheadOf(f.from, p.seq)
        => \/ p.seq \in all
           \/ AheadOf(from, p.seq)
           \/ ~AheadOf(p.seq, Back(b.newest, MaxPaddingAge))
           \/ to # None /\ ~AheadOf(p.seq, to)
           \/ \E g \in out : g.key /\ ~AheadOf(p.seq, g.to) /\ AheadOf(f.from, g.to)

Keys(out) == {f.to : f \in {g \in out : g.key}}
Forgives(gone) == IF gone = {} THEN None ELSE Newest(gone)

LEMMA NumbersAre ==
  ASSUME NEW s, RegularStream(s)
  PROVE  /\ \A m \in NumbersOf(s) : /\ m # None /\ m \in SeqNum /\ InWindow(s, m)
                                    /\ Pos(s, m) \in Nat
         /\ \A p \in s.packets : p.seq \in NumbersOf(s)
         /\ Ends(s) \subseteq NumbersOf(s)
<1>1. \A m \in NumbersOf(s) : m \in SeqNum /\ InWindow(s, m) /\ Pos(s, m) \in Nat
  BY NumberIs
<1>2. \A m \in SeqNum : m # None
  BY Sizes DEF SeqNum, None
<1>3. QED
  BY <1>1, <1>2 DEF NumbersOf, Ends

LEMMA FoundTracks ==
  ASSUME NEW s, RegularStream(s), NEW b \in Buffers(s), SlotsOK(b, s), b.newest # None,
         b.padding \subseteq s.padding, NEW all, NEW from, NEW to \in Ends(s) \cup {None},
         Gaps(s, b), Seen(s, b, all, from), Tracks(s, b, all, from, to),
         NEW start, InWindow(s, start), NEW spsPps \in BOOLEAN
  PROVE  LET w == FindFrames(b, start, spsPps)
             to1 == Forgives(Keys(w.out) \cup ({to} \ {None}))
         IN  /\ Gaps(s, w.b) /\ Seen(s, w.b, all, from) /\ Tracks(s, w.b, all, from, to1)
             /\ to1 \in Ends(s) \cup {None}
             /\ Waits(s, w.b, w.out, all, from, to)
<1> DEFINE w == FindFrames(b, start, spsPps)
           gone == Keys(w.out) \cup ({to} \ {None})
           to1 == Forgives(gone)
<1>1. start \in SeqNum /\ b.stored \subseteq s.packets
  BY DEF InWindow, SlotsOK
<1>2. GoodWalk(s, b, w)
  BY <1>1, FoundIs
<1>3. TrackedWalk(s, b, w)
  BY FoundTracked DEF Gaps
<1> HIDE DEF w
<1>4. /\ w.b.stored \subseteq b.stored /\ w.b.missing \subseteq b.missing
      /\ w.b.newest = b.newest
      /\ \A f \in w.out : Whole(s, f) /\ f.packets \subseteq b.stored
  BY <1>2 DEF GoodWalk, Derived
<1>5. Gaps(s, w.b)
  BY <1>4 DEF Gaps
<1>6. Seen(s, w.b, all, from)
  BY <1>4 DEF Seen
<1>7. gone \subseteq Ends(s)
  BY <1>4 DEF Keys, Whole
<1>8. \A n \in Ends(s) : n \in NumbersOf(s) /\ InWindow(s, n) /\ n # None /\ Pos(s, n) \in Nat
  BY NumbersAre
<1>9. \/ gone = {} /\ to1 = None
      \/ /\ to1 \in gone /\ to1 # None /\ to1 \in Ends(s)
         /\ \A n \in gone : Pos(s, n) <= Pos(s, to1)
  <2> HIDE DEF gone
  <2>1. gone # {} => /\ Newest(gone) \in gone
                     /\ \A n \in gone : Pos(s, n) <= Pos(s, Newest(gone))
    BY <1>7, <1>8, NewestIs
  <2>2. QED
    BY <1>7, <1>8, <2>1 DEF Forgives
<1>10. \A p \in s.packets : p.seq \in NumbersOf(s) /\ InWindow(s, p.seq) /\ Pos(s, p.seq) \in Nat
  BY NumbersAre
<1>11. Tracks(s, w.b, all, from, to1)
  <2> SUFFICES ASSUME NEW p \in s.packets, ~StartIsMarked(FrameOf(s, p.ts)),
                      p.seq \notin all, from # None, Pos(s, from) <= Pos(s, p.seq),
                      Pos(s, p.seq) < Pos(s, b.newest),
                      Pos(s, p.seq) > Pos(s, b.newest) - MaxPaddingAge,
                      to1 # None => Pos(s, p.seq) > Pos(s, to1)
               PROVE  p.seq \in w.b.missing
    BY <1>4 DEF Tracks
  <2>1. \A n \in gone : Pos(s, p.seq) > Pos(s, n)
    <3> HIDE DEF gone, to1
    <3> SUFFICES ASSUME NEW n \in gone PROVE Pos(s, p.seq) > Pos(s, n)
      OBVIOUS
    <3>1. to1 \in gone /\ to1 # None /\ Pos(s, n) <= Pos(s, to1)
      BY <1>9
    <3>2. Pos(s, n) \in Nat /\ Pos(s, to1) \in Nat /\ Pos(s, p.seq) \in Nat
      BY <1>7, <1>8, <1>10, <3>1
    <3>3. QED
      BY <3>1, <3>2
  <2>2. to # None => Pos(s, p.seq) > Pos(s, to)
    BY <2>1
  <2>3. p.seq \in b.missing
    BY <2>2 DEF Tracks
  <2>4. p.seq \in w.b.missing \/ KeyAfter(s, w.out, p)
    BY <1>3, <2>3 DEF TrackedWalk
  <2>5. ~KeyAfter(s, w.out, p)
    <3> SUFFICES ASSUME NEW g \in w.out, g.key, Pos(s, p.seq) <= Pos(s, g.to) PROVE FALSE
      BY DEF KeyAfter
    <3>1. g.to \in gone
      BY DEF Keys
    <3>2. QED
      BY <1>7, <1>8, <1>10, <2>1, <3>1
  <2>6. QED
    BY <2>4, <2>5
<1>12. Waits(s, w.b, w.out, all, from, to)
  <2> SUFFICES ASSUME NEW f \in w.out, NEW p \in s.packets, f.h264, ~f.key,
                      AheadOf(f.from, p.seq), p.seq \notin all, ~AheadOf(from, p.seq),
                      AheadOf(p.seq, Back(b.newest, MaxPaddingAge)),
                      to # None => AheadOf(p.seq, to)
               PROVE  \E g \in w.out : /\ g.key /\ ~AheadOf(p.seq, g.to)
                                       /\ AheadOf(f.from, g.to)
    BY <1>4 DEF Waits
  <2>1. /\ InWindow(s, f.from) /\ Pos(s, f.from) <= Pos(s, f.to)
        /\ \E q \in f.packets : q.seq = f.to /\ ~StartIsMarked(FrameOf(s, q.ts))
    BY <1>4 DEF Whole
  <2>2. PICK q \in f.packets : q.seq = f.to /\ ~StartIsMarked(FrameOf(s, q.ts))
    BY <2>1
  <2>3. q \in b.stored /\ q \in s.packets /\ ~StartIsMarked(FrameOf(s, p.ts))
    BY <1>1, <1>4, <2>2 DEF RegularStream
  <2>4. Pos(s, f.to) <= Pos(s, b.newest) /\ b.newest \in NumbersOf(s)
    BY <2>2, <2>3 DEF Gaps
  <2>5. /\ InWindow(s, b.newest) /\ Pos(s, b.newest) \in Nat /\ Pos(s, f.from) \in Nat
        /\ Pos(s, f.to) \in Nat
    BY <1>10, <2>1, <2>2, <2>3, <2>4, NumbersAre, WindowIs
  <2>6. Pos(s, p.seq) < Pos(s, f.from)
    BY <1>10, <2>1, <2>5, WindowIs
  <2>7. Pos(s, p.seq) < Pos(s, b.newest)
    BY <1>10, <2>1, <2>4, <2>5, <2>6
  <2>8. Pos(s, p.seq) > Pos(s, b.newest) - MaxPaddingAge
    BY <1>10, <2>5, AgeIs
  <2>9. from # None /\ Pos(s, from) <= Pos(s, p.seq)
    <3>1. from \in NumbersOf(s)
      BY DEF Seen
    <3>2. from # None /\ InWindow(s, from) /\ Pos(s, from) \in Nat
      BY <3>1, NumbersAre
    <3>3. ~(Pos(s, from) > Pos(s, p.seq))
      BY <1>10, <3>2, WindowIs
    <3>4. QED
      BY <1>10, <3>2, <3>3
  <2>10. to # None => Pos(s, p.seq) > Pos(s, to)
    <3>1. to # None => InWindow(s, to)
      BY <1>8
    <3>2. QED
      BY <1>10, <3>1, WindowIs
  <2>11. p.seq \in b.missing
    BY <2>3, <2>7, <2>8, <2>9, <2>10 DEF Tracks
  <2>12. PICK g \in w.out : /\ g.key /\ Pos(s, p.seq) <= Pos(s, g.to)
                            /\ Pos(s, g.to) < Pos(s, f.from)
    BY <1>3, <2>6, <2>11 DEF TrackedWalk
  <2>13. g.to \in Ends(s)
    BY <1>4 DEF Whole
  <2>14. InWindow(s, g.to) /\ Pos(s, g.to) \in Nat
    BY <1>8, <2>13
  <2>15. ~(Pos(s, p.seq) > Pos(s, g.to))
    BY <1>10, <2>12, <2>14
  <2>16. ~AheadOf(p.seq, g.to) /\ AheadOf(f.from, g.to)
    BY <1>10, <2>1, <2>5, <2>12, <2>14, <2>15, WindowIs
  <2>17. QED
    BY <2>12, <2>16
<1>13. to1 \in Ends(s) \cup {None}
  BY <1>9
<1> HIDE DEF to1, gone
<1>14. QED
  BY <1>5, <1>6, <1>11, <1>12, <1>13 DEF w, to1, gone

\* What UpdateMissingPackets makes of the gaps, once n is in the buffer.
LEMMA GapsAfter ==
  ASSUME NEW s, RegularStream(s), NEW b \in Buffers(s), Gaps(s, b), b.stored \subseteq s.packets,
         NEW a \in Buffers(s), a.newest = b.newest, a.missing = b.missing,
         NEW n \in NumbersOf(s), NEW all, NEW from, NEW to,
         Seen(s, b, all, from), Tracks(s, b, all, from, to),
         NEW d, d.newest = UpdateMissingPackets(a, n).newest,
         d.missing = UpdateMissingPackets(a, n).missing,
         b.stored \subseteq d.stored, \A p \in d.stored : p \in b.stored \/ p.seq = n
  PROVE  LET from1 == IF all = {} THEN n ELSE from
         IN  /\ d.newest # None /\ Gaps(s, d) /\ Seen(s, d, all \cup {n}, from1)
             /\ Tracks(s, d, all \cup {n}, from1, to)
<1> DEFINE c == UpdateMissingPackets(a, n)
           from1 == IF all = {} THEN n ELSE from
<1>1. /\ c.newest \in {n, b.newest} /\ c.newest \in NumbersOf(s) /\ c.newest # None
      /\ Pos(s, n) <= Pos(s, c.newest)
      /\ b.newest # None => Pos(s, b.newest) <= Pos(s, c.newest)
      /\ n \notin c.missing /\ \A q \in b.stored : q.seq \notin c.missing
      /\ \A m \in c.missing \cap NumbersOf(s) : Pos(s, m) < Pos(s, c.newest)
      /\ Tracks(s, c, all \cup {n}, from1, to)
  BY UpdateGaps
<1> HIDE DEF c, from1
<1>2. d.newest = c.newest /\ d.missing = c.missing
  BY DEF c
<1>3. \A m \in NumbersOf(s) : Pos(s, m) \in Nat
  BY NumbersAre
<1>4. ASSUME NEW p \in d.stored PROVE Pos(s, p.seq) <= Pos(s, c.newest) /\ p.seq \notin c.missing
  <2>1. CASE p \in b.stored
    <3>1. p.seq \in NumbersOf(s) /\ b.newest \in NumbersOf(s)
          /\ Pos(s, p.seq) <= Pos(s, b.newest) /\ b.newest # None
      BY <2>1, NumbersAre DEF Gaps
    <3>2. QED
      BY <1>1, <1>3, <2>1, <3>1
  <2>2. CASE p.seq = n
    BY <1>1, <2>2
  <2>3. QED
    BY <2>1, <2>2
<1>5. Gaps(s, d)
  BY <1>1, <1>2, <1>4 DEF Gaps
<1>6. Seen(s, d, all \cup {n}, from1)
  <2>1. d.newest \in all \cup {n}
    BY <1>1, <1>2 DEF Seen
  <2>2. \A p \in d.stored : p.seq \in all \cup {n}
    BY DEF Seen
  <2>3. from1 \in all \cup {n}
    BY DEF Seen, from1
  <2>4. all \cup {n} \subseteq NumbersOf(s)
    BY DEF Seen
  <2>5. QED
    BY <1>1, <1>2, <2>1, <2>2, <2>3, <2>4 DEF Seen
<1>7. Tracks(s, d, all \cup {n}, from1, to)
  BY <1>1, <1>2 DEF Tracks
<1>8. QED
  BY <1>1, <1>2, <1>5, <1>6, <1>7 DEF from1

TrackInv ==
    /\ Gaps(sent, buffer) /\ Seen(sent, buffer, seen, origin)
    /\ Tracks(sent, buffer, seen, origin, forgiven) /\ forgiven \in Ends(sent) \cup {None}

DeltaWaits == Waits(sent, buffer', result', seen', origin', forgiven)

LEMMA EmptyTracked ==
  ASSUME NEW s, NEW b, b.newest = None, b.stored = {}, b.missing = {}, ~b.received, ~b.clearedTo
  PROVE  Gaps(s, b) /\ Seen(s, b, {}, None) /\ \A to : Tracks(s, b, {}, None, to)
  BY DEF Gaps, Seen, Tracks

LEMMA InitTracked == Init => TrackInv
<1> SUFFICES ASSUME Init PROVE TrackInv
  OBVIOUS
<1>1. /\ EmptyBuffer.newest = None /\ EmptyBuffer.stored = {} /\ EmptyBuffer.missing = {}
      /\ ~EmptyBuffer.received /\ ~EmptyBuffer.clearedTo
  BY DEF EmptyBuffer
<1>2. QED
  BY <1>1, EmptyTracked DEF Init, TrackInv

\* What a call that found frames in d makes of the ghosts.
LEMMA ObserveFound ==
  ASSUME RegularStream(sent), NEW d \in Buffers(sent), SlotsOK(d, sent), d.newest # None,
         d.padding \subseteq sent.padding, NEW all, NEW from, NEW to \in Ends(sent) \cup {None},
         Gaps(sent, d), Seen(sent, d, all, from), Tracks(sent, d, all, from, to),
         NEW start, InWindow(sent, start),
         sent' = sent, buffer' = FindFrames(d, start, sent.spsPps).b,
         result' = FindFrames(d, start, sent.spsPps).out, seen' = all, origin' = from,
         forgiven' = Forgives(Keys(result') \cup ({to} \ {None}))
  PROVE  TrackInv' /\ Waits(sent, buffer', result', seen', origin', to)
<1> DEFINE s == sent
           w == FindFrames(d, start, s.spsPps)
<1>1. s.spsPps \in BOOLEAN
  BY DEF RegularStream
<1>2. LET to1 == Forgives(Keys(w.out) \cup ({to} \ {None}))
      IN  /\ Gaps(s, w.b) /\ Seen(s, w.b, all, from) /\ Tracks(s, w.b, all, from, to1)
          /\ to1 \in Ends(s) \cup {None}
          /\ Waits(s, w.b, w.out, all, from, to)
  <2> HIDE DEF s
  <2>1. /\ RegularStream(s) /\ d \in Buffers(s) /\ SlotsOK(d, s) /\ d.padding \subseteq s.padding
        /\ to \in Ends(s) \cup {None} /\ Gaps(s, d) /\ Seen(s, d, all, from)
        /\ Tracks(s, d, all, from, to) /\ InWindow(s, start)
    BY DEF s
  <2>2. QED
    BY <1>1, <2>1, FoundTracks
<1> HIDE DEF w
<1>3. buffer' = w.b /\ result' = w.out
  BY DEF w
<1>4. QED
  BY <1>2, <1>3 DEF TrackInv

\* A call without frames.
LEMMA NoFrames ==
  ASSUME result' = {} PROVE DeltaWaits
  BY DEF DeltaWaits, Waits

LEMMA NoKeys == Keys({}) = {}
  BY DEF Keys

LEMMA ForgivesOne ==
  ASSUME NEW s, RegularStream(s), NEW x \in Ends(s)
  PROVE  Newest({x}) = x
<1>1. {x} # {} /\ \A n \in {x} : InWindow(s, n)
  BY NumbersAre
<1>2. Newest({x}) \in {x}
  BY <1>1, NewestIs
<1>3. QED
  BY <1>2

LEMMA PacketTracks ==
  ASSUME RegularStreams, IInv, MarkedInv, TrackInv, NEW p \in sent.packets, Packet(p)
  PROVE  TrackInv' /\ DeltaWaits
<1> DEFINE s == sent
           b == buffer
           n == p.seq
           r == InsertPacket(b, p, s.spsPps)
           jumped == Old(b, n) /\ ~b.clearedTo /\ LargeJump(b, n)
           fresh == r.cleared \/ jumped
           b1 == Admit(b, n)
           b2 == Expand(b1, n)
<1>1. /\ RegularStream(s) /\ Good(b, s) /\ s.spsPps \in BOOLEAN /\ MarkedOK(b, s)
      /\ Gaps(s, b) /\ Seen(s, b, seen, origin) /\ Tracks(s, b, seen, origin, forgiven)
      /\ forgiven \in Ends(s) \cup {None}
      /\ b \in Buffers(s) /\ SlotsOK(b, s) /\ b.stored \subseteq s.packets
  BY DEF IInv, RegularStreams, RegularStream, MarkedInv, TrackInv, Good, SlotsOK
<1>2. InWindow(s, n) /\ n \in SeqNum /\ n \in NumbersOf(s) /\ p \in s.packets
  BY <1>1, PacketIs
<1>3. /\ buffer' = r.b /\ result' = r.out /\ sent' = s
      /\ seen' = (IF fresh THEN {} ELSE seen) \cup (IF r.cleared THEN {} ELSE {n})
      /\ origin' = (IF seen' = {} THEN None ELSE IF fresh \/ seen = {} THEN n ELSE origin)
      /\ forgiven' = Forgives(Keys(r.out) \cup (IF fresh THEN {} ELSE {forgiven} \ {None}))
  BY DEF Packet, Observe, Keys, Forgives
<1> HIDE DEF r, jumped
<1>4. /\ Good(b1, s) /\ b1.received /\ Pos(s, b1.first) <= Pos(s, n)
      /\ \/ /\ Old(b, n) /\ LargeJump(b, n)
            /\ b1.stored = {} /\ b1.continuous = {} /\ b1.newest = None
            /\ b1.missing = {} /\ b1.padding = {}
         \/ /\ ~(Old(b, n) /\ LargeJump(b, n))
            /\ b1.stored = b.stored /\ b1.continuous = b.continuous
            /\ b1.newest = b.newest /\ b1.missing = b.missing /\ b1.padding = b.padding
  BY <1>1, <1>2, AdmitIs
<1> HIDE DEF b1
<1>5. /\ Good(b2, s) /\ b2.received /\ Pos(s, b2.first) <= Pos(s, n)
      /\ b2.stored = b1.stored /\ b2.newest = b1.newest /\ b2.missing = b1.missing
      /\ b2.padding = b1.padding
  BY <1>1, <1>4, ExpandIs
<1> HIDE DEF b2
<1>6. Forgives({forgiven} \ {None}) = forgiven
  <2>1. forgiven # None => Newest({forgiven}) = forgiven
    BY <1>1, ForgivesOne
  <2>2. forgiven # None => {forgiven} \ {None} = {forgiven}
    OBVIOUS
  <2>3. QED
    BY <2>1, <2>2 DEF Forgives
\* Nothing handed out, the ghosts as they are but for n.
<1>7. CASE Kept(b, p, r)
  <2>1. r.b = b /\ r.out = {} /\ r.cleared = FALSE /\ ~jumped
    BY <1>7 DEF Kept, Returns, jumped, Ignored
  <2>2. seen # {}
    BY <1>1, <1>7 DEF Kept, Ignored, Old, Gaps, Seen
  <2>3. seen' = seen \cup {n} /\ origin' = origin /\ forgiven' = forgiven /\ result' = {}
    BY <1>3, <1>6, <2>1, <2>2, NoKeys
  <2>4. Seen(s, b, seen \cup {n}, origin)
    BY <1>1, <1>2, <2>2 DEF Seen
  <2>5. Tracks(s, b, seen \cup {n}, origin, forgiven)
    BY <1>1 DEF Tracks
  <2>6. QED
    BY <1>1, <1>3, <2>1, <2>3, <2>4, <2>5, NoFrames DEF TrackInv
<1>8. CASE Repeated(b, p, r)
  <2>1. r.b = b1 /\ r.out = {} /\ r.cleared = FALSE /\ p \in b1.stored
    BY <1>8 DEF Repeated, Returns, b1
  <2>2. /\ ~jumped /\ b1.stored = b.stored /\ b1.newest = b.newest /\ b1.missing = b.missing
    BY <1>4, <2>1 DEF jumped
  <2>3. p \in b.stored /\ b.newest # None /\ seen # {} /\ n \in seen
    BY <1>1, <2>1, <2>2 DEF Gaps, Seen
  <2>4. seen' = seen /\ origin' = origin /\ forgiven' = forgiven /\ result' = {}
    BY <1>3, <1>6, <2>1, <2>2, <2>3, NoKeys
  <2>5. Gaps(s, b1)
    BY <1>1, <2>2, <2>3 DEF Gaps
  <2>6. Seen(s, b1, seen, origin)
    BY <1>1, <2>2, <2>3 DEF Seen
  <2>7. Tracks(s, b1, seen, origin, forgiven)
    BY <1>1, <2>2 DEF Tracks
  <2>8. QED
    BY <1>1, <1>3, <2>1, <2>4, <2>5, <2>6, <2>7, NoFrames DEF TrackInv
<1>9. CASE Filled(b, p, r)
  <2>1. r.b = ClearInternal(b2) /\ r.out = {} /\ r.cleared = TRUE
    BY <1>9 DEF Filled, Returns, b1, b2
  <2>2. /\ r.b.newest = None /\ r.b.stored = {} /\ r.b.missing = {}
        /\ ~r.b.received /\ ~r.b.clearedTo
    <3>1. b2 \in Buffers(s) /\ SlotsOK(b2, s)
      BY <1>5 DEF Good
    <3> HIDE DEF b2
    <3>2. LET c == ClearInternal(b2)
          IN  /\ c.newest = None /\ c.stored = {} /\ c.missing = {}
              /\ c.received = FALSE /\ c.clearedTo = FALSE
      BY <3>1, ClearInternalIs
    <3>3. QED
      BY <2>1, <3>2
  <2>3. seen' = {} /\ origin' = None /\ forgiven' = None /\ result' = {}
    BY <1>3, <2>1, NoKeys DEF Forgives
  <2>4. Gaps(s, r.b) /\ Seen(s, r.b, {}, None) /\ Tracks(s, r.b, {}, None, None)
    BY <2>2, EmptyTracked
  <2> DEFINE c == r.b
  <2> HIDE DEF c, s
  <2>5. /\ sent' = s /\ buffer' = c /\ Gaps(s, c)
        /\ Seen(s, c, {}, None) /\ Tracks(s, c, {}, None, None)
    BY <1>3, <2>4 DEF c
  <2>6. QED
    BY <2>3, <2>5, NoFrames DEF TrackInv
<1>10. CASE Inserted(b, p, s.spsPps, r)
  <2> DEFINE a == [b2 EXCEPT !.stored = @ \cup {p}]
             d == Place(b2, p)
             w == FindFrames(d, n, s.spsPps)
             b0 == IF jumped THEN ClearInternal(b) ELSE b
             all0 == IF jumped THEN {} ELSE seen
             from0 == IF jumped THEN None ELSE origin
             to0 == IF jumped THEN None ELSE forgiven
             from1 == IF all0 = {} THEN n ELSE from0
  <2>1. Slot(b2, n) = {} /\ r.b = w.b /\ r.out = w.out /\ r.cleared = FALSE /\ ~Ignored(b, n)
    BY <1>10 DEF Inserted, Returns, b1, b2
  <2>2. jumped <=> Old(b, n) /\ LargeJump(b, n)
    BY <2>1 DEF jumped, Ignored
  <2>3. /\ Good(d, s) /\ d.stored = b2.stored \cup {p} /\ d.padding \subseteq b2.padding
        /\ d.newest = UpdateMissingPackets(a, n).newest
        /\ d.missing = UpdateMissingPackets(a, n).missing
    BY <1>1, <1>2, <1>5, <2>1, PlaceIs
  <2>4. a \in Buffers(s) /\ a.newest = b1.newest /\ a.missing = b1.missing
    BY <1>2, <1>5 DEF Good, Buffers
  <2>5. ClearInternal(b) \in Buffers(s) /\ ClearInternal(b).stored = {}
        /\ ClearInternal(b).newest = None /\ ClearInternal(b).missing = {}
        /\ ~ClearInternal(b).received /\ ~ClearInternal(b).clearedTo
    BY <1>1, ClearInternalIs
  <2>6. /\ b0 \in Buffers(s) /\ Gaps(s, b0) /\ Seen(s, b0, all0, from0)
        /\ Tracks(s, b0, all0, from0, to0) /\ b0.stored \subseteq s.packets
        /\ to0 \in Ends(s) \cup {None}
    BY <1>1, <2>5, EmptyTracked
  <2>7. /\ b1.newest = b0.newest /\ b1.missing = b0.missing /\ b1.stored = b0.stored
        /\ b1.padding \subseteq s.padding
    BY <1>1, <1>4, <2>2, <2>5 DEF MarkedOK
  <2> HIDE DEF a, d, b0, all0, from0, to0
  <2>8. /\ d.newest # None /\ Gaps(s, d) /\ Seen(s, d, all0 \cup {n}, from1)
        /\ Tracks(s, d, all0 \cup {n}, from1, to0)
    <3>1. b0.stored \subseteq d.stored /\ \A q \in d.stored : q \in b0.stored \/ q.seq = n
      BY <1>5, <2>3, <2>7
    <3>2. a.newest = b0.newest /\ a.missing = b0.missing
      BY <2>4, <2>7
    <3> HIDE DEF s, n
    <3>3. QED
      BY <1>1, <1>2, <2>3, <2>4, <2>6, <3>1, <3>2, GapsAfter
  <2> HIDE DEF w
  <2>9. seen' = all0 \cup {n} /\ origin' = from1
    <3>1. fresh <=> jumped
      BY <2>1
    <3>2. seen' = all0 \cup {n}
      BY <1>3, <2>1, <3>1 DEF all0
    <3>3. seen' # {} /\ (all0 = {} <=> jumped \/ seen = {})
      BY <3>2 DEF all0
    <3>4. QED
      BY <1>3, <3>1, <3>2, <3>3 DEF from0
  <2>10. forgiven' = Forgives(Keys(w.out) \cup ({to0} \ {None}))
    <3>1. (IF fresh THEN {} ELSE {forgiven} \ {None}) = {to0} \ {None}
      BY <2>1 DEF to0
    <3>2. QED
      BY <1>3, <2>1, <3>1
  <2>11. d.padding \subseteq s.padding /\ d \in Buffers(s) /\ SlotsOK(d, s)
    BY <1>5, <2>3, <2>7 DEF Good
  <2>12. TrackInv' /\ Waits(sent, buffer', result', seen', origin', to0)
    <3> DEFINE all1 == all0 \cup {n}
    <3>1. /\ buffer' = FindFrames(d, n, s.spsPps).b /\ result' = FindFrames(d, n, s.spsPps).out
          /\ seen' = all1 /\ sent' = s
          /\ forgiven' = Forgives(Keys(result') \cup ({to0} \ {None}))
      BY <1>3, <2>1, <2>9, <2>10 DEF w
    <3>2. Seen(s, d, all1, from1) /\ Tracks(s, d, all1, from1, to0)
      BY <2>8
    <3> HIDE DEF all1, from1, n
    <3>3. QED
      BY <1>1, <1>2, <2>6, <2>8, <2>9, <2>11, <3>1, <3>2, ObserveFound
  <2>13. Waits(sent, buffer', result', seen', origin', forgiven)
    BY <2>12 DEF Waits, to0
  <2>14. QED
    BY <2>12, <2>13 DEF DeltaWaits
<1>11. \/ Kept(b, p, r) \/ Repeated(b, p, r) \/ Filled(b, p, r)
       \/ Inserted(b, p, s.spsPps, r)
  BY <1>1, InsertCases DEF r
<1>12. QED
  BY <1>7, <1>8, <1>9, <1>10, <1>11

LEMMA PaddingTracks ==
  ASSUME RegularStreams, IInv, MarkedInv, TrackInv, NEW n \in sent.padding, Padding(n)
  PROVE  TrackInv' /\ DeltaWaits
<1> DEFINE s == sent
           b == buffer
           r == InsertPadding(b, n, s.spsPps)
           a == UpdateMissingPackets(b, n)
           d == [a EXCEPT !.padding = @ \cup {n}]
           w == FindFrames(d, Succ(n), s.spsPps)
           from1 == IF seen = {} THEN n ELSE origin
<1>1. /\ RegularStream(s) /\ s.spsPps \in BOOLEAN /\ MarkedOK(b, s)
      /\ Gaps(s, b) /\ Seen(s, b, seen, origin) /\ Tracks(s, b, seen, origin, forgiven)
      /\ forgiven \in Ends(s) \cup {None}
      /\ b \in Buffers(s) /\ SlotsOK(b, s) /\ b.stored \subseteq s.packets
  BY DEF IInv, RegularStreams, RegularStream, MarkedInv, TrackInv, Good, SlotsOK
<1>2. n \in SeqNum /\ n \in NumbersOf(s) /\ InWindow(s, Succ(n))
  BY <1>1, NumberIs DEF NumbersOf
<1>3. r.b = w.b /\ r.out = w.out /\ r.cleared = FALSE
  <2> HIDE DEF w
  <2>1. r = Returns(w.b, w.out, FALSE)
    BY DEF InsertPadding, w
  <2>2. QED
    BY <2>1 DEF Returns
<1>4. /\ buffer' = w.b /\ result' = w.out /\ sent' = s
      /\ seen' = seen \cup {n} /\ origin' = from1
      /\ forgiven' = Forgives(Keys(result') \cup ({forgiven} \ {None}))
  <2> HIDE DEF w
  <2>1. /\ buffer' = w.b /\ result' = w.out /\ sent' = s /\ seen' = seen \cup {n}
    BY <1>3 DEF Padding, Observe
  <2>2. origin' = (IF seen' = {} THEN None ELSE IF seen = {} THEN n ELSE origin)
    BY <1>3 DEF Padding, Observe
  <2>3. forgiven' = Forgives(Keys(result') \cup ({forgiven} \ {None}))
    BY <1>3, <2>1 DEF Padding, Observe, Keys, Forgives
  <2>4. QED
    BY <2>1, <2>2, <2>3
<1> HIDE DEF w, r
<1>5. /\ a \in Buffers(s) /\ a.size = b.size /\ a.stored = b.stored
      /\ a.continuous = b.continuous /\ a.padding = b.padding
  BY <1>1, <1>2, UpdateMissingIs
<1>6. /\ d \in Buffers(s) /\ d.size = b.size /\ d.stored = b.stored
      /\ d.continuous = b.continuous /\ d.padding = b.padding \cup {n}
      /\ d.newest = a.newest /\ d.missing = a.missing
  <2> HIDE DEF a
  <2>1. QED
    BY <1>2, <1>5 DEF Buffers
<1>7. SlotsOK(d, s) /\ d.padding \subseteq s.padding
  BY <1>1, <1>6 DEF SlotsOK, Follows, MarkedOK
<1> HIDE DEF d
<1>8. /\ d.newest # None /\ Gaps(s, d) /\ Seen(s, d, seen \cup {n}, from1)
      /\ Tracks(s, d, seen \cup {n}, from1, forgiven)
  <2>1. b.stored \subseteq d.stored /\ \A q \in d.stored : q \in b.stored \/ q.seq = n
    BY <1>6
  <2>2. /\ d.newest = UpdateMissingPackets(b, n).newest
        /\ d.missing = UpdateMissingPackets(b, n).missing
    BY <1>6
  <2> HIDE DEF s, a
  <2>3. QED
    BY <1>1, <1>2, <2>1, <2>2, GapsAfter
<1> DEFINE start == Succ(n)
           all == seen \cup {n}
<1>9. /\ buffer' = FindFrames(d, start, s.spsPps).b /\ result' = FindFrames(d, start, s.spsPps).out
      /\ seen' = all /\ Seen(s, d, all, from1) /\ Tracks(s, d, all, from1, forgiven)
      /\ InWindow(s, start)
  BY <1>2, <1>4, <1>8 DEF w
<1> HIDE DEF start, all, from1
<1>10. TrackInv' /\ Waits(sent, buffer', result', seen', origin', forgiven)
  BY <1>1, <1>4, <1>6, <1>7, <1>8, <1>9, ObserveFound
<1>11. QED
  BY <1>10 DEF DeltaWaits

LEMMA ClearToTracks ==
  ASSUME RegularStreams, IInv, TrackInv, NEW n \in handed, ClearToFrame(n)
  PROVE  TrackInv' /\ DeltaWaits
<1> DEFINE s == sent
           b == buffer
           c == ClearTo(b, n)
           gone == {p \in b.stored : Pos(s, p.seq) <= Pos(s, n)}
           S == {n} \cup ({forgiven} \ {None})
<1>1. /\ RegularStream(s) /\ Good(b, s) /\ n \in Ends(s)
      /\ Gaps(s, b) /\ Seen(s, b, seen, origin) /\ Tracks(s, b, seen, origin, forgiven)
      /\ forgiven \in Ends(s) \cup {None} /\ b.stored \subseteq s.packets
  BY DEF IInv, RegularStreams, TrackInv, Good, SlotsOK
<1>2. /\ buffer' = c /\ result' = {} /\ sent' = s /\ seen' = seen /\ origin' = origin
      /\ forgiven' = IF b.received THEN Newest(S) ELSE forgiven
  BY DEF ClearToFrame
<1>3. /\ \A m \in Ends(s) : m \in NumbersOf(s) /\ InWindow(s, m) /\ m # None /\ Pos(s, m) \in Nat
      /\ \A p \in s.packets : InWindow(s, p.seq) /\ Pos(s, p.seq) \in Nat
  BY <1>1, NumbersAre
<1>4. S \subseteq Ends(s) /\ n \in S /\ (forgiven # None => forgiven \in S)
  BY <1>1
<1>5. Newest(S) \in S /\ \A m \in S : Pos(s, m) <= Pos(s, Newest(S))
  <2> HIDE DEF S
  <2>1. S # {} /\ \A m \in S : InWindow(s, m)
    BY <1>3, <1>4
  <2> HIDE DEF s
  <2>2. QED
    BY <1>1, <2>1, NewestIs
<1> HIDE DEF S
<1>6. forgiven' \in Ends(s) \cup {None}
  BY <1>1, <1>2, <1>4, <1>5
<1>7. \A p \in s.packets : forgiven' # None /\ Pos(s, p.seq) > Pos(s, forgiven')
                           => /\ forgiven # None => Pos(s, p.seq) > Pos(s, forgiven)
                              /\ b.received => Pos(s, p.seq) > Pos(s, n)
  <2> SUFFICES ASSUME NEW p \in s.packets, b.received, Pos(s, p.seq) > Pos(s, Newest(S))
               PROVE  /\ forgiven # None => Pos(s, p.seq) > Pos(s, forgiven)
                      /\ Pos(s, p.seq) > Pos(s, n)
    BY <1>2
  <2>1. ASSUME NEW m \in S PROVE Pos(s, p.seq) > Pos(s, m)
    <3>1. /\ Pos(s, p.seq) \in Nat /\ Pos(s, m) \in Nat /\ Pos(s, Newest(S)) \in Nat
          /\ Pos(s, m) <= Pos(s, Newest(S))
      BY <1>3, <1>4, <1>5
    <3>2. QED
      BY <3>1
  <2>2. QED
    BY <1>4, <2>1
<1>8. b.received => forgiven' # None
  BY <1>2, <1>3, <1>4, <1>5
<1>9. \/ (~b.received \/ Pos(s, b.first) > Pos(s, n)) /\ c = b
      \/ /\ b.received /\ c.stored = b.stored \ gone /\ c.newest = b.newest
         /\ c.missing = {m \in b.missing : ~AheadOf(Succ(n), m)}
  <2> HIDE DEF c, gone, s
  <2>1. QED
    BY <1>1, ClearToIs DEF c, gone
<1> HIDE DEF c, gone
<1>10. CASE c = b
  <2>1. Tracks(s, b, seen, origin, forgiven')
    <3>1. ~b.received => forgiven' = forgiven
      BY <1>2
    <3>2. QED
      BY <1>1, <1>7, <1>8, <3>1 DEF Tracks
  <2>2. QED
    BY <1>1, <1>2, <1>6, <1>10, <2>1, NoFrames DEF TrackInv
<1>11. CASE /\ b.received /\ c.stored = b.stored \ gone /\ c.newest = b.newest
            /\ c.missing = {m \in b.missing : ~AheadOf(Succ(n), m)}
  <2>1. b.newest # None
    BY <1>1, <1>11 DEF Gaps
  <2>2. Gaps(s, c)
    BY <1>1, <1>11, <2>1 DEF Gaps
  <2>3. Seen(s, c, seen, origin)
    BY <1>1, <1>11 DEF Seen
  <2>4. Tracks(s, c, seen, origin, forgiven')
    <3>1. ASSUME NEW p \in s.packets, Pos(s, p.seq) > Pos(s, n)
          PROVE  ~AheadOf(Succ(n), p.seq)
      <4>1. InWindow(s, Succ(n)) /\ Pos(s, Succ(n)) = Pos(s, n) + 1 /\ Pos(s, n) \in Nat
        BY <1>1, <1>3, NumberIs
      <4>2. ~(Pos(s, Succ(n)) > Pos(s, p.seq))
        BY <1>3, <3>1, <4>1
      <4>3. InWindow(s, p.seq)
        BY <1>3
      <4>4. QED
        BY <1>1, <4>1, <4>2, <4>3, WindowIs
    <3>2. QED
      BY <1>1, <1>7, <1>8, <1>11, <3>1 DEF Tracks
  <2>5. QED
    BY <1>1, <1>2, <1>6, <2>2, <2>3, <2>4, NoFrames DEF TrackInv
<1>12. QED
  BY <1>9, <1>10, <1>11

LEMMA NextTracked ==
  ASSUME RegularStreams
  PROVE  /\ IInv /\ MarkedInv /\ TrackInv /\ [Next]_vars => TrackInv'
         /\ IInv /\ MarkedInv /\ TrackInv /\ Next => DeltaWaits
<1> SUFFICES ASSUME IInv, MarkedInv, TrackInv
             PROVE  ([Next]_vars => TrackInv') /\ (Next => DeltaWaits)
  OBVIOUS
<1>1. ASSUME NEW p \in sent.packets, Packet(p) PROVE TrackInv' /\ DeltaWaits
  BY <1>1, PacketTracks
<1>2. ASSUME NEW n \in sent.padding, Padding(n) PROVE TrackInv' /\ DeltaWaits
  BY <1>2, PaddingTracks
<1>3. ASSUME NEW n \in handed, ClearToFrame(n) PROVE TrackInv' /\ DeltaWaits
  BY <1>3, ClearToTracks
<1>4. ASSUME Clear PROVE TrackInv' /\ DeltaWaits
  <2> DEFINE c == ClearInternal(buffer)
  <2>1. buffer \in Buffers(sent) /\ SlotsOK(buffer, sent)
    BY DEF IInv, Good
  <2>2. /\ c.newest = None /\ c.stored = {} /\ c.missing = {} /\ ~c.received /\ ~c.clearedTo
    BY <2>1, ClearInternalIs
  <2> HIDE DEF c
  <2>3. Gaps(sent, c) /\ Seen(sent, c, {}, None) /\ Tracks(sent, c, {}, None, None)
    BY <2>2, EmptyTracked
  <2>4. buffer' = c /\ sent' = sent /\ seen' = {} /\ origin' = None /\ forgiven' = None
        /\ result' = {}
    BY <1>4 DEF Clear, c
  <2>5. QED
    BY <2>3, <2>4, NoFrames DEF TrackInv
<1>5. ASSUME UNCHANGED vars PROVE TrackInv'
  BY <1>5 DEF vars, TrackInv
<1>6. QED
  BY <1>1, <1>2, <1>3, <1>4, <1>5 DEF Next

\* An H.264 delta frame is handed out only if no number before it is missing that was
\* sent since the first insertion, the last keyframe and the last ClearTo and is not too
\* old to be tracked, across repetitions, emptied buffers and frames of one call.
THEOREM DeltasWait == ASSUME RegularStreams PROVE Spec => DeltaWaitsForGaps
<1>1. Init => IInv /\ MarkedInv /\ TrackInv
  BY InitIInv, InitMarked, InitTracked
<1>2. IInv /\ MarkedInv /\ TrackInv /\ [Next]_vars => IInv' /\ MarkedInv' /\ TrackInv'
  BY NextIInv, NextMarked, NextTracked
<1>3. IInv /\ MarkedInv /\ TrackInv /\ [Next]_vars
      => [\A f \in result', p \in sent.packets :
            f.h264 /\ ~f.key /\ AheadOf(f.from, p.seq)
              => \/ p.seq \in seen'
                 \/ AheadOf(origin', p.seq)
                 \/ ~AheadOf(p.seq, Back(buffer'.newest, MaxPaddingAge))
                 \/ forgiven # None /\ ~AheadOf(p.seq, forgiven)
                 \/ \E g \in result' : g.key /\ ~AheadOf(p.seq, g.to) /\ AheadOf(f.from, g.to)]_vars
  BY NextTracked DEF DeltaWaits, Waits
<1>4. QED
  BY <1>1, <1>2, <1>3, PTL DEF Spec, DeltaWaitsForGaps

\* The fields keep their types, a slot holds one packet, only stored packets are marked
\* as continuous, and no number is both stored and missing.
THEOREM TypeCorrect == ASSUME RegularStreams PROVE Spec => []TypeOK
<1>1. IInv /\ MarkedInv /\ TrackInv => TypeOK
  <2> SUFFICES ASSUME IInv, MarkedInv, TrackInv PROVE TypeOK
    OBVIOUS
  <2>1. buffer \in Buffers(sent) /\ SlotsOK(buffer, sent)
    BY DEF IInv, Good
  <2>2. buffer.size \in Nat /\ StartBufferSize \in Nat /\ MaxBufferSize \in Nat
    BY <2>1, SizeIs, Sizes
  <2>3. buffer.size \in StartBufferSize .. MaxBufferSize
    BY <2>1, <2>2 DEF SlotsOK
  <2>4. buffer.missing \subseteq SeqNum \ {p.seq : p \in buffer.stored}
    BY <2>1 DEF TrackInv, Gaps, Buffers
  <2>5. buffer.padding \subseteq sent.padding
    BY DEF MarkedInv, MarkedOK
  <2>6. QED
    BY <2>1, <2>3, <2>4, <2>5 DEF TypeOK, SlotsOK, Buffers
<1>2. Init => IInv /\ MarkedInv /\ TrackInv
  BY InitIInv, InitMarked, InitTracked
<1>3. IInv /\ MarkedInv /\ TrackInv /\ [Next]_vars => IInv' /\ MarkedInv' /\ TrackInv'
  BY NextIInv, NextMarked, NextTracked
<1>4. QED
  BY <1>1, <1>2, <1>3, PTL DEF Spec
===============================================================================
