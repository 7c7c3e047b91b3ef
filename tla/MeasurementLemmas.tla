-------------------------- MODULE MeasurementLemmas --------------------------
(***************************************************************************)
(* What the proofs about measurements share, for times of any width:       *)
(* induction and recursion over the natural numbers; differences of times  *)
(* that turn over are right up to half a turn, and device times expand to  *)
(* the epoch times they are the lower words of; segments between change    *)
(* points cover the values once, and those of the linear regression span   *)
(* two windows.                                                            *)
(***************************************************************************)
EXTENDS SpeedwireTime, LineSegmentEstimator, SequenceTheorems, WellFoundedInduction, TLAPS

(***************************************************************************)
(* Induction over the natural numbers, for sets of them.                   *)
(***************************************************************************)
Below == {pair \in Nat \X Nat : pair[1] < pair[2]}

LEMMA BelowWellFounded == IsWellFoundedOn(Below, Nat)
  BY NatLessThanWellFounded DEF OpToRel, Below

(* A set of natural numbers that is not empty has a least element.         *)
LEMMA Least ==
  ASSUME NEW T \in SUBSET Nat, T # {}
  PROVE  \E m \in T : \A n \in T : m <= n
<1>1. PICK m \in T : \A n \in T : ~(<<n, m>> \in Below)
  BY BelowWellFounded, WFMin
<1>2. \A n \in T : <<n, m>> \in Below <=> n < m
  BY DEF Below
<1>3. \A n \in T : n \in Nat
  OBVIOUS
<1>4. \A n \in T : ~(n < m)
  BY <1>1, <1>2
<1>5. \A n \in T : m <= n
  BY <1>3, <1>4
<1> QED
  BY <1>5

(* A set with 0 and with the successor of each of its numbers is all of    *)
(* them.                                                                   *)
LEMMA Induction ==
  ASSUME NEW S \in SUBSET Nat, 0 \in S, \A k \in S : k + 1 \in S
  PROVE  \A k \in Nat : k \in S
<1> SUFFICES ASSUME NEW n \in Nat, n \notin S
             PROVE  FALSE
  OBVIOUS
<1> DEFINE T == {k \in Nat : k \notin S}
<1>1. T \in SUBSET Nat /\ T # {}
  OBVIOUS
<1>2. PICK m \in T : \A k \in T : m <= k
  <2> HIDE DEF T
  <2> QED
    BY <1>1, Least
<1>3. m \in Nat /\ m \notin S /\ m # 0
  OBVIOUS
<1>4. m - 1 \in Nat /\ ~(m <= m - 1)
  BY <1>3
<1>5. m - 1 \in S
  BY <1>2, <1>4
<1>6. (m - 1) + 1 \in S
  BY <1>5
<1> QED
  BY <1>3, <1>6

(* A function that starts with b and goes on by g.                         *)
Recursion(f, n, b, g) == f[0] = b /\ \A k \in 1..n : f[k] = g[<<k, f[k - 1]>>]

(* There is one.                                                           *)
LEMMA RecursionExists ==
  ASSUME NEW n \in Nat, NEW V, NEW b \in V, NEW g \in [(1..n) \X V -> V]
  PROVE  \E f \in [0..n -> V] : Recursion(f, n, b, g)
<1> DEFINE Upto(f, m) == f[0] = b /\ \A k \in 1..n : k <= m => f[k] = g[<<k, f[k - 1]>>]
           S == {m \in Nat : \E f \in [0..n -> V] : Upto(f, m)}
<1>1. 0 \in S
  <2> DEFINE f == [k \in 0..n |-> b]
  <2>1. f \in [0..n -> V] /\ f[0] = b
    OBVIOUS
  <2> HIDE DEF f
  <2> QED
    BY <2>1
<1>2. ASSUME NEW m \in S
      PROVE  m + 1 \in S
  <2>1. PICK f \in [0..n -> V] : Upto(f, m)
    OBVIOUS
  <2>2. m \in Nat /\ m + 1 \in Nat
    OBVIOUS
  <2> HIDE DEF S
  <2>3. CASE m + 1 \in 1..n
    <3> DEFINE v == g[<<m + 1, f[m]>>]
               h == [f EXCEPT ![m + 1] = v]
    <3>1. m \in 0..n /\ m + 1 \in 0..n /\ m + 1 # 0
      BY <2>2, <2>3
    <3>2. v \in V
      BY <2>3, <3>1
    <3> HIDE DEF v
    <3>3. h \in [0..n -> V] /\ h[m + 1] = v /\ \A k \in 0..n : k # m + 1 => h[k] = f[k]
      BY <3>1, <3>2
    <3> HIDE DEF h
    <3>4. h[0] = b
      BY <2>1, <3>1, <3>3
    <3>5. ASSUME NEW k \in 1..n, k <= m + 1
          PROVE  h[k] = g[<<k, h[k - 1]>>]
      <4>1. k - 1 \in 0..n /\ k \in 0..n /\ k - 1 # m + 1
        BY <2>2, <3>5
      <4>2. h[k - 1] = f[k - 1]
        BY <3>3, <4>1
      <4>3. CASE k = m + 1
        <5>1. k - 1 = m
          BY <2>2, <4>3
        <5> QED
          BY <3>3, <4>2, <4>3, <5>1 DEF v
      <4>4. CASE k # m + 1
        <5>1. k <= m
          BY <2>2, <3>5, <4>4
        <5> QED
          BY <2>1, <3>3, <4>1, <4>2, <4>4, <5>1
      <4> QED
        BY <4>3, <4>4
    <3> QED
      BY <2>2, <3>3, <3>4, <3>5 DEF S
  <2>4. CASE m + 1 \notin 1..n
    <3>1. \A k \in 1..n : k <= m
      BY <2>2, <2>4
    <3> QED
      BY <2>1, <2>2, <3>1 DEF S
  <2> QED
    BY <2>3, <2>4
<1>3. n \in S
  <2>1. S \in SUBSET Nat
    OBVIOUS
  <2> HIDE DEF S
  <2> QED
    BY <1>1, <1>2, <2>1, Induction
<1>4. PICK f \in [0..n -> V] : Upto(f, n)
  BY <1>3
<1> QED
  BY <1>4 DEF Recursion

(* A set of natural numbers up to n that is not empty has a greatest one.  *)
LEMMA Greatest ==
  ASSUME NEW n \in Nat, NEW T \in SUBSET (0..n), T # {}
  PROVE  \E m \in T : \A k \in T : k <= m
<1> DEFINE U == {n - k : k \in T}
<1>1. U \in SUBSET Nat /\ U # {}
  <2>1. \A k \in T : n - k \in Nat
    <3> SUFFICES ASSUME NEW k \in T PROVE n - k \in Nat
      OBVIOUS
    <3>1. k \in 0..n
      OBVIOUS
    <3> QED
      BY <3>1
  <2> QED
    BY <2>1
<1>2. PICK u \in U : \A v \in U : u <= v
  <2> HIDE DEF U
  <2> QED
    BY <1>1, Least
<1>3. PICK m \in T : u = n - m
  OBVIOUS
<1>4. ASSUME NEW k \in T
      PROVE  k <= m
  <2>1. n - m <= n - k
    BY <1>2, <1>3
  <2>2. k \in 0..n /\ m \in 0..n
    OBVIOUS
  <2> HIDE DEF U
  <2> QED
    BY <2>1, <2>2
<1> QED
  BY <1>4

(***************************************************************************)
(* Division and words.                                                     *)
(***************************************************************************)

(* Division with rest.                                                     *)
LEMMA Division ==
  ASSUME NEW a \in Int, NEW n \in Nat \ {0}
  PROVE  /\ a \div n \in Int /\ a % n \in 0..(n - 1)
         /\ a = ((a \div n) * n) + (a % n)
  OBVIOUS

LEMMA ModBounds ==
  ASSUME NEW a \in Int, NEW n \in Nat \ {0}
  PROVE  a % n \in Nat /\ a % n < n
  OBVIOUS

(* There is only one quotient and one rest.                                *)
LEMMA OnlyDivision ==
  ASSUME NEW n \in Nat \ {0}, NEW q \in Int, NEW r \in 0..(n - 1)
  PROVE  (q * n + r) % n = r /\ (q * n + r) \div n = q
<1> DEFINE a == q * n + r
<1>1. a \in Int
  OBVIOUS
<1> DEFINE p == a \div n
           s == a % n
<1>2. p \in Int /\ s \in 0..(n - 1) /\ a = p * n + s
  BY <1>1, Division
<1>3. p * n + s = q * n + r
  BY <1>2
<1> HIDE DEF a, p, s
<1>4. (p - q) * n = r - s
  BY <1>2, <1>3
<1>5. ~(p - q >= 1)
  BY <1>2, <1>4
<1>6. ~(p - q <= -1)
  BY <1>2, <1>4
<1>7. p = q
  BY <1>2, <1>5, <1>6
<1> QED
  BY <1>2, <1>3, <1>7 DEF a, p, s

(* Whole turns do not change a rest.                                       *)
LEMMA ModTurns ==
  ASSUME NEW a \in Int, NEW k \in Int, NEW n \in Nat \ {0}
  PROVE  (a + k * n) % n = a % n
<1> DEFINE p == a \div n
           s == a % n
<1>1. p \in Int /\ s \in 0..(n - 1) /\ a = p * n + s
  BY Division
<1> HIDE DEF p, s
<1>2. a + k * n = (p + k) * n + s
  BY <1>1
<1>3. ((p + k) * n + s) % n = s
  BY <1>1, OnlyDivision
<1> QED
  BY <1>2, <1>3 DEF s

(* A number that is small enough is its own rest.                          *)
LEMMA ModSmall ==
  ASSUME NEW n \in Nat \ {0}, NEW a \in 0..(n - 1)
  PROVE  a % n = a
<1>1. (0 * n + a) % n = a
  BY OnlyDivision
<1> QED
  BY <1>1

(* Sums and differences may be taken of rests.                             *)
LEMMA ModSum ==
  ASSUME NEW a \in Int, NEW b \in Int, NEW n \in Nat \ {0}
  PROVE  /\ ((a % n) + b) % n = (a + b) % n
         /\ ((a % n) - (b % n)) % n = (a - b) % n
<1> DEFINE p == a \div n
           s == a % n
           q == b \div n
           t == b % n
<1>1. p \in Int /\ s \in 0..(n - 1) /\ a = p * n + s
  BY Division
<1>2. q \in Int /\ t \in 0..(n - 1) /\ b = q * n + t
  BY Division
<1>3. (s + b) % n = (a + b) % n
  <2> HIDE DEF p, s, q, t
  <2>1. a + b = (s + b) + p * n
    BY <1>1
  <2>2. ((s + b) + p * n) % n = (s + b) % n
    <3> DEFINE c == s + b
    <3>1. c \in Int
      BY <1>1
    <3> HIDE DEF c
    <3>2. (c + p * n) % n = c % n
      BY <1>1, <3>1, ModTurns
    <3> QED
      BY <3>2 DEF c
  <2> QED
    BY <2>1, <2>2
<1>4. (s - t) % n = (a - b) % n
  <2> HIDE DEF p, s, q, t
  <2>1. a - b = (s - t) + (p - q) * n
    BY <1>1, <1>2
  <2>2. ((s - t) + (p - q) * n) % n = (s - t) % n
    <3> DEFINE c == s - t
               j == p - q
    <3>1. c \in Int /\ j \in Int
      BY <1>1, <1>2
    <3> HIDE DEF c, j
    <3>2. (c + j * n) % n = c % n
      BY <3>1, ModTurns
    <3> QED
      BY <3>2 DEF c, j
  <2> QED
    BY <2>1, <2>2
<1> QED
  BY <1>3, <1>4

Absolute(x) == IF x >= 0 THEN x ELSE -x

(* The absolute difference of words of m values is the distance of what    *)
(* they stand for, as long as that is not more than half of m.             *)
LEMMA AbsDifference ==
  ASSUME NEW m \in Nat \ {0}, m % 2 = 0,
         NEW a \in Int, NEW b \in Int, NEW x \in Int, NEW k \in Int,
         a - b = x + (k * m), -(m \div 2) <= x, x <= m \div 2
  PROVE  Absolute(SignedDifference(a, b, m)) = Absolute(x)
<1> DEFINE h == m \div 2
<1>1. h \in Nat \ {0} /\ m = 2 * h
  OBVIOUS
<1> HIDE DEF h
<1>2. (a - b) % m = x % m
  <2>1. (x + (k * m)) % m = x % m
    BY <1>1, ModTurns
  <2> QED
    BY <2>1
<1>3. CASE x >= 0
  <2>1. x % m = x
    BY <1>1, <1>3, ModSmall DEF h
  <2> QED
    BY <1>1, <1>2, <1>3, <2>1 DEF SignedDifference, Absolute, h
<1>4. CASE x < 0
  <2>1. (x + m) % m = x + m
    BY <1>1, <1>4, ModSmall DEF h
  <2>2. (x + m) % m = x % m
    <3>1. \A k1 \in Int : (x + k1 * m) % m = x % m
      BY <1>1, ModTurns
    <3>2. \A k1 \in Int : k1 = 1 => x + k1 * m = x + m
      BY <1>1
    <3> QED
      BY <3>1, <3>2
  <2> QED
    BY <1>1, <1>2, <1>4, <2>1, <2>2 DEF SignedDifference, Absolute, h
<1> QED
  BY <1>3, <1>4

(* The difference itself is right when it is less than half of m.          *)
LEMMA Difference ==
  ASSUME NEW m \in Nat \ {0}, m % 2 = 0,
         NEW a \in Int, NEW b \in Int, NEW x \in Int, NEW k \in Int,
         a - b = x + (k * m), -(m \div 2) <= x, x < m \div 2
  PROVE  SignedDifference(a, b, m) = x
<1> DEFINE h == m \div 2
<1>1. h \in Nat \ {0} /\ m = 2 * h
  OBVIOUS
<1> HIDE DEF h
<1>2. (a - b) % m = x % m
  <2>1. (x + (k * m)) % m = x % m
    BY <1>1, ModTurns
  <2> QED
    BY <2>1
<1>3. CASE x >= 0
  <2>1. x % m = x
    BY <1>1, <1>3, ModSmall DEF h
  <2> QED
    BY <1>1, <1>2, <1>3, <2>1 DEF SignedDifference, h
<1>4. CASE x < 0
  <2>1. (x + m) % m = x + m
    BY <1>1, <1>4, ModSmall DEF h
  <2>2. (x + m) % m = x % m
    <3>1. \A k1 \in Int : (x + k1 * m) % m = x % m
      BY <1>1, ModTurns
    <3>2. \A k1 \in Int : k1 = 1 => x + k1 * m = x + m
      BY <1>1
    <3> QED
      BY <3>1, <3>2
  <2> QED
    BY <1>1, <1>2, <1>4, <2>1, <2>2 DEF SignedDifference, h
<1> QED
  BY <1>3, <1>4
-----------------------------------------------------------------------------
(* The words of epoch times.                                               *)
LEMMA Words ==
  /\ Half \in Nat \ {0} /\ TimeMax = 2 * Half
  /\ EpochMax = 2 * (TimeMax * Half) /\ TimeMax * Half \in Nat \ {0}
  /\ EpochMax \in Nat \ {0} /\ TimeMax <= EpochMax
<1>1. Half \in Int /\ TimeMax = (Half * 2) + 0
  BY TimeAssumption, Division DEF Half
<1>2. Half \in Nat \ {0}
  BY <1>1, TimeAssumption
<1>3. TimeMax = 2 * Half
  BY <1>1
<1> HIDE DEF Half
<1>4. TimeMax * Half \in Nat \ {0}
  BY <1>2, TimeAssumption
<1>5. EpochMax = 2 * (TimeMax * Half)
  BY <1>2, <1>3, TimeAssumption
<1> QED
  BY <1>2, <1>3, <1>4, <1>5, TimeAssumption

(* An epoch time is its upper and its lower word.                          *)
LEMMA EpochWords ==
  ASSUME NEW epoch \in Epochs
  PROVE  /\ epoch \div TimeMax \in 0..(TimeMax - 1)
         /\ epoch % TimeMax \in 0..(TimeMax - 1)
         /\ epoch = ((epoch \div TimeMax) * TimeMax) + (epoch % TimeMax)
<1> DEFINE q == epoch \div TimeMax
           r == epoch % TimeMax
<1>1. epoch \in Int /\ 0 <= epoch /\ epoch < TimeMax * TimeMax
  BY TimeAssumption, Words DEF Epochs
<1>2. q \in Int /\ r \in 0..(TimeMax - 1) /\ epoch = (q * TimeMax) + r
  BY <1>1, TimeAssumption, Division
<1> HIDE DEF q, r
<1>3. ~(q <= -1)
  BY <1>1, <1>2, TimeAssumption
<1>4. ~(q >= TimeMax)
  BY <1>1, <1>2, TimeAssumption
<1>5. q \in 0..(TimeMax - 1)
  BY <1>2, <1>3, <1>4, TimeAssumption
<1> QED
  BY <1>2, <1>5 DEF q, r

(* The upper word f + j joined to the lower word t is the epoch time of    *)
(* words f and t, j turns later, but for whole turns of the epoch time.    *)
LEMMA JoinedNear ==
  ASSUME NEW f \in 0..(TimeMax - 1), NEW t \in 0..(TimeMax - 1), NEW j \in Int
  PROVE  \E k \in Int : (((f + j) * TimeMax) % EpochMax) + t = ((f * TimeMax) + t) + (j * TimeMax) + (k * EpochMax)
<1> DEFINE a == (f + j) * TimeMax
           p == a \div EpochMax
<1>1. a \in Int /\ a = (f * TimeMax) + (j * TimeMax)
  BY TimeAssumption
<1>2. p \in Int /\ a = (p * EpochMax) + (a % EpochMax) /\ a % EpochMax \in Int
  <2>1. EpochMax \in Nat \ {0}
    BY Words
  <2>2. a \in Int
    BY <1>1
  <2> HIDE DEF a
  <2>3. /\ a \div EpochMax \in Int /\ a % EpochMax \in 0..(EpochMax - 1)
        /\ a = ((a \div EpochMax) * EpochMax) + (a % EpochMax)
    BY <2>1, <2>2, Division
  <2> QED
    BY <2>1, <2>3
<1>3. \A b \in Int : a = (p * EpochMax) + b => b = a + ((-p) * EpochMax)
  <2> HIDE DEF a, p
  <2> QED
    BY <1>1, <1>2, Words
<1>4. a % EpochMax = a + ((-p) * EpochMax) /\ -p \in Int
  BY <1>2, <1>3
<1>5. (a % EpochMax) + t = ((f * TimeMax) + t) + (j * TimeMax) + ((-p) * EpochMax)
  <2> DEFINE b == a % EpochMax
             u == f * TimeMax
             v == j * TimeMax
             w == (-p) * EpochMax
  <2>1. u \in Int /\ v \in Int /\ w \in Int /\ b = (u + v) + w
    <3>1. u \in Int /\ v \in Int
      BY TimeAssumption
    <3>2. w \in Int
      <4> HIDE DEF p
      <4> QED
        BY <1>4, Words
    <3> QED
      BY <3>1, <3>2, <1>1, <1>4
  <2> HIDE DEF b, u, v, w
  <2>2. b + t = (u + t) + v + w
    BY <2>1, TimeAssumption
  <2> QED
    BY <2>2 DEF b, u, v, w
<1> QED
  BY <1>4, <1>5

(* The distance of the candidates of expandTimeTo64 to the current time.   *)
LEMMA CandidateDistance ==
  ASSUME NEW epoch \in Epochs, NEW now \in Epochs,
         epoch - now < Half, now - epoch < Half, NEW j \in {-1, 0, 1}
  PROVE  LET candidate == ((((epoch \div TimeMax) + j) * TimeMax) % EpochMax) + (epoch % TimeMax)
             x == (now - epoch) - (j * TimeMax)
         IN  EpochAbsDifference(now, candidate) = Absolute(x)
<1> DEFINE f == epoch \div TimeMax
           t == epoch % TimeMax
           c == (((f + j) * TimeMax) % EpochMax) + t
           x == (now - epoch) - (j * TimeMax)
           h == TimeMax * Half
<1>1. /\ f \in 0..(TimeMax - 1) /\ t \in 0..(TimeMax - 1)
      /\ epoch = (f * TimeMax) + t /\ now \in Int /\ epoch \in Int
  BY EpochWords DEF Epochs
<1> HIDE DEF f, t
<1>2. PICK k \in Int : c = epoch + (j * TimeMax) + (k * EpochMax)
  BY <1>1, JoinedNear
<1>3. EpochMax \in Nat \ {0} /\ EpochMax % 2 = 0 /\ EpochMax \div 2 = h
  BY Words
<1>4. x \in Int /\ j * TimeMax \in Int
  BY <1>1, TimeAssumption
<1>5. c \in Int /\ now - c = x + ((-k) * EpochMax)
  <2> DEFINE v == j * TimeMax
  <2> HIDE DEF c, h, v
  <2>1. k * EpochMax \in Int /\ (-k) * EpochMax = -(k * EpochMax)
    BY Words
  <2>2. x = (now - epoch) - v /\ v \in Int /\ c = epoch + v + (k * EpochMax)
    BY <1>2, <1>4 DEF v
  <2> QED
    BY <2>1, <2>2, <1>1
<1>6. -h <= x /\ x <= h
  <2>1. /\ Half \in Nat \ {0} /\ TimeMax = 2 * Half
    BY Words
  <2>2. h = 2 * (Half * Half)
    BY <2>1
  <2>3. (Half - 1) + TimeMax <= 2 * (Half * Half)
    BY <2>1
  <2>4. -((Half - 1) + TimeMax) <= x /\ x <= (Half - 1) + TimeMax
    <3>1. j * TimeMax = -TimeMax \/ j * TimeMax = 0 \/ j * TimeMax = TimeMax
      BY TimeAssumption
    <3>2. now - epoch <= Half - 1 /\ epoch - now <= Half - 1
      BY <1>1, <2>1
    <3> QED
      BY <3>1, <3>2, <1>1, <2>1
  <2> HIDE DEF x, h
  <2> QED
    BY <2>1, <2>2, <2>3, <2>4, <1>4
<1> DEFINE n == -k
<1>8. n \in Int /\ c \in Int /\ now - c = x + (n * EpochMax)
  BY <1>5
<1> HIDE DEF c, x, h, n
<1>7. Absolute(SignedDifference(now, c, EpochMax)) = Absolute(x)
  BY <1>1, <1>3, <1>4, <1>6, <1>8, AbsDifference
<1> QED
  BY <1>7 DEF EpochAbsDifference, Absolute, c, x, f, t

(* A time within half a turn of now is expanded to the epoch time that it  *)
(* is the lower word of, also when the two lie in different eras.          *)
LEMMA ExpandedNear ==
  ASSUME NEW epoch \in Epochs, NEW now \in Epochs,
         epoch - now < Half, now - epoch < Half
  PROVE  expandTimeTo64(epoch % TimeMax, now) = epoch
<1> DEFINE f == epoch \div TimeMax
           t == epoch % TimeMax
           e == now \div TimeMax
           r == now % TimeMax
           J(g) == ((g * TimeMax) % EpochMax) + t
           x == now - epoch
<1>1. /\ f \in 0..(TimeMax - 1) /\ t \in 0..(TimeMax - 1) /\ epoch = (f * TimeMax) + t
      /\ e \in 0..(TimeMax - 1) /\ r \in 0..(TimeMax - 1) /\ now = (e * TimeMax) + r
  BY EpochWords
<1>2. /\ Half \in Nat \ {0} /\ TimeMax = 2 * Half /\ EpochMax \in Nat \ {0}
  BY Words
<1>3. x \in Int /\ epoch \in Int /\ now \in Int /\ x < Half /\ -Half < x
  BY <1>2 DEF Epochs
<1>4. /\ EpochAbsDifference(now, J(f)) = Absolute(x)
      /\ EpochAbsDifference(now, J(f + 1)) = Absolute(x - TimeMax)
      /\ EpochAbsDifference(now, J(f - 1)) = Absolute(x + TimeMax)
  <2> DEFINE C(j) == (((f + j) * TimeMax) % EpochMax) + t
  <2>1. \A j \in {-1, 0, 1} : EpochAbsDifference(now, C(j)) = Absolute(x - (j * TimeMax))
    BY CandidateDistance
  <2>2. C(0) = J(f) /\ C(1) = J(f + 1) /\ C(-1) = J(f - 1)
    BY <1>1
  <2>3. x - (0 * TimeMax) = x /\ x - (1 * TimeMax) = x - TimeMax /\ x - ((-1) * TimeMax) = x + TimeMax
    BY <1>2, <1>3
  <2> HIDE DEF C, J, f, x
  <2> QED
    BY <2>1, <2>2, <2>3
<1>5. J(f) = epoch
  <2>1. f * TimeMax \in 0..(EpochMax - 1)
    <3>1. f * TimeMax \in Int /\ 0 <= f * TimeMax
      BY <1>1, <1>2
    <3>2. f * TimeMax < EpochMax
      BY <1>1, <1>2, TimeAssumption DEF Epochs
    <3> QED
      BY <3>1, <3>2, <1>2
  <2>2. (f * TimeMax) % EpochMax = f * TimeMax
    BY <2>1, <1>2, ModSmall
  <2> QED
    BY <1>1, <2>2
<1>6. expandTimeTo64(t, now) =
        LET next == IF r >= Half THEN J(e + 1) ELSE J(e - 1)
        IN  IF EpochAbsDifference(now, next) <= EpochAbsDifference(now, J(e)) THEN next ELSE J(e)
  BY DEF expandTimeTo64
<1>7. f = e \/ f = e + 1 \/ f = e - 1
  <2> HIDE DEF f, t, e, r
  <2>1. x = ((e - f) * TimeMax) + (r - t)
    BY <1>1, <1>2
  <2>2. ~(e - f >= 2)
    <3>1. e - f >= 2 => (e - f) * TimeMax >= 2 * TimeMax
      BY <1>1, <1>2
    <3> HIDE DEF x
    <3> QED
      BY <1>1, <1>2, <1>3, <2>1, <3>1
  <2>3. ~(e - f <= -2)
    <3>1. e - f <= -2 => (e - f) * TimeMax <= (-2) * TimeMax
      BY <1>1, <1>2
    <3> HIDE DEF x
    <3> QED
      BY <1>1, <1>2, <1>3, <2>1, <3>1
  <2> QED
    BY <1>1, <2>2, <2>3
<1>8. ASSUME f = e PROVE expandTimeTo64(t, now) = epoch
  <2>1. Absolute(x) < Absolute(x - TimeMax) /\ Absolute(x) < Absolute(x + TimeMax)
        /\ Absolute(x) \in Int /\ Absolute(x - TimeMax) \in Int /\ Absolute(x + TimeMax) \in Int
    BY <1>2, <1>3 DEF Absolute
  <2> HIDE DEF J, f, e, r, x, t
  <2> QED
    BY <1>4, <1>5, <1>6, <1>8, <2>1
<1>9. ASSUME f = e + 1 PROVE expandTimeTo64(t, now) = epoch
  <2>1. f * TimeMax = (e * TimeMax) + TimeMax
    BY <1>1, <1>2, <1>9
  <2>2. r >= Half /\ x < 0
    <3> HIDE DEF f, t, e, r
    <3> QED
      BY <1>1, <1>2, <1>3, <2>1
  <2>3. Absolute(x) <= Absolute(x + TimeMax)
    BY <1>2, <1>3, <2>2 DEF Absolute
  <2>4. e = f - 1 /\ e + 1 = f
    BY <1>1, <1>9
  <2> HIDE DEF J, f, e, r, x, t
  <2> QED
    BY <1>4, <1>5, <1>6, <2>2, <2>3, <2>4
<1>10. ASSUME f = e - 1 PROVE expandTimeTo64(t, now) = epoch
  <2>1. e * TimeMax = (f * TimeMax) + TimeMax
    BY <1>1, <1>2, <1>10
  <2>2. ~(r >= Half) /\ x > 0
    <3> HIDE DEF f, t, e, r
    <3> QED
      BY <1>1, <1>2, <1>3, <2>1
  <2>3. Absolute(x) <= Absolute(x - TimeMax)
    BY <1>2, <1>3, <2>2 DEF Absolute
  <2>4. e = f + 1 /\ e - 1 = f
    BY <1>1, <1>10
  <2> HIDE DEF J, f, e, r, x, t
  <2> QED
    BY <1>4, <1>5, <1>6, <2>2, <2>3, <2>4
<1> QED
  BY <1>7, <1>8, <1>9, <1>10

(* The same of epoch times in ms that are not half a turn apart.           *)
LEMMA TimeDistance ==
  ASSUME NEW a \in Epochs, NEW b \in Epochs, b <= a, a - b < Half
  PROVE  calculateAbsTimeDifference(a % TimeMax, b % TimeMax) = a - b
<1>1. /\ Half \in Nat \ {0} /\ TimeMax \in Nat \ {0} /\ TimeMax % 2 = 0 /\ TimeMax \div 2 = Half
  BY TimeAssumption, Words DEF Half
<1> DEFINE s == a % TimeMax
           t == b % TimeMax
           p == a \div TimeMax
           q == b \div TimeMax
           k == q - p
           x == a - b
<1>2. /\ s \in Int /\ t \in Int /\ p \in Int /\ q \in Int
      /\ a = (p * TimeMax) + s /\ b = (q * TimeMax) + t
  BY EpochWords, <1>1
<1>3. x \in Int /\ k \in Int /\ x >= 0 /\ x <= Half
  BY <1>1, <1>2 DEF Epochs
<1>4. s - t = x + (k * TimeMax)
  <2> HIDE DEF s, t, p, q
  <2> QED
    BY <1>1, <1>2
<1>7. s \in Int /\ t \in Int
  BY <1>2
<1>8. -(TimeMax \div 2) <= x /\ x <= TimeMax \div 2
  BY <1>1, <1>3
<1> HIDE DEF s, t, k, x, p, q
<1>5. Absolute(SignedDifference(s, t, TimeMax)) = Absolute(x)
  BY TimeAssumption, <1>3, <1>4, <1>7, <1>8, AbsDifference
<1>6. calculateAbsTimeDifference(s, t) = x
  BY <1>3, <1>5 DEF calculateAbsTimeDifference, calculateTimeDifference, Absolute
<1> QED
  BY <1>6 DEF s, t, x

(* A second of the epoch time in ms, and the ms of it.                     *)
LEMMA Seconds ==
  ASSUME NEW sec \in Nat, NEW ms \in 0..(MsPerSecond - 1)
  PROVE  ((sec * MsPerSecond) + ms) \div MsPerSecond = sec
BY TimeAssumption, OnlyDivision

(* The second that an epoch time lies in is itself an epoch time.          *)
LEMMA SecondsOfEpoch ==
  ASSUME NEW epoch \in Epochs
  PROVE  LET sec == epoch \div MsPerSecond
         IN  sec \in Epochs /\ sec * MsPerSecond \in Epochs /\ sec * MsPerSecond <= epoch
<1> DEFINE q == epoch \div MsPerSecond
           r == epoch % MsPerSecond
<1>1. epoch \in Int /\ 0 <= epoch /\ epoch <= EpochMax - 1 /\ EpochMax \in Int
  BY Words DEF Epochs
<1>2. q \in Int /\ r \in 0..(MsPerSecond - 1) /\ epoch = (q * MsPerSecond) + r
  BY <1>1, TimeAssumption, Division
<1> HIDE DEF q, r
<1>3. ~(q <= -1)
  BY <1>1, <1>2, TimeAssumption
<1>4. q <= q * MsPerSecond /\ q * MsPerSecond \in Int
  BY <1>2, <1>3, TimeAssumption
<1>5. 0 <= q * MsPerSecond /\ q * MsPerSecond <= epoch /\ q <= epoch
  BY <1>1, <1>2, <1>3, <1>4, TimeAssumption
<1> QED
  BY <1>1, <1>2, <1>3, <1>4, <1>5 DEF Epochs, q

(* The seconds go on with the epoch time.                                  *)
LEMMA SecondsGrow ==
  ASSUME NEW epoch \in Nat
  PROVE  (epoch \div MsPerSecond) <= (epoch + 1) \div MsPerSecond
<1> DEFINE p == epoch \div MsPerSecond
           s == epoch % MsPerSecond
           q == (epoch + 1) \div MsPerSecond
           t == (epoch + 1) % MsPerSecond
<1>1. p \in Int /\ s \in 0..(MsPerSecond - 1) /\ epoch = (p * MsPerSecond) + s
  BY TimeAssumption, Division
<1>2. q \in Int /\ t \in 0..(MsPerSecond - 1) /\ epoch + 1 = (q * MsPerSecond) + t
  <2> DEFINE n == epoch + 1
  <2>1. n \in Int
    OBVIOUS
  <2> HIDE DEF n
  <2>2. n \div MsPerSecond \in Int /\ n % MsPerSecond \in 0..(MsPerSecond - 1)
        /\ n = ((n \div MsPerSecond) * MsPerSecond) + (n % MsPerSecond)
    BY <2>1, TimeAssumption, Division
  <2> QED
    BY <2>2 DEF n
<1> HIDE DEF p, s, q, t
<1>3. (q - p) * MsPerSecond = (1 + s) - t
  BY <1>1, <1>2, TimeAssumption
<1>4. q - p <= -1 => (q - p) * MsPerSecond <= -MsPerSecond
  BY <1>1, <1>2, TimeAssumption
<1>5. p <= q
  BY <1>1, <1>2, <1>3, <1>4, TimeAssumption
<1> QED
  BY <1>5 DEF p, q

(* A second of an inverter near now is expanded to that second, in ms.     *)
LEMMA SecondExpanded ==
  ASSUME NEW now \in Epochs, NEW sec \in Nat, sec * MsPerSecond < EpochMax,
         sec - (now \div MsPerSecond) < Half, (now \div MsPerSecond) - sec < Half
  PROVE  convertInverterTimeToUnixEpochTime(sec % TimeMax, now) = sec * MsPerSecond
<1>1. sec \in Epochs /\ sec * MsPerSecond \in 0..(EpochMax - 1)
  <2>1. sec <= sec * MsPerSecond /\ sec * MsPerSecond \in Nat
    BY TimeAssumption
  <2> QED
    BY <2>1, Words DEF Epochs
<1>2. now \div MsPerSecond \in Epochs
  BY SecondsOfEpoch
<1>3. expandTimeTo64(sec % TimeMax, now \div MsPerSecond) = sec
  BY <1>1, <1>2, ExpandedNear
<1>4. (sec * MsPerSecond) % EpochMax = sec * MsPerSecond
  BY <1>1, Words, ModSmall
<1> QED
  BY <1>3, <1>4 DEF convertInverterTimeToUnixEpochTime

(* The time that the grid's power is interpolated at is the inverter's.    *)
LEMMA AlignedTime ==
  ASSUME NEW now \in Epochs, NEW sec \in 0..(now \div MsPerSecond),
         (now \div MsPerSecond) - sec < Half
  PROVE  convertInverterToEmeterTime(convertUnixEpochTimeToInverterTimer(sec * MsPerSecond), now)
             = (sec * MsPerSecond) % TimeMax
<1> DEFINE second == now \div MsPerSecond
<1>1. /\ second \in Epochs /\ second * MsPerSecond \in Epochs /\ second * MsPerSecond <= now
      /\ now \in Int /\ now < EpochMax /\ EpochMax \in Int /\ Half \in Nat \ {0}
  BY SecondsOfEpoch, Words DEF Epochs
<1>2. sec \in Nat /\ sec <= second /\ second \in Int
  BY <1>1 DEF Epochs
<1>3. sec * MsPerSecond < EpochMax
  <2> HIDE DEF second
  <2>1. sec * MsPerSecond <= second * MsPerSecond /\ sec * MsPerSecond \in Int /\ second * MsPerSecond \in Int
    BY <1>2, TimeAssumption
  <2> QED
    BY <1>1, <2>1
<1>4. convertInverterTimeToUnixEpochTime(sec % TimeMax, now) = sec * MsPerSecond
  <2>1. sec - second < Half
    BY <1>1, <1>2
  <2> QED
    BY <1>2, <1>3, <2>1, SecondExpanded
<1>5. (sec * MsPerSecond) \div MsPerSecond = sec
  <2>1. 0 \in 0..(MsPerSecond - 1)
    BY TimeAssumption
  <2>2. ((sec * MsPerSecond) + 0) \div MsPerSecond = sec
    BY <1>2, <2>1, TimeAssumption, OnlyDivision
  <2> QED
    BY <1>2, <2>2, TimeAssumption
<1> QED
  BY <1>4, <1>5 DEF convertInverterToEmeterTime, convertUnixEpochTimeToInverterTimer,
                    convertUnixEpochTimeToEmeterTimer

-----------------------------------------------------------------------------
(***************************************************************************)
(* Segmentation.                                                           *)
(***************************************************************************)

(* The window is at most a quarter of the values.                          *)
LEMMA WindowFits ==
  ASSUME NEW n \in Nat \ {0}, NEW default \in Nat
  PROVE  /\ WindowSize(n, default) \in Nat
         /\ 4 * WindowSize(n, default) <= n
<1>1. n \div 4 \in Nat /\ 4 * (n \div 4) <= n
  OBVIOUS
<1> QED
  BY <1>1 DEF WindowSize

(* A segment ends with the next change point, or with the last value.      *)
LEMMA NextEndFacts ==
  ASSUME NEW n \in Nat \ {0}, NEW changes \in SUBSET (0..(n - 2)), NEW start \in 0..(n - 1)
  PROVE  LET e == NextEnd(n, changes, start)
         IN  /\ e \in start..(n - 1)
             /\ e = n - 1 \/ e \in changes
             /\ \A c \in changes : start <= c => e <= c
<1> DEFINE behind == {c \in changes : start <= c}
<1>0. \A c \in changes : c \in Nat /\ c <= n - 2
  <2>1. n - 2 \in Int
    OBVIOUS
  <2> QED
    BY <2>1
<1>1. CASE behind = {}
  <2>1. NextEnd(n, changes, start) = n - 1
    BY <1>1 DEF NextEnd
  <2> QED
    BY <1>1, <2>1
<1>2. CASE behind # {}
  <2>1. behind \in SUBSET Nat
    BY <1>0
  <2>2. \E c \in behind : \A d \in behind : c <= d
    <3> HIDE DEF behind
    <3> QED
      BY <1>2, <2>1, Least
  <2>3. NextEnd(n, changes, start) = CHOOSE c \in behind : \A d \in behind : c <= d
    BY <1>2 DEF NextEnd
  <2>4. /\ NextEnd(n, changes, start) \in behind
        /\ \A d \in behind : NextEnd(n, changes, start) <= d
    BY <2>2, <2>3
  <2> DEFINE e == NextEnd(n, changes, start)
  <2> HIDE DEF e
  <2>5. e \in changes /\ start <= e /\ \A c \in changes : start <= c => e <= c
    BY <2>4 DEF e
  <2>6. e \in start..(n - 1)
    BY <1>0, <2>5
  <2> QED
    BY <2>5, <2>6 DEF e
<1> QED
  BY <1>1, <1>2

(* The segments between change points cover the values once.               *)
LEMMA IntervalsPartition ==
  ASSUME NEW n \in Nat \ {0}, NEW changes \in SUBSET (0..(n - 2))
  PROVE  LET segments == Intervals(n, changes)
         IN  /\ segments \in SUBSET [start_index : 0..(n - 1), end_index : 0..(n - 1)]
             /\ \A s \in segments : s.start_index <= s.end_index
             /\ UNION {s.start_index..s.end_index : s \in segments} = 0..(n - 1)
             /\ \A s, t \in segments :
                   s = t \/ s.end_index < t.start_index \/ t.end_index < s.start_index
             /\ \E s \in segments : s.end_index = n - 1 /\ \A t \in segments : t.start_index <= s.start_index
<1> DEFINE starts == {0} \cup {c + 1 : c \in changes}
           End(start) == NextEnd(n, changes, start)
           segments == Intervals(n, changes)
<1>1. starts \in SUBSET (0..(n - 1)) /\ 0 \in starts /\ 0 \in 0..(n - 1)
  OBVIOUS
<1>2. \A start \in starts : /\ End(start) \in start..(n - 1)
                            /\ \A c \in changes : start <= c => End(start) <= c
  BY <1>1, NextEndFacts
<1>3. \A start \in starts : End(start) = n - 1 \/ End(start) + 1 \in starts
  BY <1>1, NextEndFacts
<1>4. segments = {[start_index |-> start, end_index |-> End(start)] : start \in starts}
  BY DEF Intervals
<1> HIDE DEF End
<1>5. \A a \in starts, b \in starts : a < b => End(a) < b
  <2> SUFFICES ASSUME NEW a \in starts, NEW b \in starts, a < b
               PROVE  End(a) < b
    OBVIOUS
  <2>1. b # 0 /\ a \in Nat /\ b \in Nat
    BY <1>1
  <2>2. b - 1 \in changes /\ a <= b - 1
    BY <2>1
  <2>3. End(a) <= b - 1 /\ End(a) \in Int
    BY <1>2, <2>1, <2>2
  <2> HIDE DEF starts
  <2> QED
    BY <2>1, <2>3
<1>6. ASSUME NEW i \in 0..(n - 1)
      PROVE  \E a \in starts : i \in a..End(a)
  <2> DEFINE T == {a \in starts : a <= i}
  <2>1. T \in SUBSET (0..(n - 1)) /\ T # {} /\ n - 1 \in Nat
    BY <1>1
  <2>2. PICK a \in T : \A b \in T : b <= a
    <3> HIDE DEF T
    <3> QED
      BY <2>1, Greatest
  <2>3. a \in starts /\ a <= i /\ a \in Int /\ End(a) \in Int /\ End(a) <= n - 1
    BY <1>1, <1>2
  <2>4. ~(End(a) < i)
    <3> SUFFICES ASSUME End(a) < i PROVE FALSE
      OBVIOUS
    <3>1. End(a) # n - 1
      BY <2>3
    <3>2. End(a) + 1 \in starts /\ End(a) + 1 <= i /\ a < End(a) + 1
      BY <1>2, <1>3, <2>3, <3>1
    <3> HIDE DEF starts
    <3>3. End(a) + 1 \in T
      BY <3>2
    <3> QED
      BY <2>2, <2>3, <3>2, <3>3
  <2> HIDE DEF starts
  <2> QED
    BY <2>3, <2>4
<1> HIDE DEF starts
<1>7. /\ segments \in SUBSET [start_index : 0..(n - 1), end_index : 0..(n - 1)]
      /\ \A s \in segments : s.start_index <= s.end_index
  <2>1. \A a \in starts : a \in 0..(n - 1) /\ End(a) \in 0..(n - 1) /\ a <= End(a)
    BY <1>1, <1>2
  <2> QED
    BY <1>4, <2>1
<1>8. UNION {s.start_index..s.end_index : s \in segments} = 0..(n - 1)
  <2>1. ASSUME NEW i \in 0..(n - 1)
        PROVE  \E s \in segments : i \in s.start_index..s.end_index
    <3>1. PICK a \in starts : i \in a..End(a)
      BY <1>6
    <3> DEFINE s == [start_index |-> a, end_index |-> End(a)]
    <3>2. s \in segments /\ i \in s.start_index..s.end_index
      BY <1>4, <3>1
    <3> QED
      BY <3>2
  <2>2. \A s \in segments : s.start_index..s.end_index \subseteq 0..(n - 1)
    BY <1>7
  <2> HIDE DEF segments
  <2> QED
    BY <2>1, <2>2
<1>9. \A s, t \in segments : s = t \/ s.end_index < t.start_index \/ t.end_index < s.start_index
  <2> SUFFICES ASSUME NEW s \in segments, NEW t \in segments
               PROVE  s = t \/ s.end_index < t.start_index \/ t.end_index < s.start_index
    OBVIOUS
  <2>1. PICK a \in starts : s = [start_index |-> a, end_index |-> End(a)]
    BY <1>4
  <2>2. PICK b \in starts : t = [start_index |-> b, end_index |-> End(b)]
    BY <1>4
  <2>3. a \in Int /\ b \in Int
    BY <1>1
  <2>4. a = b \/ a < b \/ b < a
    BY <2>3
  <2> QED
    BY <1>5, <2>1, <2>2, <2>4
<1>10. \E s \in segments : s.end_index = n - 1 /\ \A t \in segments : t.start_index <= s.start_index
  <2>1. PICK a \in starts : \A b \in starts : b <= a
    <3>1. starts # {} /\ n - 1 \in Nat
      BY <1>1
    <3> QED
      BY <1>1, <3>1, Greatest
  <2>2. End(a) = n - 1
    <3>1. a \in Int /\ End(a) \in Int /\ a <= End(a)
      BY <1>1, <1>2
    <3> QED
      BY <1>3, <2>1, <3>1
  <2> DEFINE s == [start_index |-> a, end_index |-> End(a)]
  <2>3. s \in segments /\ s.end_index = n - 1 /\ s.start_index = a
    BY <1>4, <2>2
  <2>4. \A t \in segments : t.start_index <= a
    BY <1>4, <2>1
  <2> QED
    BY <2>3, <2>4
<1> QED
  BY <1>7, <1>8, <1>9, <1>10

(* What a turn makes of the minima before it.                              *)
AfterTurn(w, lower, k, before) ==
    IF before # << >> /\ k - 1 + w <= before[Len(before)] + 2 * w
    THEN IF k - 1 \in lower THEN [before EXCEPT ![Len(before)] = k - 1 + w] ELSE before
    ELSE Append(before, k - 1 + w)

(* The minima of k turns lie w or more behind the start, and more than two *)
(* windows apart.                                                          *)
Apart(w, k, minima) ==
    /\ minima \in Seq(Nat)
    /\ \A i \in 1..Len(minima) : w <= minima[i] /\ minima[i] <= k - 1 + w
    /\ \A i, j \in 1..Len(minima) : i < j => minima[i] + 2 * w < minima[j]

(* A turn keeps them apart.                                                *)
LEMMA TurnKeepsApart ==
  ASSUME NEW w \in Nat, NEW lower, NEW k \in Nat \ {0}, NEW before, Apart(w, k - 1, before)
  PROVE  Apart(w, k, AfterTurn(w, lower, k, before))
<1> DEFINE change == k - 1 + w
           last == Len(before)
<1>1. change \in Nat /\ w <= change /\ change = k - 1 + w /\ last \in Nat
  BY DEF Apart
<1>2. before \in Seq(Nat) /\ \A i \in 1..last : before[i] \in Nat
  BY DEF Apart
<1>3. \A i \in 1..last : w <= before[i] /\ before[i] < change
  <2> SUFFICES ASSUME NEW i \in 1..last PROVE w <= before[i] /\ before[i] < change
    OBVIOUS
  <2>1. w <= before[i] /\ before[i] <= (k - 1) - 1 + w
    BY DEF Apart
  <2> QED
    BY <1>2, <2>1
<1>4. \A i, j \in 1..last : i < j => before[i] + 2 * w < before[j]
  BY DEF Apart
<1>5. before # << >> => last \in 1..last
  BY <1>2
<1> HIDE DEF last, change
<1>6. CASE before # << >> /\ change <= before[last] + 2 * w /\ k - 1 \in lower
  <2> DEFINE after == [before EXCEPT ![last] = change]
  <2>1. AfterTurn(w, lower, k, before) = after
    BY <1>6 DEF AfterTurn, last, change
  <2>2. after \in Seq(Nat) /\ Len(after) = last
    BY <1>1, <1>2, <1>5, <1>6, ExceptSeq DEF last
  <2>3. after[last] = change /\ \A i \in 1..last : i # last => after[i] = before[i]
    BY <1>2, <1>5, <1>6 DEF last
  <2> HIDE DEF after
  <2>4. \A i \in 1..last : w <= after[i] /\ after[i] <= k - 1 + w
    <3> SUFFICES ASSUME NEW i \in 1..last PROVE w <= after[i] /\ after[i] <= k - 1 + w
      OBVIOUS
    <3>1. CASE i = last
      BY <1>1, <2>3, <3>1
    <3>2. CASE i # last
      <4>1. after[i] = before[i] /\ w <= before[i] /\ before[i] < change /\ before[i] \in Nat
        BY <1>2, <1>3, <2>3, <3>2
      <4> QED
        BY <1>1, <4>1
    <3> QED
      BY <3>1, <3>2
  <2>5. \A i, j \in 1..last : i < j => after[i] + 2 * w < after[j]
    <3> SUFFICES ASSUME NEW i \in 1..last, NEW j \in 1..last, i < j
                 PROVE  after[i] + 2 * w < after[j]
      OBVIOUS
    <3>1. i # last /\ after[i] = before[i] /\ before[i] + 2 * w < before[j] /\ before[i] \in Nat
      <4>1. i # last
        BY <1>1
      <4> QED
        BY <1>2, <1>4, <2>3, <4>1
    <3>2. after[j] = before[j] \/ (after[j] = change /\ before[j] < change)
      BY <1>3, <2>3
    <3>3. before[j] \in Nat
      BY <1>2
    <3> QED
      BY <1>1, <3>1, <3>2, <3>3
  <2> QED
    BY <2>1, <2>2, <2>4, <2>5 DEF Apart
<1>7. CASE before # << >> /\ change <= before[last] + 2 * w /\ k - 1 \notin lower
  <2>1. AfterTurn(w, lower, k, before) = before
    BY <1>7 DEF AfterTurn, last, change
  <2>2. \A i \in 1..last : w <= before[i] /\ before[i] <= k - 1 + w
    BY <1>1, <1>2, <1>3
  <2> QED
    BY <1>2, <1>4, <2>1, <2>2 DEF Apart, last
<1>8. CASE ~(before # << >> /\ change <= before[last] + 2 * w)
  <2> DEFINE after == Append(before, change)
  <2>1. AfterTurn(w, lower, k, before) = after
    BY <1>8 DEF AfterTurn, last, change
  <2>2. /\ after \in Seq(Nat) /\ Len(after) = last + 1
        /\ after[last + 1] = change
        /\ \A i \in 1..last : after[i] = before[i]
    BY <1>1, <1>2, AppendProperties DEF last
  <2> HIDE DEF after
  <2>3. \A i \in 1..(last + 1) : i = last + 1 \/ i \in 1..last
    BY <1>1
  <2>4. \A i \in 1..(last + 1) : w <= after[i] /\ after[i] <= k - 1 + w
    <3> SUFFICES ASSUME NEW i \in 1..(last + 1) PROVE w <= after[i] /\ after[i] <= k - 1 + w
      OBVIOUS
    <3>1. CASE i = last + 1
      BY <1>1, <2>2, <3>1
    <3>2. CASE i \in 1..last
      <4>1. after[i] = before[i] /\ w <= before[i] /\ before[i] < change /\ before[i] \in Nat
        BY <1>2, <1>3, <2>2, <3>2
      <4> QED
        BY <1>1, <4>1
    <3> QED
      BY <2>3, <3>1, <3>2
  <2>5. \A i, j \in 1..(last + 1) : i < j => after[i] + 2 * w < after[j]
    <3> SUFFICES ASSUME NEW i \in 1..(last + 1), NEW j \in 1..(last + 1), i < j
                 PROVE  after[i] + 2 * w < after[j]
      OBVIOUS
    <3>1. i \in 1..last /\ after[i] = before[i] /\ before[i] \in Nat
      <4>1. i \in 1..last
        BY <1>1
      <4> QED
        BY <1>2, <2>2, <4>1
    <3>2. CASE j \in 1..last
      BY <1>4, <2>2, <3>1, <3>2
    <3>3. CASE j = last + 1
      <4>1. last \in 1..last /\ before # << >>
        <5>1. last \in 1..last
          BY <1>1, <3>1
        <5>2. before # << >>
          BY <5>1 DEF last
        <5> QED
          BY <5>1, <5>2
      <4>2. before[last] + 2 * w < change /\ before[last] \in Nat
        <5>1. before[last] \in Nat
          BY <1>2, <4>1
        <5> QED
          BY <1>1, <1>8, <4>1, <5>1
      <4>3. before[i] <= before[last]
        <5>1. CASE i = last
          BY <3>1, <5>1
        <5>2. CASE i # last
          <6>1. i < last
            BY <1>1, <3>1, <5>2
          <6>2. before[i] + 2 * w < before[last]
            BY <1>4, <3>1, <4>1, <6>1
          <6> QED
            BY <3>1, <4>2, <6>2
        <5> QED
          BY <5>1, <5>2
      <4> QED
        BY <1>1, <2>2, <3>1, <3>3, <4>2, <4>3
    <3> QED
      BY <2>3, <3>2, <3>3
  <2> QED
    BY <2>1, <2>2, <2>4, <2>5 DEF Apart
<1> QED
  BY <1>6, <1>7, <1>8

(* The minima that are found lie more than two windows apart, whichever of *)
(* them replaced others.                                                   *)
LEMMA MinimaApart ==
  ASSUME NEW n \in Nat \ {0}, NEW w \in Nat, 4 * w <= n, NEW lower
  PROVE  Apart(w, n - 2 * w - 1, Minima(n, w, lower))
<1> DEFINE IsMinima(f) == f = [k \in 0..n |-> IF k = 0 THEN << >> ELSE AfterTurn(w, lower, k, f[k - 1])]
           minima == CHOOSE f : IsMinima(f)
           last == n - 2 * w - 1
<1>1. Minima(n, w, lower) = minima[last]
  BY DEF Minima, AfterTurn
<1>2. \E f : IsMinima(f)
  <2> DEFINE V == Seq(Nat)
             none == << >>
             g == [p \in (1..n) \X V |-> AfterTurn(w, lower, p[1], p[2])]
  <2>1. ASSUME NEW k \in 1..n, NEW before \in V
        PROVE  AfterTurn(w, lower, k, before) \in V
    <3>1. k - 1 + w \in Nat
      OBVIOUS
    <3>2. Append(before, k - 1 + w) \in Seq(Nat)
      BY <3>1
    <3>3. [before EXCEPT ![Len(before)] = k - 1 + w] \in Seq(Nat) \/ before = << >>
      <4>1. before = << >> \/ Len(before) \in 1..Len(before)
        OBVIOUS
      <4> QED
        BY <3>1, <4>1, ExceptSeq
    <3> QED
      BY <3>2, <3>3 DEF AfterTurn
  <2>2. /\ g \in [(1..n) \X V -> V]
        /\ \A k \in 1..n : \A before \in V : g[<<k, before>>] = AfterTurn(w, lower, k, before)
    BY <2>1
  <2>3. none \in V
    OBVIOUS
  <2> HIDE DEF V, g, none
  <2>4. PICK f \in [0..n -> V] : Recursion(f, n, none, g)
    <3>1. n \in Nat
      OBVIOUS
    <3>2. g \in [(1..n) \X V -> V]
      BY <2>2
    <3> QED
      BY <2>3, <3>1, <3>2, RecursionExists
  <2>5. \A k \in 1..n : f[k] = AfterTurn(w, lower, k, f[k - 1])
    <3>1. \A k \in 1..n : k - 1 \in 0..n
      OBVIOUS
    <3>2. \A k \in 1..n : f[k - 1] \in V
      BY <3>1
    <3> QED
      BY <2>2, <2>4, <3>2 DEF Recursion
  <2>6. \A k \in 0..n : f[k] = IF k = 0 THEN << >> ELSE AfterTurn(w, lower, k, f[k - 1])
    <3>1. \A k \in 0..n : k = 0 \/ k \in 1..n
      OBVIOUS
    <3>2. \A k \in 1..n : k # 0
      OBVIOUS
    <3> HIDE DEF IsMinima
    <3> QED
      BY <2>4, <2>5, <3>1, <3>2 DEF none, Recursion
  <2>7. f = [k \in 0..n |-> f[k]]
    OBVIOUS
  <2> QED
    BY <2>6, <2>7
<1>3. IsMinima(minima)
  <2> HIDE DEF IsMinima
  <2> QED
    BY <1>2
<1> HIDE DEF minima
<1>4. minima[0] = << >> /\ \A k \in 1..n : minima[k] = AfterTurn(w, lower, k, minima[k - 1])
  BY <1>3
<1> HIDE DEF IsMinima
<1> DEFINE S == {k \in Nat : k \in 0..n => Apart(w, k, minima[k])}
<1>5. 0 \in S
  <2>1. << >> \in Seq(Nat) /\ Len(<< >>) = 0 /\ 1..0 = {}
    OBVIOUS
  <2>2. Apart(w, 0, << >>)
    BY <2>1 DEF Apart
  <2> QED
    BY <1>4, <2>2
<1>6. ASSUME NEW k \in S
      PROVE  k + 1 \in S
  <2>1. k \in Nat /\ k + 1 \in Nat
    OBVIOUS
  <2>2. CASE k + 1 \in 0..n
    <3>1. k \in 0..n /\ k + 1 \in 1..n /\ (k + 1) - 1 = k
      BY <2>1, <2>2
    <3>2. Apart(w, k, minima[k])
      BY <3>1
    <3> DEFINE m == k + 1
    <3>3. m \in Nat \ {0} /\ m \in 1..n /\ m - 1 = k
      BY <2>1, <3>1
    <3> HIDE DEF m, S
    <3>4. Apart(w, m, AfterTurn(w, lower, m, minima[k]))
      BY <3>2, <3>3, TurnKeepsApart
    <3>5. Apart(w, m, minima[m])
      BY <1>4, <3>3, <3>4
    <3> QED
      BY <2>1, <3>5 DEF m, S
  <2> QED
    BY <2>1, <2>2
<1>7. last \in Nat /\ last \in 0..n
  OBVIOUS
<1>8. last \in S
  <2>1. S \in SUBSET Nat
    OBVIOUS
  <2> HIDE DEF S, last
  <2> QED
    BY <1>5, <1>6, <1>7, <2>1, Induction
<1> QED
  BY <1>1, <1>7, <1>8

(* The change points that are found, as their segments need them.          *)
LEMMA MeanChanges ==
  ASSUME NEW n \in Nat \ {0}, NEW changes \in findChangePointsOfMeanValues(n)
  PROVE  changes \in SUBSET (0..(n - 2))
<1> DEFINE w == WindowSize(n, MeanWindow)
<1>1. w \in Nat
  BY WindowFits DEF MeanWindow
<1> HIDE DEF w
<1>2. PICK m \in SUBSET MeanTurns(n, w) : changes = {MeanChange(w, c) : c \in m}
  BY DEF findChangePointsOfMeanValues, w
<1>3. \A c \in m : c + w \in 0..(n - 2)
  BY <1>1 DEF MeanTurns
<1> QED
  BY <1>2, <1>3 DEF MeanChange

LEMMA RegressionChanges ==
  ASSUME NEW n \in Nat \ {0}, NEW changes \in findChangePointsOfLinearRegressionValues(n)
  PROVE  /\ changes \in SUBSET (0..(n - 2))
         /\ \A c, d \in changes : c < d => c + 2 * WindowSize(n, RegressionWindow) < d
<1> DEFINE w == WindowSize(n, RegressionWindow)
<1>1. w \in Nat /\ 4 * w <= n
  BY WindowFits DEF RegressionWindow
<1> HIDE DEF w
<1>2. PICK lower \in SUBSET RegressionTurns(n, w) :
         \A c \in changes : \E i \in DOMAIN Minima(n, w, lower) : c = Minima(n, w, lower)[i]
  BY DEF findChangePointsOfLinearRegressionValues, w
<1> DEFINE minima == Minima(n, w, lower)
<1>3. Apart(w, n - 2 * w - 1, minima)
  BY <1>1, MinimaApart
<1>4. \A c \in changes : \E i \in 1..Len(minima) : c = minima[i]
  BY <1>2, <1>3 DEF Apart
<1> HIDE DEF minima
<1>5. \A i \in 1..Len(minima) : minima[i] \in 0..(n - 2)
  <2> SUFFICES ASSUME NEW i \in 1..Len(minima) PROVE minima[i] \in 0..(n - 2)
    OBVIOUS
  <2>1. minima[i] \in Nat /\ minima[i] <= (n - 2 * w - 1) - 1 + w
    BY <1>3 DEF Apart
  <2> QED
    BY <1>1, <2>1
<1>6. changes \in SUBSET (0..(n - 2))
  BY <1>4, <1>5
<1>7. ASSUME NEW c \in changes, NEW d \in changes, c < d
      PROVE  c + 2 * w < d
  <2>1. PICK i \in 1..Len(minima) : c = minima[i]
    BY <1>4
  <2>2. PICK j \in 1..Len(minima) : d = minima[j]
    BY <1>4
  <2>3. c \in Nat /\ d \in Nat /\ Len(minima) \in Nat
    BY <1>3, <2>1, <2>2 DEF Apart
  <2>4. i < j
    <3>1. CASE j < i
      <4>1. d + 2 * w < c
        BY <1>3, <2>1, <2>2, <3>1 DEF Apart
      <4> QED
        BY <1>1, <1>7, <2>3, <4>1
    <3>2. CASE i = j
      BY <1>7, <2>1, <2>2, <2>3, <3>2
    <3> QED
      BY <2>3, <3>1, <3>2
  <2> QED
    BY <1>3, <2>1, <2>2, <2>4 DEF Apart
<1> QED
  BY <1>6, <1>7 DEF w

=============================================================================
