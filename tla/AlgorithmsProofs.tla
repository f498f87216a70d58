--------------------------- MODULE AlgorithmsProofs ---------------------------
(***************************************************************************)
(* Theorems about the library's pure algorithms, for every width of the    *)
(* word, every modulus and operand, and every bank: ModInverse, the loop   *)
(* of find_free_blocks, and the modular arithmetic of host and DPUs.       *)
(***************************************************************************)
EXTENDS Algorithms, NaturalsInduction, WellFoundedInduction, TLAPS

-----------------------------------------------------------------------------
(***************************************************************************)
(* Induction and recursion up to a number, over sets: the library's        *)
(* induction theorems take an operator, so a set stands for the predicate  *)
(* and a least counterexample for the induction.                           *)
(***************************************************************************)
LessThan == {pair \in Nat \X Nat : pair[1] < pair[2]}

LEMMA LeastNatural ==
    ASSUME NEW S \in SUBSET Nat, S # {}
    PROVE  \E m \in S : \A t \in S : m <= t
<1>1. IsWellFoundedOn(LessThan, Nat)
  <2>1. LessThan = OpToRel(<, Nat)
    BY Zenon DEF OpToRel, LessThan
  <2> QED
    BY <2>1, NatLessThanWellFounded, Zenon
<1>2. PICK m \in S : \A t \in S : <<t, m>> \notin LessThan
  BY <1>1, WFMin, Zenon
<1>3. \A u, v \in Nat : <<u, v>> \in LessThan <=> u < v
  BY DEF LessThan
<1>4. \A t \in S : ~(t < m)
  BY <1>2, <1>3, Zenon
<1> QED
  BY <1>4

\* Induction up to n, over a set instead of a predicate.
LEMMA UpTo ==
    ASSUME NEW n \in Nat, NEW S, 0 \in S,
           \A k \in 0 .. n - 1 : k \in S => k + 1 \in S
    PROVE  \A k \in 0 .. n : k \in S
<1> DEFINE Bad == {k \in 0 .. n : k \notin S}
<1> SUFFICES ASSUME Bad # {} PROVE FALSE
  OBVIOUS
<1>1. PICK m \in Bad : \A t \in Bad : m <= t
  <2>1. Bad \in SUBSET Nat
    OBVIOUS
  <2> HIDE DEF Bad
  <2> QED
    BY <2>1, LeastNatural
<1>2. m # 0 /\ m \in 0 .. n /\ m \notin S
  BY <1>1
<1>3. m - 1 \in 0 .. n - 1 /\ m - 1 \notin Bad /\ (m - 1) + 1 = m
  BY <1>1, <1>2
<1>4. m - 1 \in S
  BY <1>3
<1> QED
  BY <1>2, <1>3, <1>4

\* Recursion up to n: there is a function that starts with v and goes on by step.
Steps(n, V, v, step) ==
    {g \in [0 .. n -> V] : \A k \in 0 .. n : g[k] = IF k = 0 THEN v ELSE step[k][g[k - 1]]}

LEMMA StepsExist ==
    ASSUME NEW n \in Nat, NEW V, NEW v \in V, NEW step \in [0 .. n -> [V -> V]]
    PROVE  Steps(n, V, v, step) # {}
<1> DEFINE Good == {m \in 0 .. n : Steps(m, V, v, step) # {}}
<1>1. 0 \in Good
  <2>1. [k \in 0 .. 0 |-> v] \in Steps(0, V, v, step)
    BY DEF Steps
  <2> QED
    BY <2>1
<1>2. ASSUME NEW m \in 0 .. n - 1, m \in Good PROVE m + 1 \in Good
  <2>1. PICK g : g \in Steps(m, V, v, step)
    BY <1>2
  <2>2. g \in [0 .. m -> V] /\ \A k \in 0 .. m : g[k] = IF k = 0 THEN v ELSE step[k][g[k - 1]]
    BY <2>1 DEF Steps
  <2> DEFINE h == [k \in 0 .. m + 1 |-> IF k = m + 1 THEN step[m + 1][g[m]] ELSE g[k]]
  <2>3. m \in Nat /\ m + 1 \in 0 .. n /\ g[m] \in V
    BY <1>2, <2>2
  <2>4. step[m + 1] \in [V -> V]
    BY <2>3
  <2>5. step[m + 1][g[m]] \in V
    BY <2>3, <2>4
  <2>6. h \in [0 .. m + 1 -> V]
    BY <2>2, <2>3, <2>5
  <2>7. ASSUME NEW k \in 0 .. m + 1 PROVE h[k] = IF k = 0 THEN v ELSE step[k][h[k - 1]]
    <3>1. CASE k = m + 1
      <4>1. k # 0 /\ k - 1 = m /\ m # m + 1 /\ m \in 0 .. m + 1
        BY <2>3, <3>1
      <4>2. h[k] = step[m + 1][g[m]] /\ h[m] = g[m]
        BY <3>1, <4>1
      <4> QED
        BY <3>1, <4>1, <4>2
    <3>2. CASE k # m + 1
      <4>1. k \in 0 .. m /\ h[k] = g[k]
        BY <2>3, <3>2
      <4>2. k # 0 => k - 1 \in 0 .. m + 1 /\ k - 1 # m + 1
        BY <2>3, <4>1
      <4>3. k # 0 => h[k - 1] = g[k - 1]
        BY <4>2
      <4> HIDE DEF h
      <4> QED
        BY <2>2, <4>1, <4>3
    <3> QED
      BY <3>1, <3>2
  <2> HIDE DEF h
  <2>8. h \in Steps(m + 1, V, v, step)
    BY <2>6, <2>7 DEF Steps
  <2> QED
    BY <2>3, <2>8
<1> HIDE DEF Good
<1>3. \A k \in 0 .. n : k \in Good
  BY <1>1, <1>2, UpTo
<1>4. n \in Good
  BY <1>3
<1> QED
  BY <1>4 DEF Good

-----------------------------------------------------------------------------
(***************************************************************************)
(* Products, quotients and residues of numbers.                            *)
(***************************************************************************)
LEMMA ProductIsLarger ==
    ASSUME NEW t \in Nat \ {0}, NEW n \in Nat
    PROVE  n <= t * n
<1>1. t - 1 \in Nat
  OBVIOUS
<1>2. (t - 1) * n \in Nat
  BY <1>1
<1>3. t * n = (t - 1) * n + n
  OBVIOUS
<1> QED
  BY <1>2, <1>3

LEMMA DivisionOf ==
    ASSUME NEW n \in Int, NEW d \in Nat \ {0}
    PROVE  /\ n \div d \in Int /\ n % d \in Nat /\ n % d < d
           /\ n = (n \div d) * d + (n % d)
           /\ n \in Nat => n \div d \in Nat
  OBVIOUS

LEMMA QuotientIs ==
    ASSUME NEW n \in Int, NEW d \in Nat \ {0}, NEW q \in Int, NEW r \in Nat,
           n = q * d + r, r < d
    PROVE  n \div d = q /\ n % d = r
<1> DEFINE p == n \div d
           s == n % d
<1>1. p \in Int /\ s \in Nat /\ s < d /\ n = p * d + s
  BY DivisionOf
<1> HIDE DEF p, s
<1>2. (p - q) * d = r - s /\ p - q \in Int
  BY <1>1
<1>3. PICK z \in Int : z = p - q
  BY <1>2
<1>4. z * d = r - s
  BY <1>2, <1>3
<1>5. ~(z >= 1)
  <2> SUFFICES ASSUME z >= 1 PROVE FALSE
    OBVIOUS
  <2>1. z - 1 \in Nat
    OBVIOUS
  <2>2. (z - 1) * d \in Nat
    BY <2>1
  <2>3. z * d = (z - 1) * d + d
    OBVIOUS
  <2> QED
    BY <1>1, <1>4, <2>2, <2>3
<1>6. ~(z <= -1)
  <2> SUFFICES ASSUME z <= -1 PROVE FALSE
    OBVIOUS
  <2>1. -z - 1 \in Nat
    OBVIOUS
  <2>2. (-z - 1) * d \in Nat
    BY <2>1
  <2>3. z * d = -((-z - 1) * d) - d
    OBVIOUS
  <2> QED
    BY <1>1, <1>4, <2>2, <2>3
<1>7. z = 0
  BY <1>5, <1>6
<1>8. p = q
  BY <1>1, <1>3, <1>7
<1>9. s = r
  BY <1>1, <1>8
<1> QED
  BY <1>8, <1>9 DEF p, s

\* Multiples of the modulus do not count.
LEMMA ModPlus ==
    ASSUME NEW n \in Int, NEW d \in Nat \ {0}, NEW k \in Int
    PROVE  (n + k * d) % d = n % d /\ n + k * d \in Int
<1> DEFINE q == n \div d
           r == n % d
<1>1. q \in Int /\ r \in Nat /\ r < d /\ n = q * d + r
  BY DivisionOf
<1> HIDE DEF q, r
<1>2. n + k * d = (q + k) * d + r /\ q + k \in Int /\ n + k * d \in Int
  BY <1>1
<1>3. PICK u \in Int, z \in Int : u = n + k * d /\ z = q + k
  BY <1>2
<1>4. u % d = r
  BY <1>1, <1>2, <1>3, QuotientIs
<1> QED
  BY <1>2, <1>3, <1>4 DEF r

LEMMA ModSmall ==
    ASSUME NEW n \in Nat, NEW d \in Nat \ {0}, n < d
    PROVE  n % d = n
<1>1. n = 0 * d + n
  OBVIOUS
<1> QED
  BY <1>1, QuotientIs

\* A number may be replaced by one that is congruent to it.
LEMMA ModProduct ==
    ASSUME NEW u \in Int, NEW v \in Int, NEW d \in Nat \ {0}
    PROVE  /\ ((u % d) * v) % d = (u * v) % d
           /\ (u * (v % d)) % d = (u * v) % d
           /\ ((u % d) * (v % d)) % d = (u * v) % d
<1> DEFINE q == u \div d
           r == u % d
           p == v \div d
           s == v % d
<1>1. q \in Int /\ r \in Nat /\ u = q * d + r /\ p \in Int /\ s \in Nat /\ v = p * d + s
  BY DivisionOf
<1> HIDE DEF q, r, p, s
<1>2. u * v = r * v + (q * v) * d /\ r * v \in Int /\ q * v \in Int /\ u * v \in Int
  BY <1>1
<1>3. u * v = u * s + (p * u) * d /\ u * s \in Int /\ p * u \in Int
  BY <1>1
<1>4. r * v = r * s + (p * r) * d /\ r * s \in Int /\ p * r \in Int
  BY <1>1
<1>5. \A e \in Int : \A f \in Int : (e + f * d) % d = e % d
  BY ModPlus, Zenon
<1>6. (r * v) % d = (u * v) % d
  BY <1>2, <1>5, Zenon
<1>7. (u * s) % d = (u * v) % d
  BY <1>2, <1>3, <1>5, Zenon
<1>8. (r * s) % d = (r * v) % d
  BY <1>2, <1>4, <1>5, Zenon
<1> QED
  BY <1>6, <1>7, <1>8 DEF r, s
-----------------------------------------------------------------------------
(***************************************************************************)
(* ModInverse: the loop's numbers, its overflow and its result.            *)
(***************************************************************************)
LEMMA ModIsNat == ASSUME TypeOK PROVE mod \in Nat \ {0} /\ 2^(W - 1) \in Nat /\ mod < 2^(W - 1)
  BY InverseAssumption DEF TypeOK

(***************************************************************************)
(* Divisibility.                                                           *)
(***************************************************************************)
LEMMA DividesIntro ==
    ASSUME NEW d \in Nat \ {0}, NEW k \in Int
    PROVE  Divides(d, k * d)
  BY DEF Divides

LEMMA DividesElim ==
    ASSUME NEW d \in Nat \ {0}, NEW n \in Int, Divides(d, n)
    PROVE  \E k \in Int : n = k * d
<1>1. n = (n \div d) * d /\ n \div d \in Int
  BY DEF Divides
<1> QED
  BY <1>1

\* What divides two numbers divides one plus any multiple of the other.
LEMMA DividesCombination ==
    ASSUME NEW d \in Nat \ {0}, NEW m \in Int, NEW n \in Int, NEW q \in Int,
           Divides(d, m), Divides(d, n)
    PROVE  Divides(d, m + q * n)
<1>1. PICK k \in Int : m = k * d
  BY DividesElim
<1>2. PICK l \in Int : n = l * d
  BY DividesElim
<1>3. m + q * n = (k + q * l) * d /\ k + q * l \in Int
  BY <1>1, <1>2
<1>4. Divides(d, (k + q * l) * d)
  BY <1>3, DividesIntro
<1> QED
  BY <1>3, <1>4

LEMMA ProductIsNat == ASSUME NEW m \in Nat, NEW n \in Nat PROVE m * n \in Nat
  OBVIOUS

LEMMA SignOfProduct ==
    ASSUME NEW q \in Nat, NEW n \in Int
    PROVE  (n >= 0 => q * n >= 0) /\ (n <= 0 => q * n <= 0)
<1>1. CASE n >= 0
  <2>1. q * n \in Nat
    BY <1>1
  <2> QED
    BY <1>1, <2>1
<1>2. CASE n <= 0
  <2>1. -n \in Nat
    BY <1>2
  <2>2. q * (-n) \in Nat
    BY <2>1
  <2>3. q * n = -(q * (-n))
    OBVIOUS
  <2> QED
    BY <1>2, <2>2, <2>3
<1> QED
  BY <1>1, <1>2

\* Two numbers that weigh out m and one has the weight c > 1.
LEMMA WeighedNumbers ==
    ASSUME NEW c \in Nat, c > 1, NEW t \in Nat, NEW n \in Nat, NEW k \in Nat,
           NEW m \in Nat, t * k + c * n = m
    PROVE  n + n <= m
<1>1. t * k \in Nat /\ c * n \in Nat
  OBVIOUS
<1>2. n <= (c - 1) * n
  BY ProductIsLarger
<1>3. c * n = (c - 1) * n + n /\ (c - 1) * n \in Int
  OBVIOUS
<1> QED
  BY <1>1, <1>2, <1>3

LEMMA Division ==
    ASSUME NEW n \in Nat, NEW t \in Nat \ {0}
    PROVE  /\ n \div t \in Nat /\ n % t \in Nat /\ n % t < t
           /\ n = (n % t) + (n \div t) * t
  OBVIOUS

-----------------------------------------------------------------------------
(***************************************************************************)
(* The argument.  The coefficients have opposite signs and weigh out the   *)
(* modulus between them (Balanced), so that neither outgrows it; and       *)
(* what divides both remainders divides both arguments (CommonDivisors).   *)
(***************************************************************************)
Balanced ==
    \/ x >= 0 /\ y <= 0 /\ modulus * x - a * y = mod
    \/ x <= 0 /\ y >= 0 /\ a * y - modulus * x = mod

\* x is strictly within the modulus, which Balanced alone does not say when the
\* loop ends with modulus = 0.
WithinModulus ==
    /\ a <= mod /\ modulus <= mod
    /\ -mod <= x /\ x <= mod /\ -mod <= y /\ y <= mod
    /\ mod > 1 => -mod < x /\ x < mod

Congruent ==
    Divides(mod, x * m_value - a) /\ Divides(mod, y * m_value - modulus)

CommonDivisors ==
    \A d \in Nat \ {0} :
        Divides(d, a) /\ Divides(d, modulus) => Divides(d, m_value) /\ Divides(d, mod)

\* Where the loop has got to.
Control ==
    /\ pc = "test" => modulus = mod /\ a < mod
    /\ pc = "reduce" => a >= 1 /\ mod > 1
    /\ pc = "trapped" => a > 1 /\ modulus = 0
    /\ pc = "thrown" => a = 0 /\ modulus = mod
    /\ pc = "returned" => \/ mod = 1
                          \/ /\ a = 1
                             /\ result = IF x < 0 THEN x + mod ELSE x

Invariant ==
    TypeOK /\ Balanced /\ WithinModulus /\ Congruent /\ CommonDivisors /\ Control

LEMMA InitInvariant == Init => Invariant
<1> SUFFICES ASSUME Init PROVE Invariant
  OBVIOUS
<1>1. /\ mod \in Nat \ {0} /\ m_value \in Nat /\ mod \in Moduli
      /\ a = m_value % mod /\ modulus = mod /\ x = 1 /\ y = 0 /\ result = 0 /\ pc = "test"
  BY InverseAssumption DEF Init
<1>2. PICK k \in Nat : m_value = a + k * mod /\ a \in Nat /\ a < mod
  <2>1. m_value \div mod \in Nat /\ m_value = a + (m_value \div mod) * mod /\ a \in Nat /\ a < mod
    BY <1>1, Division
  <2> QED
    BY <2>1
<1>3. TypeOK
  BY <1>1, <1>2 DEF TypeOK
<1>4. Balanced /\ WithinModulus /\ Control
  BY <1>1, <1>2 DEF Balanced, WithinModulus, Control
<1>5. Congruent
  <2>1. x * m_value - a = k * mod /\ y * m_value - modulus = (-1) * mod
    BY <1>1, <1>2
  <2>2. k \in Int /\ -1 \in Int
    BY <1>2
  <2>3. Divides(mod, k * mod)
    BY <1>1, <2>2, DividesIntro
  <2>4. Divides(mod, (-1) * mod)
    BY <1>1, <2>2, DividesIntro
  <2> QED
    BY <2>1, <2>3, <2>4 DEF Congruent
<1>6. CommonDivisors
  <2> SUFFICES ASSUME NEW d \in Nat \ {0}, Divides(d, a), Divides(d, modulus)
               PROVE  Divides(d, m_value) /\ Divides(d, mod)
    BY DEF CommonDivisors
  <2>1. a \in Int /\ mod \in Int /\ k \in Int /\ Divides(d, mod)
    BY <1>1, <1>2
  <2>2. Divides(d, a + k * mod)
    BY <2>1, DividesCombination
  <2> QED
    BY <1>2, <2>1, <2>2
<1> QED
  BY <1>3, <1>4, <1>5, <1>6 DEF Invariant

(***************************************************************************)
(* A round of the loop.                                                    *)
(***************************************************************************)
LEMMA Round ==
    ASSUME Invariant, Reduce
    PROVE  \E q \in Nat :
              /\ modulus >= 1 /\ a > 1 /\ mod > 1
              /\ a' = modulus /\ modulus' \in Nat /\ modulus' < modulus
              /\ a = modulus' + q * modulus
              /\ x' = y /\ y' = x - q * y
              /\ UNCHANGED <<pc, m_value, mod, result>>
<1> DEFINE q == a \div modulus
<1>1. modulus \in Nat \ {0} /\ a \in Nat /\ a > 1 /\ mod > 1
  BY DEF Invariant, TypeOK, Control, Reduce
<1>2. /\ q \in Nat /\ a % modulus \in Nat /\ a % modulus < modulus
      /\ a = (a % modulus) + q * modulus
  BY <1>1, Division
<1>3. /\ modulus' = a % modulus /\ a' = modulus /\ y' = x - q * y /\ x' = y
      /\ UNCHANGED <<pc, m_value, mod, result>>
  BY DEF Reduce
<1>4. modulus >= 1
  BY <1>1
<1> HIDE DEF q
<1>5. /\ modulus >= 1 /\ a > 1 /\ mod > 1
      /\ a' = modulus /\ modulus' \in Nat /\ modulus' < modulus
      /\ a = modulus' + q * modulus
      /\ x' = y /\ y' = x - q * y
      /\ UNCHANGED <<pc, m_value, mod, result>>
  BY <1>1, <1>2, <1>3, <1>4
<1> QED
  BY <1>2, <1>5

\* The numbers of a round: q and r are quotient and remainder, p is q * y.
LEMMA RoundNumbers ==
    ASSUME Invariant, modulus >= 1, a > 1,
           NEW q \in Nat, NEW r \in Nat, NEW p \in Int,
           a = r + q * modulus, p = q * y
    PROVE  /\ \/ y <= 0 /\ x - p >= 0 /\ modulus * (x - p) - r * y = mod
              \/ y >= 0 /\ x - p <= 0 /\ r * y - modulus * (x - p) = mod
           /\ -mod < y /\ y < mod
           /\ -mod <= x - p /\ x - p <= mod
           /\ -mod <= p /\ p <= mod
<1>1. /\ a \in Nat /\ modulus \in Nat /\ x \in Int /\ y \in Int /\ mod \in Nat \ {0}
  BY ModIsNat DEF Invariant, TypeOK
<1>2. (y <= 0 => p <= 0) /\ (y >= 0 => p >= 0)
  BY <1>1, SignOfProduct
<1>3. a * y = r * y + modulus * p
  <2>1. a * y = (r + q * modulus) * y
    OBVIOUS
  <2>2. (r + q * modulus) * y = r * y + modulus * (q * y)
    BY <1>1
  <2> QED
    BY <2>1, <2>2
<1>4. modulus * (x - p) = modulus * x - modulus * p
  BY <1>1
<1>5. r * y \in Int /\ modulus * p \in Int /\ modulus * x \in Int
  BY <1>1
<1>6. CASE x >= 0 /\ y <= 0 /\ modulus * x - a * y = mod
  <2>1. modulus * (x - p) - r * y = mod
    BY <1>3, <1>4, <1>5, <1>6
  <2>2. -y \in Nat /\ x \in Nat /\ -p \in Nat /\ x - p \in Nat
    BY <1>1, <1>2, <1>6
  <2>3. modulus * x + a * (-y) = mod
    BY <1>1, <1>6
  <2>4. -y + -y <= mod
    BY <1>1, <2>2, <2>3, WeighedNumbers
  <2>5. modulus * (x - p) \in Nat /\ r * (-y) \in Nat /\ r * (-y) = -(r * y)
    BY <1>1, <2>2, ProductIsNat
  <2>6. x - p <= modulus * (x - p)
    BY <1>1, <2>2, ProductIsLarger
  <2>7. x - p <= mod
    BY <1>1, <1>5, <2>1, <2>2, <2>5, <2>6
  <2> QED
    BY <1>1, <1>6, <2>1, <2>2, <2>4, <2>7
<1>7. CASE x <= 0 /\ y >= 0 /\ a * y - modulus * x = mod
  <2>1. r * y - modulus * (x - p) = mod
    BY <1>3, <1>4, <1>5, <1>7
  <2>2. y \in Nat /\ -x \in Nat /\ p \in Nat /\ p - x \in Nat
    BY <1>1, <1>2, <1>7
  <2>3. modulus * (-x) + a * y = mod
    BY <1>1, <1>7
  <2>4. y + y <= mod
    BY <1>1, <2>2, <2>3, WeighedNumbers
  <2>5. modulus * (p - x) \in Nat /\ r * y \in Nat /\ modulus * (p - x) = -(modulus * (x - p))
    BY <1>1, <2>2, ProductIsNat
  <2>6. p - x <= modulus * (p - x)
    BY <1>1, <2>2, ProductIsLarger
  <2>7. p - x <= mod
    BY <1>1, <1>4, <1>5, <2>1, <2>2, <2>5, <2>6
  <2> QED
    BY <1>1, <1>7, <2>1, <2>2, <2>4, <2>7
<1> QED
  BY <1>6, <1>7 DEF Invariant, Balanced

LEMMA RoundBalanced ==
    ASSUME Invariant, Reduce
    PROVE  Balanced' /\ WithinModulus'
<1>1. PICK q \in Nat :
         /\ modulus >= 1 /\ a > 1 /\ mod > 1
         /\ a' = modulus /\ modulus' \in Nat /\ modulus' < modulus
         /\ a = modulus' + q * modulus
         /\ x' = y /\ y' = x - q * y
         /\ mod' = mod
  BY Round
<1> DEFINE p == q * y
<1>2. p \in Int /\ p = q * y
  BY DEF Invariant, TypeOK
<1> HIDE DEF p
<1>3. y' = x - p
  BY <1>1, <1>2
<1>4. /\ \/ y <= 0 /\ x - p >= 0 /\ modulus * (x - p) - modulus' * y = mod
         \/ y >= 0 /\ x - p <= 0 /\ modulus' * y - modulus * (x - p) = mod
      /\ -mod < y /\ y < mod
      /\ -mod <= x - p /\ x - p <= mod
  BY <1>1, <1>2, RoundNumbers
<1>5. Balanced'
  BY <1>1, <1>3, <1>4 DEF Balanced
<1>6. modulus <= mod /\ mod \in Nat /\ modulus \in Nat /\ y \in Int
  BY ModIsNat DEF Invariant, WithinModulus, TypeOK
<1>7. a' <= mod' /\ modulus' <= mod'
  BY <1>1, <1>6
<1>8. /\ -mod' <= x' /\ x' <= mod' /\ -mod' <= y' /\ y' <= mod'
      /\ -mod' < x' /\ x' < mod'
  BY <1>1, <1>3, <1>4, <1>6
<1> QED
  BY <1>5, <1>7, <1>8 DEF WithinModulus

LEMMA RoundCongruent ==
    ASSUME Invariant, Reduce
    PROVE  Congruent' /\ CommonDivisors'
<1>1. PICK q \in Nat :
         /\ modulus >= 1 /\ a > 1
         /\ a' = modulus /\ modulus' \in Nat
         /\ a = modulus' + q * modulus
         /\ x' = y /\ y' = x - q * y
         /\ UNCHANGED <<m_value, mod>>
  BY Round
<1>2. /\ a \in Nat /\ modulus \in Nat /\ x \in Int /\ y \in Int /\ m_value \in Nat
      /\ mod \in Nat \ {0} /\ q \in Int /\ -q \in Int
  BY ModIsNat DEF Invariant, TypeOK
<1> DEFINE u == x * m_value - a
           v == y * m_value - modulus
<1>3. Divides(mod, u) /\ Divides(mod, v)
  BY DEF Invariant, Congruent
<1>4. u \in Int /\ v \in Int
  BY <1>2
<1>5. y' * m_value' - modulus' = u + (-q) * v
  <2>1. y' * m_value' = x * m_value - (q * y) * m_value
    BY <1>1, <1>2
  <2>2. (-q) * v = -((q * y) * m_value) + q * modulus
    BY <1>2
  <2> QED
    BY <1>1, <1>2, <2>1, <2>2
<1>6. x' * m_value' - a' = v
  BY <1>1
<1> HIDE DEF u, v
<1>7. Divides(mod, u + (-q) * v)
  BY <1>2, <1>3, <1>4, DividesCombination
<1>8. Congruent'
  BY <1>1, <1>3, <1>5, <1>6, <1>7 DEF Congruent
<1>9. CommonDivisors'
  <2> SUFFICES ASSUME NEW d \in Nat \ {0}, Divides(d, a'), Divides(d, modulus')
               PROVE  Divides(d, m_value) /\ Divides(d, mod)
    BY <1>1 DEF CommonDivisors
  <2>1. modulus' \in Int /\ modulus \in Int /\ Divides(d, modulus)
    BY <1>1, <1>2
  <2>2. Divides(d, modulus' + q * modulus)
    BY <1>2, <2>1, DividesCombination
  <2> QED
    BY <1>1, <2>1, <2>2 DEF Invariant, CommonDivisors
<1> QED
  BY <1>8, <1>9

LEMMA StepInvariant == Invariant /\ [Next]_vars => Invariant'
<1> SUFFICES ASSUME Invariant, [Next]_vars PROVE Invariant'
  OBVIOUS
<1>1. CASE Reduce
  <2>1. PICK q \in Nat :
           /\ modulus >= 1 /\ mod > 1
           /\ a' = modulus /\ modulus' \in Nat
           /\ x' = y /\ y' = x - q * y
           /\ UNCHANGED <<pc, m_value, mod, result>>
    BY <1>1, Round
  <2>2. x \in Int /\ y \in Int /\ modulus \in Nat /\ pc = "reduce"
    BY <1>1 DEF Invariant, TypeOK, Reduce
  <2>3. x - q * y \in Int
    BY <2>2
  <2>4. TypeOK'
    BY <2>1, <2>2, <2>3 DEF Invariant, TypeOK
  <2>5. Control'
    BY <2>1, <2>2 DEF Control
  <2> QED
    BY <1>1, <2>4, <2>5, RoundBalanced, RoundCongruent DEF Invariant
<1>2. ASSUME UNCHANGED <<m_value, mod, a, modulus, x, y>>, TypeOK', Control'
      PROVE  Invariant'
  BY <1>2 DEF Invariant, Balanced, WithinModulus, Congruent, CommonDivisors
<1>3. mod \in Nat \ {0}
  BY ModIsNat DEF Invariant
<1>4. CASE ThrowZero
  BY <1>2, <1>4 DEF Invariant, TypeOK, Control, ThrowZero
<1>5. CASE Enter
  BY <1>2, <1>3, <1>5 DEF Invariant, TypeOK, Control, Enter
<1>6. CASE Trap
  BY <1>2, <1>6 DEF Invariant, TypeOK, Control, Trap
<1>7. CASE Return
  BY <1>2, <1>3, <1>7 DEF Invariant, TypeOK, Control, Return
<1>8. CASE UNCHANGED vars
  BY <1>2, <1>8 DEF Invariant, TypeOK, Control, vars
<1> QED
  BY <1>1, <1>4, <1>5, <1>6, <1>7, <1>8 DEF Next

-----------------------------------------------------------------------------
(***************************************************************************)
(* In every round of ModInverse's loop the coefficients are Bezout's.      *)
(***************************************************************************)
THEOREM BezoutHolds == Spec => []Bezout
<1>1. Invariant => Bezout
  BY DEF Invariant, Congruent, Bezout
<1> QED
  BY <1>1, InitInvariant, StepInvariant, PTL DEF Spec

(***************************************************************************)
(* The signed variables of ModInverse and the products of its loop stay in *)
(* their word, for every modulus that is a positive number of that word.   *)
(***************************************************************************)
THEOREM NoOverflowHolds == Spec => []NoOverflow
<1>1. Invariant => NoOverflow
  <2> SUFFICES ASSUME Invariant PROVE NoOverflow
    OBVIOUS
  <2>1. mod \in Nat /\ 2^(W - 1) \in Nat /\ mod < 2^(W - 1)
    BY ModIsNat DEF Invariant
  <2>2. ASSUME NEW n \in Int, -mod <= n, n <= mod PROVE n \in Signed
    BY <2>1, <2>2 DEF Signed
  <2>3. {a, modulus, x, y} \subseteq Signed
    BY <2>1, <2>2 DEF Invariant, TypeOK, WithinModulus
  <2>4. ASSUME pc = "reduce", a > 1, modulus # 0
        PROVE  (a \div modulus) * y \in Signed /\ x - (a \div modulus) * y \in Signed
    <3> DEFINE q == a \div modulus
               r == a % modulus
               p == q * y
    <3>1. modulus >= 1 /\ modulus \in Nat \ {0} /\ a \in Nat /\ x \in Int /\ y \in Int
      BY <2>4 DEF Invariant, TypeOK
    <3>2. q \in Nat /\ r \in Nat /\ a = r + q * modulus
      BY <3>1, Division
    <3> HIDE DEF q, r
    <3>3. p \in Int /\ p = q * y
      BY <3>1, <3>2
    <3> HIDE DEF p
    <3>4. -mod <= x - p /\ x - p <= mod /\ -mod <= p /\ p <= mod
      BY <2>4, <3>1, <3>2, <3>3, RoundNumbers
    <3>5. p \in Signed /\ x - p \in Signed
      BY <2>2, <3>1, <3>3, <3>4
    <3> QED
      BY <3>5 DEF p, q
  <2> QED
    BY <2>3, <2>4 DEF NoOverflow
<1> QED
  BY <1>1, InitInvariant, StepInvariant, PTL DEF Spec

\* A number that is one modulo d.
LEMMA OneModulo ==
    ASSUME NEW d \in Nat, d > 1, NEW n \in Int, Divides(d, n - 1)
    PROVE  n % d = 1
<1>1. PICK k \in Int : n - 1 = k * d
  BY DividesElim
<1>2. n = k * d + 1
  BY <1>1
<1> DEFINE r == n % d
           j == k - (n \div d)
<1>3. n = (n \div d) * d + r /\ r \in 0 .. d - 1 /\ n \div d \in Int
  OBVIOUS
<1>4. j \in Int /\ r - 1 = j * d
  BY <1>2, <1>3
<1> HIDE DEF r, j
<1>5. CASE j >= 1
  <2>1. d <= j * d
    BY <1>4, <1>5, ProductIsLarger
  <2> QED
    BY <1>3, <1>4, <2>1
<1>6. CASE j <= -1
  <2>1. d <= (-j) * d /\ (-j) * d = -(j * d)
    BY <1>4, <1>6, ProductIsLarger
  <2> QED
    BY <1>3, <1>4, <2>1
<1>7. CASE j = 0
  BY <1>3, <1>4, <1>7 DEF r
<1> QED
  BY <1>4, <1>5, <1>6, <1>7

(***************************************************************************)
(* ModInverse returns the inverse, reduced, of every argument that has one *)
(* and refuses or divides by zero only for arguments that have none.       *)
(***************************************************************************)
THEOREM ReturnsInverseHolds == Spec => []ReturnsInverse
<1>1. Invariant => ReturnsInverse
  <2> SUFFICES ASSUME Invariant, mod > 1
               PROVE  /\ pc = "returned" => /\ result \in 1 .. mod - 1
                                            /\ (result * m_value) % mod = 1
                      /\ pc \in {"thrown", "trapped"} => ~Coprime(mod, m_value)
    BY DEF ReturnsInverse
  <2>1. /\ mod \in Nat \ {0} /\ m_value \in Nat /\ x \in Int /\ a \in Nat
        /\ -mod < x /\ x < mod /\ a <= mod
    BY ModIsNat DEF Invariant, TypeOK, WithinModulus
  <2>2. ASSUME pc = "returned"
        PROVE  result \in 1 .. mod - 1 /\ (result * m_value) % mod = 1
    <3>1. a = 1 /\ result = IF x < 0 THEN x + mod ELSE x
      BY <2>1, <2>2 DEF Invariant, Control
    <3>2. Divides(mod, x * m_value - 1)
      BY <3>1 DEF Invariant, Congruent
    <3>3. (x * m_value) % mod = 1
      BY <2>1, <3>2, OneModulo
    <3>4. x # 0
      BY <2>1, <3>3
    <3>5. result \in 1 .. mod - 1
      BY <2>1, <3>1, <3>4
    <3>6. m_value \in Int /\ m_value * mod \in Int /\ x * m_value - 1 \in Int /\ 1 \in Int
      BY <2>1
    <3>7. Divides(mod, m_value * mod)
      BY <2>1, <3>6, DividesIntro
    <3>8. Divides(mod, (x * m_value - 1) + 1 * (m_value * mod))
      BY <2>1, <3>2, <3>6, <3>7, DividesCombination
    <3>9. (x + mod) * m_value - 1 = (x * m_value - 1) + 1 * (m_value * mod)
      BY <2>1
    <3>10. ((x + mod) * m_value) % mod = 1
      BY SMTT(30), <2>1, <3>8, <3>9, OneModulo
    <3> QED
      BY <3>1, <3>3, <3>5, <3>10
  <2>3. ASSUME pc \in {"thrown", "trapped"} PROVE ~Coprime(mod, m_value)
    <3>1. ASSUME NEW d \in 2 .. mod, Divides(d, a), Divides(d, modulus)
          PROVE  ~Coprime(mod, m_value)
      BY <2>1, <3>1 DEF Invariant, CommonDivisors, Coprime
    <3>2. CASE pc = "thrown"
      <4>1. a = 0 /\ modulus = mod
        BY <3>2 DEF Invariant, Control
      <4>2. mod \in 2 .. mod /\ Divides(mod, a) /\ Divides(mod, modulus)
        BY <2>1, <4>1 DEF Divides
      <4> QED
        BY <3>1, <4>2
    <3>3. CASE pc = "trapped"
      <4>1. a > 1 /\ modulus = 0
        BY <3>3 DEF Invariant, Control
      <4>2. a \in 2 .. mod /\ Divides(a, a) /\ Divides(a, modulus)
        BY <2>1, <4>1 DEF Divides
      <4> QED
        BY <3>1, <4>2
    <3> QED
      BY <2>3, <3>2, <3>3
  <2> QED
    BY <2>2, <2>3
<1> QED
  BY <1>1, InitInvariant, StepInvariant, PTL DEF Spec
-----------------------------------------------------------------------------
(***************************************************************************)
(* Powers of two.                                                          *)
(***************************************************************************)
IsPowers(p, n) ==
    p \in [0 .. n -> Nat] /\ \A k \in 0 .. n : p[k] = IF k = 0 THEN 1 ELSE 2 * p[k - 1]

LEMMA PowersPositive ==
    ASSUME NEW n \in Nat, NEW p, IsPowers(p, n)
    PROVE  \A k \in 0 .. n : p[k] \in Nat \ {0}
<1> DEFINE S == {k \in 0 .. n : p[k] \in Nat \ {0}}
<1>1. 0 \in S
  BY DEF IsPowers
<1>2. ASSUME NEW k \in 0 .. n - 1, k \in S PROVE k + 1 \in S
  <2>1. k + 1 \in 0 .. n /\ k + 1 # 0 /\ (k + 1) - 1 = k
    OBVIOUS
  <2>2. p[k + 1] = 2 * p[k] /\ p[k] \in Nat \ {0}
    BY <1>2, <2>1 DEF IsPowers
  <2> QED
    BY <2>1, <2>2
<1> HIDE DEF S
<1>3. \A k \in 0 .. n : k \in S
  BY <1>1, <1>2, UpTo
<1> QED
  BY <1>3 DEF S

LEMMA PowersDouble ==
    ASSUME NEW n \in Nat, NEW p, IsPowers(p, n), NEW k \in 0 .. n - 1
    PROVE  p[k + 1] = 2 * p[k] /\ p[k] \in Nat \ {0} /\ p[k + 1] \in Nat \ {0}
<1>1. k + 1 \in 0 .. n /\ k \in 0 .. n /\ k + 1 # 0 /\ (k + 1) - 1 = k
  OBVIOUS
<1>2. p[k] \in Nat \ {0} /\ p[k + 1] \in Nat \ {0}
  BY <1>1, PowersPositive
<1> QED
  BY <1>1, <1>2 DEF IsPowers

LEMMA PowersMultiply ==
    ASSUME NEW n \in Nat, NEW p, IsPowers(p, n), NEW j \in 0 .. n
    PROVE  \A k \in 0 .. n - j : p[j + k] = p[j] * p[k]
<1> DEFINE S == {k \in 0 .. n - j : p[j + k] = p[j] * p[k]}
<1>1. 0 \in S
  <2>1. p[0] = 1 /\ p[j] \in Nat /\ j + 0 = j
    BY DEF IsPowers
  <2>2. p[j] = p[j] * 1
    BY <2>1
  <2> QED
    BY <2>1, <2>2
<1>2. ASSUME NEW k \in 0 .. (n - j) - 1, k \in S PROVE k + 1 \in S
  <2>1. k + 1 \in 0 .. n - j /\ k \in 0 .. n - 1 /\ j + k \in 0 .. n - 1 /\ j + (k + 1) = (j + k) + 1
    OBVIOUS
  <2>2. /\ p[k + 1] = 2 * p[k] /\ p[k] \in Nat
        /\ p[(j + k) + 1] = 2 * p[j + k] /\ p[j + k] \in Nat
    BY <2>1, PowersDouble
  <2>3. p[j] \in Nat /\ p[j + k] = p[j] * p[k]
    BY <1>2, PowersPositive
  <2>4. 2 * (p[j] * p[k]) = p[j] * (2 * p[k])
    BY <2>2, <2>3
  <2>5. p[j + (k + 1)] = p[j] * p[k + 1]
    BY <2>1, <2>2, <2>3, <2>4
  <2> QED
    BY <2>1, <2>5
<1> HIDE DEF S
<1>3. n - j \in Nat
  OBVIOUS
<1>4. \A k \in 0 .. n - j : k \in S
  BY <1>1, <1>2, <1>3, UpTo
<1> QED
  BY <1>4 DEF S

LEMMA PowersGrow ==
    ASSUME NEW n \in Nat, NEW p, IsPowers(p, n), NEW j \in 0 .. n, NEW k \in 0 .. n
    PROVE  /\ j <= k => p[j] <= p[k]
           /\ j < k => 2 * p[j] <= p[k]
<1>1. ASSUME NEW e \in 0 .. n, NEW f \in 0 .. n, e <= f PROVE p[e] <= p[f]
  <2>1. f - e \in 0 .. n - e /\ f - e \in 0 .. n /\ e + (f - e) = f
    BY <1>1
  <2>2. p[f] = p[e] * p[f - e]
    BY <2>1, PowersMultiply
  <2>3. PICK u \in Nat \ {0}, v \in Nat \ {0} : u = p[e] /\ v = p[f - e]
    BY <2>1, PowersPositive
  <2>4. u <= v * u /\ v * u = u * v
    BY <2>3, ProductIsLarger
  <2> QED
    BY <2>2, <2>3, <2>4
<1>2. ASSUME j < k PROVE 2 * p[j] <= p[k]
  <2>1. j \in 0 .. n - 1 /\ j + 1 \in 0 .. n /\ j + 1 <= k
    BY <1>2
  <2>2. p[j + 1] = 2 * p[j]
    BY <2>1, PowersDouble
  <2>3. p[j + 1] <= p[k]
    BY <1>1, <2>1
  <2> QED
    BY <2>2, <2>3
<1> QED
  BY <1>1, <1>2

LEMMA BetweenPowers ==
    ASSUME NEW n \in Nat, NEW p, IsPowers(p, n), NEW m \in Nat \ {0}, m < p[n]
    PROVE  \E k \in 1 .. n : p[k - 1] <= m /\ m < p[k]
<1> DEFINE S == {k \in 0 .. n : m < p[k] => \E e \in 1 .. n : p[e - 1] <= m /\ m < p[e]}
<1>1. 0 \in S
  BY DEF IsPowers
<1>2. ASSUME NEW k \in 0 .. n - 1, k \in S PROVE k + 1 \in S
  <2>1. k + 1 \in 1 .. n /\ k + 1 \in 0 .. n /\ (k + 1) - 1 = k /\ k \in 0 .. n
    OBVIOUS
  <2>2. p[k] \in Nat /\ p[k + 1] \in Nat
    BY PowersDouble
  <2>3. CASE m < p[k]
    BY <1>2, <2>1, <2>3
  <2>4. CASE ~(m < p[k])
    <3>1. p[k] <= m
      BY <2>2, <2>4
    <3>2. m < p[k + 1] => \E e \in 1 .. n : p[e - 1] <= m /\ m < p[e]
      BY <2>1, <3>1
    <3> QED
      BY <2>1, <3>2
  <2> QED
    BY <2>3, <2>4
<1> HIDE DEF S
<1>3. n \in S
  <2>1. \A k \in 0 .. n : k \in S
    BY <1>1, <1>2, UpTo
  <2> QED
    BY <2>1
<1> QED
  BY <1>3 DEF S

-----------------------------------------------------------------------------
(***************************************************************************)
(* The words of the calls. TwoTo has the powers of two up to those of two  *)
(* words and three bits, which is as far as the code's shifts go.          *)
(***************************************************************************)
LEMMA CallNumbers ==
    ASSUME Arith!CallsAssumption
    PROVE  /\ CallWidth \in Nat /\ CallWidth > 7 /\ CallWidth % 2 = 0
           /\ IntBits \in 2 .. CallWidth - 1
           /\ Operands \subseteq 0 .. Arith!TwoTo[CallWidth] - 1
           /\ \A m \in CallModuli : m \in 2 .. Arith!TwoTo[CallWidth - 4] - 1
  BY DEF Arith!CallsAssumption, Arith!DpuArithAssumption, Arith!WordAssumption, Arith!Words

LEMMA TwoToArePowers ==
    ASSUME Arith!CallsAssumption
    PROVE  IsPowers(Arith!TwoTo, 2 * CallWidth + 3)
<1> DEFINE n == 2 * CallWidth + 3
           step == [k \in 0 .. n |-> [v \in Nat |-> 2 * v]]
<1>1. n \in Nat
  BY CallNumbers
<1> HIDE DEF n
<1>2. step \in [0 .. n -> [Nat -> Nat]]
  OBVIOUS
<1>3. PICK g : g \in Steps(n, Nat, 1, step)
  <2> HIDE DEF step
  <2>1. 1 \in Nat
    OBVIOUS
  <2>2. Steps(n, Nat, 1, step) # {}
    BY <1>1, <1>2, <2>1, StepsExist, Zenon
  <2> QED
    BY <2>2
<1>4. g \in [0 .. n -> Nat] /\ \A k \in 0 .. n : g[k] = IF k = 0 THEN 1 ELSE 2 * g[k - 1]
  <2>1. g \in [0 .. n -> Nat] /\ \A k \in 0 .. n : g[k] = IF k = 0 THEN 1 ELSE step[k][g[k - 1]]
    BY <1>3 DEF Steps
  <2>2. ASSUME NEW k \in 0 .. n, k # 0 PROVE step[k][g[k - 1]] = 2 * g[k - 1]
    <3>1. k - 1 \in 0 .. n
      BY <1>1, <2>2
    <3>2. g[k - 1] \in Nat
      BY <2>1, <3>1
    <3> QED
      BY <3>2
  <2> HIDE DEF step
  <2> QED
    BY <2>1, <2>2
<1>5. g = [k \in 0 .. n |-> IF k = 0 THEN 1 ELSE 2 * g[k - 1]]
  BY <1>4
<1>6. Arith!TwoTo = [k \in 0 .. n |-> IF k = 0 THEN 1 ELSE 2 * Arith!TwoTo[k - 1]]
  BY <1>5 DEF Arith!TwoTo, n
<1>7. \A k \in 0 .. n : Arith!TwoTo[k] = IF k = 0 THEN 1 ELSE 2 * Arith!TwoTo[k - 1]
  BY <1>6
<1> DEFINE S == {k \in 0 .. n : Arith!TwoTo[k] \in Nat}
<1>8. 0 \in S
  BY <1>1, <1>7
<1>9. ASSUME NEW k \in 0 .. n - 1, k \in S PROVE k + 1 \in S
  <2>1. k + 1 \in 0 .. n /\ k + 1 # 0 /\ (k + 1) - 1 = k
    BY <1>1
  <2>2. Arith!TwoTo[k + 1] = 2 * Arith!TwoTo[k] /\ Arith!TwoTo[k] \in Nat
    BY <1>7, <1>9, <2>1
  <2> QED
    BY <2>1, <2>2
<1> HIDE DEF S
<1>10. \A k \in 0 .. n : k \in S
  BY <1>1, <1>8, <1>9, UpTo
<1>11. \A k \in 0 .. n : Arith!TwoTo[k] \in Nat
  BY <1>10 DEF S
<1>12. Arith!TwoTo \in [0 .. n -> Nat]
  BY <1>6, <1>11
<1> QED
  BY <1>7, <1>12 DEF IsPowers, n
LEMMA TwoToFacts ==
    ASSUME Arith!CallsAssumption
    PROVE  /\ \A k \in 0 .. 2 * CallWidth + 3 : Arith!TwoTo[k] \in Nat \ {0}
           /\ \A j, k \in 0 .. 2 * CallWidth + 3 :
                 j + k <= 2 * CallWidth + 3 => Arith!TwoTo[j + k] = Arith!TwoTo[j] * Arith!TwoTo[k]
           /\ \A j, k \in 0 .. 2 * CallWidth + 3 :
                 /\ j <= k => Arith!TwoTo[j] <= Arith!TwoTo[k]
                 /\ j < k => 2 * Arith!TwoTo[j] <= Arith!TwoTo[k]
           /\ \A k \in 0 .. 2 * CallWidth + 2 : Arith!TwoTo[k + 1] = 2 * Arith!TwoTo[k]
<1> DEFINE n == 2 * CallWidth + 3
<1>1. n \in Nat /\ IsPowers(Arith!TwoTo, n)
  BY CallNumbers, TwoToArePowers
<1>2. n - 1 = 2 * CallWidth + 2
  BY CallNumbers
<1> HIDE DEF n
<1>3. \A k \in 0 .. n : Arith!TwoTo[k] \in Nat \ {0}
  BY <1>1, PowersPositive
<1>4. ASSUME NEW j \in 0 .. n, NEW k \in 0 .. n, j + k <= n
      PROVE  Arith!TwoTo[j + k] = Arith!TwoTo[j] * Arith!TwoTo[k]
  <2>1. k \in 0 .. n - j
    BY <1>1, <1>4
  <2> QED
    BY <1>1, <2>1, PowersMultiply
<1>5. \A j, k \in 0 .. n :
         /\ j <= k => Arith!TwoTo[j] <= Arith!TwoTo[k]
         /\ j < k => 2 * Arith!TwoTo[j] <= Arith!TwoTo[k]
  BY <1>1, PowersGrow
<1>6. \A k \in 0 .. n - 1 : Arith!TwoTo[k + 1] = 2 * Arith!TwoTo[k]
  BY <1>1, PowersDouble
<1> QED
  BY <1>2, <1>3, <1>4, <1>5, <1>6 DEF n

LEMMA MSBOf ==
    ASSUME Arith!CallsAssumption, NEW m \in Nat \ {0}, m < Arith!TwoTo[2 * CallWidth]
    PROVE  /\ Arith!GetMSB(m) \in 1 .. 2 * CallWidth
           /\ Arith!TwoTo[Arith!GetMSB(m) - 1] <= m
           /\ m < Arith!TwoTo[Arith!GetMSB(m)]
<1> DEFINE n == 2 * CallWidth
           Fits(k) == m \in Arith!TwoTo[k - 1] .. Arith!TwoTo[k] - 1
<1>1. n \in Nat
  BY CallNumbers
<1>2. IsPowers(Arith!TwoTo, n + 3)
  BY TwoToArePowers
<1>3. \A k \in 0 .. n : Arith!TwoTo[k] \in Nat
  BY <1>1, <1>2, TwoToFacts
<1>4. \E k \in 1 .. n : Arith!TwoTo[k - 1] <= m /\ m < Arith!TwoTo[k]
  <2>1. m < Arith!TwoTo[n + 3]
    <3>1. Arith!TwoTo[n] <= Arith!TwoTo[n + 3] /\ Arith!TwoTo[n] \in Nat /\ Arith!TwoTo[n + 3] \in Nat
      BY <1>1, TwoToFacts
    <3> QED
      BY <3>1
  <2>2. PICK k \in 1 .. n + 3 : Arith!TwoTo[k - 1] <= m /\ m < Arith!TwoTo[k]
    <3>1. n + 3 \in Nat
      BY <1>1
    <3> HIDE DEF n
    <3> QED
      BY <1>2, <2>1, <3>1, BetweenPowers
  <2>3. ~(n <= k - 1)
    <3> SUFFICES ASSUME n <= k - 1 PROVE FALSE
      OBVIOUS
    <3>1. n \in 0 .. n + 3 /\ k - 1 \in 0 .. n + 3
      BY <1>1
    <3>2. Arith!TwoTo[n] <= Arith!TwoTo[k - 1] /\ Arith!TwoTo[n] \in Nat /\ Arith!TwoTo[k - 1] \in Nat
      BY <3>1, TwoToFacts
    <3> QED
      BY <2>2, <3>2
  <2>4. k \in 1 .. n
    BY <1>1, <2>3
  <2> QED
    BY <2>2, <2>4
<1>5. \A k \in 1 .. n : k - 1 \in 0 .. n /\ k \in 0 .. n
  BY <1>1
<1>6. \A k \in 1 .. n : Fits(k) <=> Arith!TwoTo[k - 1] <= m /\ m < Arith!TwoTo[k]
  BY <1>3, <1>5
<1>7. Arith!GetMSB(m) = CHOOSE k \in 1 .. n : Fits(k)
  BY DEF Arith!GetMSB
<1>8. \E k \in 1 .. n : Fits(k)
  BY <1>4, <1>6
<1> HIDE DEF Fits, n
<1>9. Arith!GetMSB(m) \in 1 .. n /\ Fits(Arith!GetMSB(m))
  BY <1>7, <1>8
<1> QED
  BY <1>6, <1>9 DEF n

\* What is known of a modulus m and of the number k of its bits; B is the number
\* of words.
LEMMA ModulusNumbers ==
    ASSUME Arith!CallsAssumption, NEW m \in CallModuli
    PROVE  /\ Arith!TwoTo[CallWidth] \in Nat \ {0}
           /\ m \in Nat \ {0} /\ m > 1 /\ 16 * m < Arith!TwoTo[CallWidth]
           /\ Arith!GetMSB(m) \in 2 .. CallWidth - 4
           /\ Arith!TwoTo[Arith!GetMSB(m) - 1] <= m
           /\ m < Arith!TwoTo[Arith!GetMSB(m)]
<1>1. PICK w \in Nat : w = CallWidth /\ w > 7
  BY CallNumbers
<1>2. m \in Nat \ {0} /\ m > 1 /\ m < Arith!TwoTo[w - 4]
  <2>1. Arith!TwoTo[w - 4] \in Nat /\ m \in 2 .. Arith!TwoTo[w - 4] - 1
    <3>1. w - 4 \in 0 .. 2 * w + 3
      BY <1>1
    <3> QED
      BY <1>1, <3>1, CallNumbers, TwoToFacts
  <2> QED
    BY <2>1
<1>3. \A k \in 0 .. 2 * w + 2 : Arith!TwoTo[k + 1] = 2 * Arith!TwoTo[k] /\ Arith!TwoTo[k] \in Nat \ {0}
  BY <1>1, TwoToFacts
<1>4. Arith!TwoTo[w] = 16 * Arith!TwoTo[w - 4] /\ Arith!TwoTo[w] \in Nat \ {0} /\ Arith!TwoTo[w - 4] \in Nat
  <2>1. /\ w - 4 \in 0 .. 2 * w + 2 /\ w - 3 \in 0 .. 2 * w + 2 /\ w - 2 \in 0 .. 2 * w + 2
        /\ w - 1 \in 0 .. 2 * w + 2 /\ w \in 0 .. 2 * w + 2
        /\ (w - 4) + 1 = w - 3 /\ (w - 3) + 1 = w - 2 /\ (w - 2) + 1 = w - 1 /\ (w - 1) + 1 = w
    BY <1>1
  <2>2. /\ Arith!TwoTo[w - 3] = 2 * Arith!TwoTo[w - 4] /\ Arith!TwoTo[w - 2] = 2 * Arith!TwoTo[w - 3]
        /\ Arith!TwoTo[w - 1] = 2 * Arith!TwoTo[w - 2] /\ Arith!TwoTo[w] = 2 * Arith!TwoTo[w - 1]
        /\ Arith!TwoTo[w - 4] \in Nat \ {0} /\ Arith!TwoTo[w] \in Nat \ {0}
    BY <1>3, <2>1
  <2> QED
    BY <2>2
<1>5. m < Arith!TwoTo[2 * w]
  <2>1. Arith!TwoTo[w] <= Arith!TwoTo[2 * w] /\ Arith!TwoTo[2 * w] \in Nat
    <3>1. w \in 0 .. 2 * w + 3 /\ 2 * w \in 0 .. 2 * w + 3 /\ w <= 2 * w
      BY <1>1
    <3> QED
      BY <1>1, <3>1, TwoToFacts
  <2> QED
    BY <1>2, <1>4, <2>1
<1>6. PICK k \in 1 .. 2 * w : k = Arith!GetMSB(m) /\ Arith!TwoTo[k - 1] <= m /\ m < Arith!TwoTo[k]
  BY <1>1, <1>2, <1>5, MSBOf
<1>7. k >= 2
  <2> SUFFICES ASSUME k = 1 PROVE FALSE
    BY <1>6
  <2>1. Arith!TwoTo[0] = 1 /\ Arith!TwoTo[0 + 1] = 2 * Arith!TwoTo[0]
    <3>1. 0 \in 0 .. 2 * w + 2 /\ 0 \in 0 .. 2 * w + 3
      BY <1>1
    <3> QED
      BY <1>1, <1>3, <3>1, TwoToArePowers DEF IsPowers
  <2> QED
    BY <1>2, <1>6, <2>1
<1>8. ~(w - 4 <= k - 1)
  <2> SUFFICES ASSUME w - 4 <= k - 1 PROVE FALSE
    OBVIOUS
  <2>1. w - 4 \in 0 .. 2 * w + 3 /\ k - 1 \in 0 .. 2 * w + 3
    BY <1>1, <1>6
  <2>2. Arith!TwoTo[w - 4] <= Arith!TwoTo[k - 1] /\ Arith!TwoTo[k - 1] \in Nat
    BY <1>1, <2>1, TwoToFacts
  <2> QED
    BY <1>2, <1>4, <1>6, <2>2
<1>9. k \in 2 .. w - 4
  BY <1>1, <1>6, <1>7, <1>8
<1> QED
  BY <1>1, <1>2, <1>4, <1>6, <1>9
-----------------------------------------------------------------------------
(***************************************************************************)
(* Sums and differences, and what can be called.                           *)
(***************************************************************************)
LEMMA ReducedOnce ==
    ASSUME NEW u \in Nat, NEW d \in Nat \ {0}, u < 2 * d
    PROVE  Arith!ReduceOnce(u, d) = u % d
<1>1. CASE u < d
  <2>1. u % d = u /\ ~(u >= d)
    BY <1>1, ModSmall
  <2> QED
    BY <2>1 DEF Arith!ReduceOnce
<1>2. CASE u >= d
  <2>1. PICK r \in Nat : r = u - d /\ r < d /\ u = 1 * d + r
    BY <1>2
  <2>2. u % d = r
    BY <2>1, QuotientIs
  <2> QED
    BY <1>2, <2>1, <2>2 DEF Arith!ReduceOnce
<1> QED
  BY <1>1, <1>2

LEMMA WordOf ==
    ASSUME Arith!CallsAssumption, NEW u \in Nat, u < Arith!TwoTo[CallWidth]
    PROVE  Arith!Word(u) = u
<1>1. Arith!TwoTo[CallWidth] \in Nat \ {0}
  <2>1. CallWidth \in 0 .. 2 * CallWidth + 3
    BY CallNumbers
  <2> QED
    BY <2>1, TwoToFacts
<1>2. PICK e \in Nat \ {0} : e = Arith!TwoTo[CallWidth]
  BY <1>1
<1>3. u % e = u
  BY <1>2, ModSmall
<1> QED
  BY <1>2, <1>3 DEF Arith!Word

LEMMA FastSumExact ==
    ASSUME Arith!CallsAssumption, NEW m \in CallModuli, NEW u \in Nat, NEW v \in Nat, u < m, v < m
    PROVE  Arith!ReduceOnce(Arith!Word(u + v), m) = (u + v) % m
<1>1. PICK e \in Nat : e = Arith!TwoTo[CallWidth] /\ m \in Nat \ {0} /\ 16 * m < e
  BY ModulusNumbers
<1>2. PICK s \in Nat : s = u + v /\ s < 2 * m /\ s < Arith!TwoTo[CallWidth]
  BY <1>1
<1>3. Arith!Word(s) = s
  BY <1>2, WordOf
<1>4. Arith!ReduceOnce(s, m) = s % m
  BY <1>1, <1>2, ReducedOnce
<1> QED
  BY <1>2, <1>3, <1>4

LEMMA DifferenceExact ==
    ASSUME Arith!CallsAssumption, NEW m \in CallModuli, NEW u \in Nat, NEW v \in Nat, u < m, v < m
    PROVE  Arith!Difference(u, v, m) = (u - v) % m
<1>1. PICK e \in Nat : e = Arith!TwoTo[CallWidth] /\ m \in Nat \ {0} /\ 16 * m < e
  BY ModulusNumbers
<1>2. CASE u < v
  <2>1. PICK s \in Nat : s = u + m - v /\ s < m /\ s < Arith!TwoTo[CallWidth]
    BY <1>1, <1>2
  <2>2. Arith!Word(s) = s
    BY <2>1, WordOf
  <2>3. PICK t \in Int : t = u - v /\ t = (-1) * m + s /\ -1 \in Int
    BY <1>1, <2>1
  <2>4. t % m = s
    BY <1>1, <2>1, <2>3, QuotientIs
  <2> QED
    BY <1>2, <2>1, <2>2, <2>3, <2>4 DEF Arith!Difference
<1>3. CASE ~(u < v)
  <2>1. PICK s \in Nat : s = u - v /\ s < m
    BY <1>1, <1>3
  <2>2. s % m = s
    BY <1>1, <2>1, ModSmall
  <2> QED
    BY <1>3, <2>1, <2>2 DEF Arith!Difference
<1> QED
  BY <1>2, <1>3

\* Sums and differences of residues are congruent to those of the numbers.
LEMMA ModSum ==
    ASSUME NEW u \in Int, NEW v \in Int, NEW d \in Nat \ {0}
    PROVE  /\ ((u % d) + (v % d)) % d = (u + v) % d
           /\ ((u % d) - (v % d)) % d = (u - v) % d
<1> DEFINE q == u \div d
           r == u % d
           p == v \div d
           s == v % d
<1>1. q \in Int /\ r \in Nat /\ u = q * d + r /\ p \in Int /\ s \in Nat /\ v = p * d + s
  BY DivisionOf
<1> HIDE DEF q, r, p, s
<1>2. /\ u + v = (r + s) + (q + p) * d /\ r + s \in Int /\ q + p \in Int
      /\ u - v = (r - s) + (q - p) * d /\ r - s \in Int /\ q - p \in Int
  BY <1>1
<1>3. \A e \in Int : \A f \in Int : (e + f * d) % d = e % d
  BY ModPlus, Zenon
<1>4. (r + s) % d = (u + v) % d
  BY <1>2, <1>3, Zenon
<1>5. (r - s) % d = (u - v) % d
  BY <1>2, <1>3, Zenon
<1> QED
  BY <1>4, <1>5 DEF r, s

\* Everything that can be called, as far as the types go.
Callable ==
    /\ callModulus \in CallModuli
    /\ element \in Operands
    /\ operand \in Operands \cup {Unset}

LEMMA CalledNumbers ==
    ASSUME Arith!CallsAssumption, Callable
    PROVE  /\ element \in Nat /\ element < Arith!TwoTo[CallWidth]
           /\ Arith!Called => operand \in Nat /\ operand < Arith!TwoTo[CallWidth]
<1>1. Arith!TwoTo[CallWidth] \in Nat \ {0} /\ Operands \subseteq 0 .. Arith!TwoTo[CallWidth] - 1
  <2>1. CallWidth \in 0 .. 2 * CallWidth + 3
    BY CallNumbers
  <2> QED
    BY <2>1, CallNumbers, TwoToFacts
<1>2. PICK e \in Nat : e = Arith!TwoTo[CallWidth]
  BY <1>1
<1>3. \A u \in Operands : u \in Nat /\ u < e
  BY <1>1, <1>2
<1>4. element \in Operands /\ (Arith!Called => operand \in Operands)
  BY DEF Callable, Arith!Called
<1> QED
  BY <1>2, <1>3, <1>4

LEMMA AdditiveHolds ==
    ASSUME Arith!CallsAssumption, Callable
    PROVE  Arith!AdditiveExact
<1>1. PICK m \in CallModuli : m = callModulus /\ m \in Nat \ {0}
  BY ModulusNumbers DEF Callable
<1>2. ASSUME Arith!Called
      PROVE  /\ Arith!ModAdd(element, operand, callModulus) = (element + operand) % callModulus
             /\ Arith!ModSub(element, operand, callModulus) = (element - operand) % callModulus
  <2>1. PICK u \in Nat, v \in Nat : u = element /\ v = operand
    BY <1>2, CalledNumbers
  <2>2. PICK r \in Nat, s \in Nat : r = u % m /\ s = v % m /\ r < m /\ s < m
    <3>1. m \in Nat \ {0} /\ u \in Int /\ v \in Int
      BY <1>1
    <3>2. u % m \in Nat /\ u % m < m /\ v % m \in Nat /\ v % m < m
      BY <3>1, DivisionOf, Zenon
    <3> QED
      BY <3>2, Zenon
  <2>3. Arith!ReduceOnce(Arith!Word(r + s), m) = (r + s) % m
    BY <2>2, FastSumExact
  <2>4. Arith!Difference(r, s, m) = (r - s) % m
    BY <2>2, DifferenceExact
  <2>5. (r + s) % m = (u + v) % m /\ (r - s) % m = (u - v) % m
    <3>1. m \in Nat \ {0} /\ u \in Int /\ v \in Int
      BY <1>1
    <3>2. ((u % m) + (v % m)) % m = (u + v) % m /\ ((u % m) - (v % m)) % m = (u - v) % m
      BY <3>1, ModSum, Zenon
    <3> QED
      BY <2>2, <3>2, Zenon
  <2> QED
    BY <1>1, <2>1, <2>2, <2>3, <2>4, <2>5 DEF Arith!ModAdd, Arith!ModSub
<1>3. ASSUME Arith!CalledReduced
      PROVE  /\ Arith!ModAddFast(element, operand, callModulus) = (element + operand) % callModulus
             /\ Arith!ModSubFast(element, operand, callModulus) = (element - operand) % callModulus
  <2>1. PICK u \in Nat, v \in Nat : u = element /\ v = operand /\ u < m /\ v < m
    BY <1>1, <1>3, CalledNumbers DEF Arith!CalledReduced
  <2>2. Arith!ReduceOnce(Arith!Word(u + v), m) = (u + v) % m
    BY <2>1, FastSumExact
  <2>3. Arith!Difference(u, v, m) = (u - v) % m
    BY <2>1, DifferenceExact
  <2> QED
    BY <1>1, <2>1, <2>2, <2>3 DEF Arith!ModAddFast, Arith!ModSubFast
<1> QED
  BY <1>2, <1>3 DEF Arith!AdditiveExact
-----------------------------------------------------------------------------
(***************************************************************************)
(* Shoup's multiplication: the word that is left is between minus the      *)
(* modulus and the modulus, so its sign can be told.                       *)
(***************************************************************************)
LEMMA SignedWord ==
    ASSUME Arith!CallsAssumption, NEW z \in Int,
           -Arith!TwoTo[CallWidth - 1] <= z, z < Arith!TwoTo[CallWidth - 1]
    PROVE  Arith!Signed(Arith!Word(z)) = z
<1>1. PICK h \in Nat \ {0} : h = Arith!TwoTo[CallWidth - 1] /\ Arith!TwoTo[CallWidth] = 2 * h
  <2>1. CallWidth - 1 \in 0 .. 2 * CallWidth + 2 /\ CallWidth - 1 \in 0 .. 2 * CallWidth + 3
        /\ (CallWidth - 1) + 1 = CallWidth
    BY CallNumbers
  <2>2. Arith!TwoTo[CallWidth - 1] \in Nat \ {0}
        /\ Arith!TwoTo[(CallWidth - 1) + 1] = 2 * Arith!TwoTo[CallWidth - 1]
    BY <2>1, TwoToFacts
  <2> QED
    BY <2>1, <2>2
<1>2. PICK e \in Nat \ {0} : e = Arith!TwoTo[CallWidth] /\ e = 2 * h
  BY <1>1
<1>3. CASE z >= 0
  <2>1. z \in Nat /\ z < e /\ z < h
    BY <1>1, <1>2, <1>3
  <2>2. z % e = z
    BY <1>2, <2>1, ModSmall
  <2> QED
    BY <1>1, <1>2, <2>1, <2>2 DEF Arith!Signed, Arith!Word
<1>4. CASE z < 0
  <2>1. PICK r \in Nat : r = z + e /\ r < e /\ ~(r < h) /\ z = (-1) * e + r /\ -1 \in Int
    BY <1>1, <1>2, <1>4
  <2>2. z % e = r
    BY <1>2, <2>1, QuotientIs
  <2>3. z = r - e
    BY <1>2, <2>1
  <2> QED
    BY <1>1, <1>2, <2>1, <2>2, <2>3 DEF Arith!Signed, Arith!Word
<1> QED
  BY <1>3, <1>4

LEMMA ProductBound ==
    ASSUME NEW u \in Nat, NEW v \in Nat, NEW p \in Nat, NEW q \in Nat, u <= p, v <= q
    PROVE  u * v <= p * q
<1>1. PICK j \in Nat, k \in Nat : p = u + j /\ q = v + k
  <2>1. p - u \in Nat /\ q - v \in Nat /\ p = u + (p - u) /\ q = v + (q - v)
    OBVIOUS
  <2> QED
    BY <2>1
<1>2. (u + j) * (v + k) = u * v + (u * k + j * v + j * k)
  OBVIOUS
<1>3. u * k \in Nat /\ j * v \in Nat /\ j * k \in Nat /\ u * v \in Nat
  OBVIOUS
<1> QED
  BY <1>1, <1>2, <1>3

\* Cancelling a positive factor from an inequality.
LEMMA CancelFactor ==
    ASSUME NEW u \in Int, NEW v \in Int, NEW d \in Nat \ {0}
    PROVE  /\ u * d < v * d => u < v
           /\ u * d <= v * d => u <= v
<1>1. ASSUME u >= v PROVE u * d >= v * d
  <2>1. PICK j \in Nat : u = v + j
    <3>1. u - v \in Nat /\ u = v + (u - v)
      BY <1>1
    <3> QED
      BY <3>1
  <2>2. (v + j) * d = v * d + j * d /\ j * d \in Nat /\ v * d \in Int
    OBVIOUS
  <2> QED
    BY <2>1, <2>2
<1>2. ASSUME u > v PROVE u * d > v * d
  <2>1. PICK j \in Nat : u = v + 1 + j
    <3>1. u - v - 1 \in Nat /\ u = v + 1 + (u - v - 1)
      BY <1>2
    <3> QED
      BY <3>1
  <2>2. (v + 1 + j) * d = v * d + d + j * d /\ j * d \in Nat /\ v * d \in Int
    OBVIOUS
  <2> QED
    BY <2>1, <2>2
<1>3. u * d \in Int /\ v * d \in Int
  OBVIOUS
<1> QED
  BY <1>1, <1>2, <1>3

\* The quotient from Shoup's factor leaves less than twice the modulus: times
\* the number e of words, what is left is u times a remainder by m plus m times
\* a remainder by e.
LEMMA ShoupQuotient ==
    ASSUME NEW m \in Nat \ {0}, NEW e \in Nat \ {0}, m < e,
           NEW u \in Nat, NEW v \in Nat, u < m, v < m
    PROVE  LET q == (u * ((v * e) \div m)) \div e
           IN  q \in Nat /\ u * v - q * m \in Nat /\ u * v - q * m < 2 * m
<1> DEFINE f == (v * e) \div m
           q == (u * f) \div e
<1>1. PICK r \in Nat : v * e = f * m + r /\ r < m /\ f \in Nat
  <2>1. v * e \in Nat
    OBVIOUS
  <2>2. PICK n \in Nat : n = v * e
    BY <2>1
  <2>3. n \div m \in Nat /\ n % m \in Nat /\ n % m < m /\ n = (n \div m) * m + (n % m)
    BY DivisionOf
  <2> QED
    BY <2>2, <2>3
<1> HIDE DEF f
<1>2. PICK s \in Nat : u * f = q * e + s /\ s < e /\ q \in Nat
  <2>1. u * f \in Nat
    BY <1>1
  <2>2. PICK n \in Nat : n = u * f
    BY <2>1
  <2>3. n \div e \in Nat /\ n % e \in Nat /\ n % e < e /\ n = (n \div e) * e + (n % e)
    BY DivisionOf
  <2> QED
    BY <2>2, <2>3
<1> HIDE DEF q
<1>3. (u * v - q * m) * e = u * r + m * s
  <2>1. (u * v - q * m) * e = u * (v * e) - m * (q * e)
    BY <1>2
  <2>2. u * (v * e) = u * (f * m + r)
    BY <1>1
  <2>3. q * e = u * f - s
    BY <1>1, <1>2
  <2>4. m * (q * e) = m * (u * f - s)
    BY <2>3
  <2>5. u * (f * m + r) - m * (u * f - s) = u * r + m * s
    BY <1>1, <1>2
  <2> QED
    BY <2>1, <2>2, <2>4, <2>5
<1>4. PICK t \in Int : t = u * v - q * m
  BY <1>2
<1>5. u * r \in Nat /\ m * s \in Nat /\ u * r <= m * e /\ m * s <= m * (e - 1) /\ m * (e - 1) = m * e - m
  <2>1. u <= m /\ r <= e /\ m <= m /\ s <= e - 1 /\ e - 1 \in Nat /\ e \in Nat /\ m \in Nat
    BY <1>1, <1>2
  <2>2. u * r <= m * e
    BY <2>1, ProductBound
  <2>3. m * s <= m * (e - 1)
    BY <2>1, ProductBound
  <2>4. m * (e - 1) = m * e - m
    OBVIOUS
  <2> QED
    BY <2>2, <2>3, <2>4
<1>6. t * e = u * r + m * s
  BY <1>3, <1>4
<1>7. m * e \in Nat /\ 0 * e = 0 /\ (2 * m) * e = m * e + m * e
  OBVIOUS
<1>8. 0 * e <= t * e /\ t * e < (2 * m) * e
  <2>1. PICK g \in Nat, h \in Nat, k \in Nat : g = u * r /\ h = m * s /\ k = m * e
    BY <1>5, <1>7
  <2>2. g <= k /\ h <= k - m
    BY <1>5, <2>1
  <2>3. t * e = g + h
    BY <1>6, <2>1
  <2> QED
    BY <1>7, <2>1, <2>2, <2>3
<1>9. 0 <= t
  BY <1>8, CancelFactor
<1>10. t < 2 * m
  <2>1. 2 * m \in Int
    OBVIOUS
  <2> QED
    BY <1>8, <2>1, CancelFactor
<1>11. t \in Nat
  BY <1>9
<1> QED
  BY <1>2, <1>4, <1>10, <1>11 DEF f, q

LEMMA ShoupHolds ==
    ASSUME Arith!CallsAssumption, Callable
    PROVE  Arith!ShoupExact
<1> SUFFICES ASSUME Arith!CalledReduced
             PROVE  Arith!ModMulFastConst(element, operand, callModulus,
                                          Arith!PrepModMulConst(operand, callModulus))
                        = (element * operand) % callModulus
  BY DEF Arith!ShoupExact
<1>1. PICK m \in CallModuli : m = callModulus /\ m \in Nat \ {0}
  BY ModulusNumbers DEF Callable
<1>2. PICK u \in Nat, v \in Nat : u = element /\ v = operand /\ u < m /\ v < m
  BY <1>1, CalledNumbers DEF Arith!CalledReduced
<1>3. PICK h \in Nat : /\ h = Arith!TwoTo[CallWidth - 1] /\ Arith!TwoTo[CallWidth] = 2 * h
                       /\ 16 * m < 2 * h
  <2>1. CallWidth - 1 \in 0 .. 2 * CallWidth + 2 /\ CallWidth - 1 \in 0 .. 2 * CallWidth + 3
        /\ (CallWidth - 1) + 1 = CallWidth
    BY CallNumbers
  <2>2. Arith!TwoTo[CallWidth - 1] \in Nat /\ 16 * m < Arith!TwoTo[CallWidth]
        /\ Arith!TwoTo[(CallWidth - 1) + 1] = 2 * Arith!TwoTo[CallWidth - 1]
    BY <2>1, TwoToFacts, ModulusNumbers
  <2> QED
    BY <2>1, <2>2
<1>4. PICK e \in Nat \ {0} : e = Arith!TwoTo[CallWidth] /\ m < e
  BY <1>1, <1>3
<1> DEFINE q == (u * ((v * e) \div m)) \div e
<1>5. q \in Nat /\ u * v - q * m \in Nat /\ u * v - q * m < 2 * m
  BY <1>1, <1>2, <1>4, ShoupQuotient
<1>6. Arith!ModMulFastConst(u, v, m, Arith!PrepModMulConst(v, m))
        = LET z == Arith!Signed(Arith!Word(u * v - (q + 1) * m))
          IN  IF z >= 0 THEN z ELSE z + m
  BY <1>4 DEF Arith!ModMulFastConst, Arith!PrepModMulConst, Arith!Hi
<1> HIDE DEF q
<1>7. PICK t \in Nat : t = u * v - q * m /\ t < 2 * m
  BY <1>5
<1>8. PICK z \in Int : z = t - m /\ -h <= z /\ z < h
  BY <1>1, <1>3, <1>7
<1>9. u * v - (q + 1) * m = z
  <2>1. u * v - (q + 1) * m = (u * v - q * m) - m
    BY <1>1, <1>5
  <2> QED
    BY <1>7, <1>8, <2>1
<1>10. Arith!Signed(Arith!Word(z)) = z
  BY <1>3, <1>8, SignedWord
<1>11. Arith!ModMulFastConst(u, v, m, Arith!PrepModMulConst(v, m)) = IF z >= 0 THEN z ELSE z + m
  BY <1>6, <1>9, <1>10
<1>12. (IF z >= 0 THEN z ELSE z + m) = t % m
  <2>1. Arith!ReduceOnce(t, m) = t % m
    BY <1>1, <1>7, ReducedOnce
  <2>2. Arith!ReduceOnce(t, m) = IF z >= 0 THEN z ELSE z + m
    BY <1>1, <1>8 DEF Arith!ReduceOnce
  <2> QED
    BY <2>1, <2>2
<1>13. (u * v) % m = t % m
  <2>1. u * v = t + q * m /\ q \in Int /\ t \in Int
    BY <1>1, <1>5, <1>7
  <2>2. (t + q * m) % m = t % m
    BY <1>1, <2>1, ModPlus, Zenon
  <2> QED
    BY <2>1, <2>2, Zenon
<1> QED
  BY <1>1, <1>2, <1>11, <1>12, <1>13
-----------------------------------------------------------------------------
(***************************************************************************)
(* Changing the modulus keeps the centred number.                          *)
(***************************************************************************)
LEMMA SwitchToLarger ==
    ASSUME Arith!CallsAssumption, NEW m \in CallModuli, NEW n \in CallModuli, n > m,
           NEW v \in Nat, v < m
    PROVE  Arith!SwitchModulus(v, m, n) = Arith!Centred(v, m) % n
<1>1. PICK e \in Nat : /\ e = Arith!TwoTo[CallWidth]
                       /\ m \in Nat \ {0} /\ n \in Nat \ {0} /\ 16 * m < e /\ 16 * n < e
  BY ModulusNumbers
<1>2. CASE v > m \div 2
  <2>1. PICK r \in Nat : r = v + (n - m) /\ r < n /\ r < Arith!TwoTo[CallWidth]
    BY <1>1
  <2>2. Arith!Word(r) = r
    BY <2>1, WordOf
  <2>3. PICK z \in Int : z = v - m /\ z = (-1) * n + r /\ -1 \in Int
    BY <1>1, <2>1
  <2>4. z % n = r
    <3>1. n \in Nat \ {0} /\ r < n /\ z = (-1) * n + r /\ -1 \in Int
      BY <1>1, <2>1, <2>3
    <3> QED
      BY <3>1, QuotientIs, ZenonT(60)
  <2>5. ~(n <= m)
    BY <1>1
  <2> QED
    BY <1>2, <2>1, <2>2, <2>3, <2>4, <2>5 DEF Arith!SwitchModulus, Arith!Centred
<1>3. CASE ~(v > m \div 2)
  <2>1. v < n /\ ~(n <= m)
    BY <1>1
  <2>2. v % n = v
    BY <1>1, <2>1, ModSmall
  <2> QED
    BY <1>3, <2>1, <2>2 DEF Arith!SwitchModulus, Arith!Centred
<1> QED
  BY <1>2, <1>3

LEMMA SwitchToSmaller ==
    ASSUME Arith!CallsAssumption, NEW m \in CallModuli, NEW n \in CallModuli, n <= m,
           NEW v \in Nat, v < m
    PROVE  Arith!SwitchModulus(v, m, n) = Arith!Centred(v, m) % n
<1>1. PICK e \in Nat : /\ e = Arith!TwoTo[CallWidth]
                       /\ m \in Nat \ {0} /\ n \in Nat \ {0} /\ 16 * m < e /\ 16 * n < e
  BY ModulusNumbers
<1>2. \A w \in Nat : (IF w >= n THEN w % n ELSE w) = w % n
  <2>1. \A w \in Nat : ~(w >= n) => w % n = w
    BY <1>1, ModSmall
  <2> QED
    BY <2>1
<1>3. n <= m /\ ~(n > m)
  BY <1>1
<1>4. CASE v > m \div 2
  <2>1. PICK q \in Nat, r \in Nat : q = m \div n /\ r = m % n /\ r < n /\ m = q * n + r
    <3>1. m \div n \in Nat /\ m % n \in Nat /\ m % n < n /\ m = (m \div n) * n + (m % n)
      BY <1>1, DivisionOf
    <3> QED
      BY <3>1
  <2>2. PICK w \in Nat : w = v + (n - r) /\ w < Arith!TwoTo[CallWidth]
    <3>1. r < n
      BY <2>1
    <3>2. v + (n - r) \in Nat /\ v + (n - r) < e
      BY <1>1, <3>1
    <3> QED
      BY <1>1, <3>2
  <2>3. Arith!Word(w) = w
    BY <2>2, WordOf
  <2>4. Arith!SwitchModulus(v, m, n) = IF w >= n THEN w % n ELSE w
    BY <1>3, <1>4, <2>1, <2>2, <2>3 DEF Arith!SwitchModulus
  <2>5. w = (v - m) + (q + 1) * n /\ v - m \in Int /\ q + 1 \in Int
    <3>1. (q + 1) * n = q * n + n /\ q * n \in Nat
      BY <1>1
    <3> QED
      BY <1>1, <2>1, <2>2, <3>1
  <2>6. ((v - m) + (q + 1) * n) % n = (v - m) % n
    BY <1>1, <2>5, ModPlus, Zenon
  <2>7. w % n = (v - m) % n
    BY <2>5, <2>6, Zenon
  <2>8. Arith!Centred(v, m) = v - m
    BY <1>4 DEF Arith!Centred
  <2> QED
    BY <1>2, <2>4, <2>7, <2>8
<1>5. CASE ~(v > m \div 2)
  <2>1. Arith!SwitchModulus(v, m, n) = (IF v >= n THEN v % n ELSE v)
    BY <1>3, <1>5 DEF Arith!SwitchModulus
  <2>2. Arith!Centred(v, m) = v
    BY <1>5 DEF Arith!Centred
  <2> QED
    BY <1>2, <2>1, <2>2
<1> QED
  BY <1>4, <1>5

LEMMA SwitchToTwo ==
    ASSUME NEW m \in Nat \ {0}, m % 2 = 1, NEW v \in Nat
    PROVE  Arith!ModByTwo(v, m) = Arith!Centred(v, m) % 2
<1>1. PICK q \in Nat : m = q * 2 + 1
  <2>1. m \div 2 \in Nat /\ m = (m \div 2) * 2 + (m % 2)
    BY DivisionOf
  <2> QED
    BY <2>1
<1>2. CASE v > m \div 2
  <2>1. v + 1 = (v - m) + (q + 1) * 2 /\ v - m \in Int /\ q + 1 \in Int
    BY <1>1
  <2>2. ((v - m) + (q + 1) * 2) % 2 = (v - m) % 2
    BY <2>1
  <2> QED
    BY <1>2, <2>1, <2>2 DEF Arith!ModByTwo, Arith!Centred
<1>3. CASE ~(v > m \div 2)
  BY <1>3 DEF Arith!ModByTwo, Arith!Centred
<1> QED
  BY <1>2, <1>3

LEMMA SwitchHolds ==
    ASSUME Arith!CallsAssumption, Callable
    PROVE  Arith!SwitchKeepsCentred
<1> SUFFICES ASSUME Arith!Called, element < callModulus, operand \in CallModuli,
                    operand = 2 => callModulus % 2 = 1
             PROVE  Arith!VectorMod(element, callModulus, operand)
                        = Arith!Centred(element, callModulus) % operand
  BY DEF Arith!SwitchKeepsCentred
<1>1. PICK m \in CallModuli : m = callModulus /\ m \in Nat \ {0}
  BY ModulusNumbers DEF Callable
<1>2. PICK v \in Nat : v = element /\ v < m
  BY <1>1, CalledNumbers
<1>3. PICK n \in CallModuli : n = operand /\ n \in Nat
  BY ModulusNumbers
<1>4. CASE n = 2
  BY <1>1, <1>2, <1>3, <1>4, SwitchToTwo DEF Arith!VectorMod
<1>5. CASE n # 2
  <2>1. Arith!SwitchModulus(v, m, n) = Arith!Centred(v, m) % n
    <3>1. n > m \/ n <= m
      BY <1>1, <1>3
    <3> QED
      BY <1>2, <3>1, SwitchToLarger, SwitchToSmaller
  <2> QED
    BY <1>1, <1>2, <1>3, <1>5, <2>1 DEF Arith!VectorMod
<1> QED
  BY <1>4, <1>5
-----------------------------------------------------------------------------
(***************************************************************************)
(* Square and multiply.                                                    *)
(***************************************************************************)
Rounds == [t : Nat, r : Nat]

\* g holds the variables t and r of ModExp after each round.
ExpRounds(g, u, e, m) ==
    /\ g \in [0 .. CallWidth -> Rounds]
    /\ g[0] = [t |-> u, r |-> IF Arith!Bit(e, 0) THEN u % m ELSE 1]
    /\ \A k \in 1 .. CallWidth :
          /\ g[k].t = (g[k - 1].t * g[k - 1].t) % m
          /\ g[k].r = IF Arith!Bit(e, k) THEN (g[k - 1].r * g[k].t) % m ELSE g[k - 1].r
    /\ Arith!ModExp(u, e, m) = g[IF e = 0 THEN 0 ELSE Arith!GetMSB(e) - 1].r

LEMMA ModExpSteps ==
    ASSUME Arith!CallsAssumption, NEW u \in Nat, NEW e \in Nat, NEW m \in Nat \ {0}
    PROVE  \E g : ExpRounds(g, u, e, m)
<1> DEFINE n == CallWidth
           v == [t |-> u, r |-> IF Arith!Bit(e, 0) THEN u % m ELSE 1]
           Next1(k, s) == [t |-> (s.t * s.t) % m,
                           r |-> IF Arith!Bit(e, k) THEN (s.r * ((s.t * s.t) % m)) % m ELSE s.r]
           step == [k \in 0 .. n |-> [s \in Rounds |-> Next1(k, s)]]
<1>1. n \in Nat
  BY CallNumbers
<1>2. v \in Rounds
  <2>1. u % m \in Nat /\ 1 \in Nat
    BY DivisionOf
  <2> QED
    BY <2>1 DEF Rounds
<1>3. ASSUME NEW k, NEW s \in Rounds PROVE Next1(k, s) \in Rounds
  <2>1. PICK p \in Nat, q \in Nat : p = s.t /\ q = s.r
    BY DEF Rounds
  <2>2. PICK z \in Nat : z = (p * p) % m
    <3>1. p * p \in Nat
      OBVIOUS
    <3> QED
      BY <3>1, DivisionOf
  <2>3. (q * z) % m \in Nat
    <3>1. q * z \in Nat
      OBVIOUS
    <3> QED
      BY <3>1, DivisionOf
  <2> QED
    BY <2>1, <2>2, <2>3 DEF Rounds
<1> HIDE DEF v, Next1, n
<1>4. step \in [0 .. n -> [Rounds -> Rounds]]
  BY <1>3
<1>5. PICK g : g \in Steps(n, Rounds, v, step)
  <2> HIDE DEF step
  <2>1. Steps(n, Rounds, v, step) # {}
    BY <1>1, <1>2, <1>4, StepsExist, Zenon
  <2> QED
    BY <2>1
<1>6. g \in [0 .. n -> Rounds] /\ \A k \in 0 .. n : g[k] = IF k = 0 THEN v ELSE step[k][g[k - 1]]
  BY <1>5 DEF Steps
<1>7. ASSUME NEW k \in 0 .. n, k # 0
      PROVE  k - 1 \in 0 .. n /\ g[k - 1] \in Rounds /\ g[k] = Next1(k, g[k - 1])
  <2>1. k - 1 \in 0 .. n
    BY <1>1, <1>7
  <2>2. g[k - 1] \in Rounds
    BY <1>6, <2>1
  <2>3. step[k][g[k - 1]] = Next1(k, g[k - 1])
    BY <2>2
  <2> HIDE DEF step
  <2> QED
    BY <1>6, <1>7, <2>1, <2>2, <2>3
<1>8. g = [k \in 0 .. n |-> IF k = 0 THEN v ELSE Next1(k, g[k - 1])]
  <2>1. \A k \in 0 .. n : g[k] = IF k = 0 THEN v ELSE Next1(k, g[k - 1])
    <3> HIDE DEF step
    <3> QED
      BY <1>6, <1>7
  <2> HIDE DEF step
  <2> QED
    BY <1>6, <2>1
<1> HIDE DEF step
<1> DEFINE After == CHOOSE h : h = [k \in 0 .. n |-> IF k = 0 THEN v ELSE Next1(k, h[k - 1])]
<1>9. After = [k \in 0 .. n |-> IF k = 0 THEN v ELSE Next1(k, After[k - 1])]
  BY <1>8
<1>10. Arith!ModExp(u, e, m) = After[IF e = 0 THEN 0 ELSE Arith!GetMSB(e) - 1].r
  BY DEF Arith!ModExp, n, v, Next1
<1> HIDE DEF After
<1>11. \A k \in 0 .. n : After[k] = IF k = 0 THEN v ELSE Next1(k, After[k - 1])
  BY <1>9
<1> DEFINE S == {k \in 0 .. n : After[k] \in Rounds}
<1>12. \A k \in 0 .. n : k \in S
  <2>1. 0 \in S
    BY <1>1, <1>2, <1>11
  <2>2. ASSUME NEW k \in 0 .. n - 1, k \in S PROVE k + 1 \in S
    <3>1. k + 1 \in 0 .. n /\ k + 1 # 0 /\ (k + 1) - 1 = k
      BY <1>1
    <3>2. After[k + 1] = Next1(k + 1, After[k]) /\ After[k] \in Rounds
      BY <1>11, <2>2, <3>1
    <3> QED
      BY <1>3, <3>1, <3>2
  <2> HIDE DEF S
  <2> QED
    BY <1>1, <2>1, <2>2, UpTo
<1>13. After \in [0 .. n -> Rounds]
  <2>1. \A k \in 0 .. n : After[k] \in Rounds
    BY <1>12
  <2> QED
    BY <1>9, <2>1
<1>14. After[0] = v
  BY <1>1, <1>11
<1>15. ASSUME NEW k \in 1 .. n
       PROVE  /\ After[k].t = (After[k - 1].t * After[k - 1].t) % m
              /\ After[k].r = IF Arith!Bit(e, k) THEN (After[k - 1].r * After[k].t) % m
                                                 ELSE After[k - 1].r
  <2>1. After[k] = Next1(k, After[k - 1])
    <3>1. k \in 0 .. n /\ k # 0
      BY <1>1
    <3> QED
      BY <1>11, <3>1
  <2> QED
    BY <2>1 DEF Next1
<1>16. ExpRounds(After, u, e, m)
  BY <1>10, <1>13, <1>14, <1>15 DEF v, n, ExpRounds
<1> QED
  BY <1>16
LEMMA PowerUnfolds ==
    ASSUME MaxExponent \in Nat, element \in Nat, callModulus \in Nat, callModulus > 1
    PROVE  /\ Arith!Power[0] = 1
           /\ \A k \in 1 .. MaxExponent :
                 Arith!Power[k] = (Arith!Power[k - 1] * element) % callModulus
           /\ \A k \in 0 .. MaxExponent : Arith!Power[k] \in Nat /\ Arith!Power[k] < callModulus
<1> DEFINE n == MaxExponent
           u == element
           m == callModulus
           step == [k \in 0 .. n |-> [s \in Nat |-> (s * u) % m]]
<1>1. n \in Nat /\ u \in Nat /\ m \in Nat /\ m > 1
  OBVIOUS
<1> HIDE DEF n, u, m
<1>2. ASSUME NEW s \in Nat PROVE (s * u) % m \in Nat /\ (s * u) % m < m
  <2>1. s * u \in Nat
    BY <1>1
  <2> QED
    BY <1>1, <2>1, DivisionOf
<1>3. step \in [0 .. n -> [Nat -> Nat]]
  BY <1>2
<1>4. PICK g : g \in Steps(n, Nat, 1, step)
  <2> HIDE DEF step
  <2>1. 1 \in Nat
    OBVIOUS
  <2>2. Steps(n, Nat, 1, step) # {}
    BY <1>1, <1>3, <2>1, StepsExist, Zenon
  <2> QED
    BY <2>2
<1>5. g \in [0 .. n -> Nat] /\ \A k \in 0 .. n : g[k] = IF k = 0 THEN 1 ELSE step[k][g[k - 1]]
  BY <1>4 DEF Steps
<1>6. \A k \in 0 .. n : g[k] = IF k = 0 THEN 1 ELSE (g[k - 1] * u) % m
  <2> SUFFICES ASSUME NEW k \in 0 .. n, k # 0 PROVE g[k] = (g[k - 1] * u) % m
    <3> HIDE DEF step
    <3> QED
      BY <1>5
  <2>1. k - 1 \in 0 .. n
    BY <1>1
  <2>2. g[k - 1] \in Nat
    BY <1>5, <2>1
  <2>3. step[k][g[k - 1]] = (g[k - 1] * u) % m
    BY <2>2
  <2> HIDE DEF step
  <2> QED
    BY <1>5, <2>3
<1> HIDE DEF step
<1>7. g = [k \in 0 .. n |-> IF k = 0 THEN 1 ELSE (g[k - 1] * u) % m]
  BY <1>5, <1>6
<1>8. Arith!Power = [k \in 0 .. n |-> IF k = 0 THEN 1 ELSE (Arith!Power[k - 1] * u) % m]
  BY <1>7 DEF Arith!Power, n, u, m
<1>9. \A k \in 0 .. n : Arith!Power[k] = IF k = 0 THEN 1 ELSE (Arith!Power[k - 1] * u) % m
  BY <1>8
<1>10. Arith!Power[0] = 1
  BY <1>1, <1>9
<1> DEFINE S == {k \in 0 .. n : Arith!Power[k] \in Nat /\ Arith!Power[k] < m}
<1>11. \A k \in 0 .. n : k \in S
  <2>1. 0 \in S
    BY <1>1, <1>10
  <2>2. ASSUME NEW k \in 0 .. n - 1, k \in S PROVE k + 1 \in S
    <3>1. k + 1 \in 0 .. n /\ k + 1 # 0 /\ (k + 1) - 1 = k
      BY <1>1
    <3>2. Arith!Power[k + 1] = (Arith!Power[k] * u) % m /\ Arith!Power[k] \in Nat
      BY <1>9, <2>2, <3>1
    <3>3. (Arith!Power[k] * u) % m \in Nat /\ (Arith!Power[k] * u) % m < m
      BY <1>2, <3>2
    <3> QED
      BY <3>1, <3>2, <3>3
  <2> HIDE DEF S
  <2> QED
    BY <1>1, <2>1, <2>2, UpTo
<1>12. \A k \in 1 .. n : k \in 0 .. n /\ k # 0
  BY <1>1
<1>13. \A k \in 1 .. n : Arith!Power[k] = (Arith!Power[k - 1] * u) % m
  BY <1>9, <1>12
<1> QED
  BY <1>10, <1>11, <1>13 DEF n, u, m

LEMMA PowersAdd ==
    ASSUME MaxExponent \in Nat, element \in Nat, callModulus \in Nat, callModulus > 1,
           NEW j \in 0 .. MaxExponent
    PROVE  \A k \in 0 .. MaxExponent - j :
              Arith!Power[j + k] = (Arith!Power[j] * Arith!Power[k]) % callModulus
<1> DEFINE n == MaxExponent
           u == element
           m == callModulus
           Pow(k) == Arith!Power[k]
<1>1. n \in Nat /\ u \in Nat /\ m \in Nat \ {0} /\ m > 1 /\ j \in 0 .. n
  OBVIOUS
<1>2. /\ Pow(0) = 1
      /\ \A k \in 1 .. n : Pow(k) = (Pow(k - 1) * u) % m
      /\ \A k \in 0 .. n : Pow(k) \in Nat /\ Pow(k) < m
  BY PowerUnfolds
<1> HIDE DEF n, u, m, Pow
<1> DEFINE S == {k \in 0 .. n - j : Pow(j + k) = (Pow(j) * Pow(k)) % m}
<1>3. 0 \in S
  <2>1. PICK p \in Nat : p = Pow(j) /\ p < m
    BY <1>1, <1>2
  <2>2. p % m = p /\ p * 1 = p /\ j + 0 = j
    BY <1>1, <2>1, ModSmall
  <2> QED
    BY <1>1, <1>2, <2>1, <2>2
<1>4. ASSUME NEW k \in 0 .. (n - j) - 1, k \in S PROVE k + 1 \in S
  <2>1. /\ k + 1 \in 0 .. n - j /\ k + 1 \in 1 .. n /\ (k + 1) - 1 = k /\ k \in 0 .. n
        /\ j + (k + 1) \in 1 .. n /\ (j + (k + 1)) - 1 = j + k /\ j + k \in 0 .. n
    BY <1>1
  <2>2. PICK p \in Nat, q \in Nat : p = Pow(j) /\ q = Pow(k)
    BY <1>1, <1>2, <2>1
  <2>3. Pow(j + (k + 1)) = (Pow(j + k) * u) % m /\ Pow(k + 1) = (q * u) % m
    BY <1>2, <2>1, <2>2
  <2>4. Pow(j + k) = (p * q) % m
    BY <1>4, <2>2
  <2>5. (((p * q) % m) * u) % m = ((p * q) * u) % m
    <3>1. p * q \in Int /\ u \in Int
      BY <1>1
    <3> QED
      BY <1>1, <3>1, ModProduct, Zenon
  <2>6. (p * ((q * u) % m)) % m = (p * (q * u)) % m
    <3>1. q * u \in Int /\ p \in Int
      BY <1>1
    <3> QED
      BY <1>1, <3>1, ModProduct, Zenon
  <2>7. (p * q) * u = p * (q * u)
    BY <1>1
  <2>8. Pow(j + (k + 1)) = (Pow(j) * Pow(k + 1)) % m
    BY <2>2, <2>3, <2>4, <2>5, <2>6, <2>7, Zenon
  <2> QED
    BY <2>1, <2>8
<1> HIDE DEF S
<1>5. \A k \in 0 .. n - j : k \in S
  <2>1. n - j \in Nat
    BY <1>1
  <2> QED
    BY <1>3, <1>4, <2>1, UpTo
<1>6. \A k \in 0 .. n - j : Pow(j + k) = (Pow(j) * Pow(k)) % m
  BY <1>5 DEF S
<1> QED
  BY <1>6 DEF Pow, n, m

\* What the lower bits of e are worth with the next one.
LEMMA NextBit ==
    ASSUME NEW e \in Nat, NEW p \in Nat \ {0}
    PROVE  /\ (e \div p) % 2 = 1 => e % (2 * p) = (e % p) + p
           /\ (e \div p) % 2 # 1 => e % (2 * p) = e % p
<1>1. PICK q \in Nat, r \in Nat : q = e \div p /\ r = e % p /\ r < p /\ e = q * p + r
  <2>1. e \div p \in Nat /\ e % p \in Nat /\ e % p < p /\ e = (e \div p) * p + (e % p)
    BY DivisionOf
  <2> QED
    BY <2>1
<1>2. PICK h \in Nat, b \in Nat : h = q \div 2 /\ b = q % 2 /\ b < 2 /\ q = h * 2 + b
  <2>1. q \div 2 \in Nat /\ q % 2 \in Nat /\ q % 2 < 2 /\ q = (q \div 2) * 2 + (q % 2)
    BY DivisionOf
  <2> QED
    BY <2>1
<1>3. q * p = h * (2 * p) + b * p
  <2>1. (h * 2 + b) * p = h * (2 * p) + b * p
    OBVIOUS
  <2>2. q = h * 2 + b
    BY <1>2
  <2> QED
    BY <2>1, <2>2, Zenon
<1>4. PICK d \in Nat \ {0} : d = 2 * p
  OBVIOUS
<1>5. PICK z \in Nat : z = h * (2 * p)
  OBVIOUS
<1>6. ASSUME b = 1 PROVE e % (2 * p) = r + p
  <2>1. PICK s \in Nat : s = r + p /\ s < d
    <3>1. r < p
      BY <1>1
    <3>2. r + p \in Nat /\ r + p < d
      BY <1>4, <3>1
    <3> QED
      BY <3>2
  <2>2. b * p = p
    BY <1>6
  <2>3. e = z + p + r
    BY <1>1, <1>3, <1>5, <2>2
  <2>4. e = h * d + s
    BY <1>4, <1>5, <2>1, <2>3
  <2>5. e % d = s
    BY <2>1, <2>4, QuotientIs
  <2> QED
    BY <1>4, <2>1, <2>5
<1>7. ASSUME b # 1 PROVE e % (2 * p) = r
  <2>1. b = 0 /\ 0 * p = 0
    BY <1>2, <1>7
  <2>2. e = z + r
    BY <1>1, <1>3, <1>5, <2>1
  <2>3. e = h * d + r /\ r < d
    BY <1>1, <1>4, <1>5, <2>2
  <2>4. e % d = r
    BY <2>3, QuotientIs
  <2> QED
    BY <1>4, <2>4
<1> QED
  BY <1>1, <1>2, <1>6, <1>7
\* After the round of bit k, t is the power with the exponent 2^k and r that with
\* the lower k + 1 bits of the exponent.
LEMMA ModExpIsPower ==
    ASSUME Arith!CallsAssumption, Callable, Arith!CalledReduced, operand <= MaxExponent
    PROVE  Arith!ModExp(element, operand, callModulus) = Arith!Power[operand]
<1> DEFINE Pow(k) == Arith!Power[k]
           two == Arith!TwoTo
<1>1. PICK m \in CallModuli : m = callModulus /\ m \in Nat \ {0} /\ m > 1
  BY ModulusNumbers DEF Callable
<1>2. PICK u \in Nat, e \in Nat : u = element /\ e = operand /\ u < m /\ e < m
  BY <1>1, CalledNumbers DEF Arith!CalledReduced
<1>3. PICK n \in Nat : n = MaxExponent /\ e <= n
  <2>1. MaxExponent \in Nat
    BY DEF Arith!CallsAssumption
  <2> QED
    BY <1>2, <2>1
<1>4. /\ Pow(0) = 1
      /\ \A k \in 1 .. n : Pow(k) = (Pow(k - 1) * u) % m
      /\ \A k \in 0 .. n : Pow(k) \in Nat /\ Pow(k) < m
  BY <1>1, <1>2, <1>3, PowerUnfolds
<1>5. ASSUME NEW j \in 0 .. n, NEW k \in 0 .. n, j + k <= n
      PROVE  Pow(j + k) = (Pow(j) * Pow(k)) % m
  <2>1. k \in 0 .. n - j
    BY <1>5
  <2> QED
    BY <1>1, <1>2, <1>3, <2>1, PowersAdd
<1>6. PICK g : ExpRounds(g, u, e, m)
  BY <1>1, ModExpSteps
<1>12. /\ g[0] = [t |-> u, r |-> IF Arith!Bit(e, 0) THEN u % m ELSE 1]
       /\ \A k \in 1 .. CallWidth :
             /\ g[k].t = (g[k - 1].t * g[k - 1].t) % m
             /\ g[k].r = IF Arith!Bit(e, k) THEN (g[k - 1].r * g[k].t) % m ELSE g[k - 1].r
       /\ Arith!ModExp(u, e, m) = g[IF e = 0 THEN 0 ELSE Arith!GetMSB(e) - 1].r
  BY <1>6 DEF ExpRounds
<1>7. PICK w \in Nat : w = CallWidth /\ w > 7
  BY CallNumbers
<1>8. /\ two[0] = 1
      /\ \A k \in 0 .. w : two[k] \in Nat \ {0} /\ two[k + 1] = 2 * two[k]
  <2>1. \A k \in 0 .. w : k \in 0 .. 2 * w + 2 /\ k \in 0 .. 2 * w + 3
    BY <1>7
  <2>2. two[0] = 1
    <3>1. 0 \in 0 .. 2 * w + 3
      BY <1>7
    <3> QED
      BY <1>7, <3>1, TwoToArePowers DEF IsPowers
  <2> QED
    BY <1>7, <2>1, <2>2, TwoToFacts
<1> HIDE DEF Pow, two
<1>9. Arith!Bit(e, 0) <=> e % 2 = 1
  <2>1. e \div 1 = e
    OBVIOUS
  <2> QED
    BY <1>8, <2>1 DEF Arith!Bit, two
<1>10. CASE e = 0
  <2>1. ~Arith!Bit(e, 0)
    BY <1>9, <1>10
  <2>2. g[0].r = 1
    BY <1>12, <2>1
  <2> QED
    BY <1>1, <1>2, <1>4, <1>12, <1>10, <2>2 DEF Pow
<1>11. CASE e # 0
  <2>1. PICK l \in 0 .. w : l = Arith!GetMSB(e) - 1 /\ two[l] <= e /\ e < two[l + 1]
    <3>1. e \in Nat \ {0} /\ e < Arith!TwoTo[2 * CallWidth]
      <4>1. /\ w \in 0 .. 2 * w + 3 /\ 2 * w \in 0 .. 2 * w + 3 /\ w <= 2 * w
        BY <1>7
      <4>2. Arith!TwoTo[w] \in Nat /\ Arith!TwoTo[2 * w] \in Nat /\ Arith!TwoTo[w] <= Arith!TwoTo[2 * w]
        BY <1>7, <4>1, TwoToFacts
      <4>3. e < Arith!TwoTo[w]
        BY <1>2, <1>7, CalledNumbers DEF Arith!CalledReduced
      <4> QED
        BY <1>7, <1>11, <4>2, <4>3
    <3>2. PICK k \in 1 .. 2 * w : k = Arith!GetMSB(e) /\ two[k - 1] <= e /\ e < two[k]
      BY <1>7, <3>1, MSBOf DEF two
    <3>3. k - 1 \in 0 .. w
      <4> SUFFICES ASSUME k - 1 > w PROVE FALSE
        BY <1>7, <3>2
      <4>1. w \in 0 .. 2 * w + 3 /\ k - 1 \in 0 .. 2 * w + 3 /\ w <= k - 1
        BY <1>7, <3>2
      <4>2. two[w] <= two[k - 1] /\ two[w] \in Nat /\ two[k - 1] \in Nat
        BY <1>7, <4>1, TwoToFacts DEF two
      <4>3. e < two[w]
        BY <1>2, <1>7, CalledNumbers DEF Arith!CalledReduced, two
      <4> QED
        BY <3>2, <4>2, <4>3
    <3>4. (k - 1) + 1 = k
      OBVIOUS
    <3> QED
      BY <3>2, <3>3, <3>4
  <2> DEFINE S == {k \in 0 .. l : /\ two[k] <= e
                                  /\ g[k].t = Pow(two[k])
                                  /\ e % two[k + 1] \in 0 .. n
                                  /\ g[k].r = Pow(e % two[k + 1])}
  <2>2. ASSUME NEW k \in 0 .. l PROVE two[k] <= e /\ two[k] \in 0 .. n /\ e % two[k + 1] \in 0 .. n
    <3>1. two[k] <= two[l] /\ two[k] \in Nat \ {0} /\ two[l] \in Nat /\ two[k + 1] = 2 * two[k]
      <4>1. k \in 0 .. 2 * w + 3 /\ l \in 0 .. 2 * w + 3 /\ k <= l /\ k \in 0 .. w
        BY <1>7, <2>1
      <4> QED
        BY <1>7, <1>8, <2>1, <4>1, TwoToFacts DEF two
    <3>2. PICK p \in Nat \ {0} : p = two[k + 1]
      BY <3>1
    <3>3. e % p \in Nat /\ e % p <= e
      <4>1. e % p \in Nat /\ e \div p \in Nat /\ e = (e \div p) * p + (e % p)
        BY DivisionOf
      <4>2. (e \div p) * p \in Nat
        BY <4>1
      <4> QED
        BY <4>1, <4>2
    <3> QED
      BY <1>3, <2>1, <3>1, <3>2, <3>3
  <2>3. 0 \in S
    <3>1. 0 \in 0 .. l /\ two[0] = 1 /\ two[0 + 1] = 2
      BY <1>8, <2>1
    <3>2. two[0] <= e /\ e % two[0 + 1] \in 0 .. n
      BY <2>2, <3>1
    <3>3. 1 \in 1 .. n /\ Pow(1) = u
      <4>1. 1 \in 1 .. n
        BY <1>3, <1>11
      <4>2. Pow(1) = (Pow(0) * u) % m /\ Pow(0) = 1
        BY <1>4, <4>1
      <4>3. 1 * u = u /\ u % m = u
        BY <1>1, <1>2, ModSmall
      <4> QED
        BY <4>1, <4>2, <4>3
    <3>4. g[0].t = Pow(two[0])
      BY <1>12, <3>1, <3>3
    <3>5. u % m = u
      BY <1>1, <1>2, ModSmall
    <3>6. g[0].r = Pow(e % two[0 + 1])
      <4>1. CASE e % 2 = 1
        BY <1>12, <1>9, <3>1, <3>3, <3>5, <4>1
      <4>2. CASE e % 2 # 1
        <5>1. e % 2 = 0
          BY <4>2
        <5> QED
          BY <1>4, <1>12, <1>9, <3>1, <4>2, <5>1
      <4> QED
        BY <4>1, <4>2
    <3> QED
      BY <3>1, <3>2, <3>4, <3>6
  <2>4. ASSUME NEW k \in 0 .. l - 1, k \in S PROVE k + 1 \in S
    <3>1. /\ k + 1 \in 0 .. l /\ k \in 0 .. l /\ k + 1 \in 1 .. w /\ (k + 1) - 1 = k
          /\ k \in 0 .. w /\ k + 1 \in 0 .. w
      BY <2>1
    <3>2. PICK p \in Nat \ {0} : /\ p = two[k + 1] /\ p <= e /\ two[(k + 1) + 1] = 2 * p
                                 /\ e % p \in 0 .. n /\ e % (2 * p) \in 0 .. n
      <4>1. two[k + 1] \in Nat \ {0} /\ two[(k + 1) + 1] = 2 * two[k + 1]
        BY <1>8, <3>1
      <4>2. two[k + 1] <= e /\ e % two[(k + 1) + 1] \in 0 .. n /\ e % two[k + 1] \in 0 .. n
        BY <2>2, <3>1
      <4> QED
        BY <4>1, <4>2
    <3>3. PICK q \in Nat \ {0} : q = two[k] /\ p = q + q
      BY <1>8, <3>1, <3>2
    <3>4. g[k].t = Pow(q) /\ g[k].r = Pow(e % p)
      BY <2>4, <3>2, <3>3
    <3>5. g[k + 1].t = Pow(p)
      <4>1. g[k + 1].t = (Pow(q) * Pow(q)) % m
        <5>1. k + 1 \in 1 .. CallWidth
          BY <1>7, <3>1
        <5>2. g[k + 1].t = (g[(k + 1) - 1].t * g[(k + 1) - 1].t) % m
          BY <1>12, <5>1
        <5> QED
          BY <3>1, <3>4, <5>2
      <4>2. q \in 0 .. n /\ q + q <= n
        BY <1>3, <3>2, <3>3
      <4>3. Pow(q + q) = (Pow(q) * Pow(q)) % m
        BY <1>5, <4>2
      <4> QED
        BY <3>3, <4>1, <4>3
    <3>6. Arith!Bit(e, k + 1) <=> (e \div p) % 2 = 1
      BY <3>2 DEF Arith!Bit, two
    <3>7. g[k + 1].r = IF (e \div p) % 2 = 1 THEN (Pow(e % p) * Pow(p)) % m ELSE Pow(e % p)
      BY <1>12, <1>7, <3>1, <3>4, <3>5, <3>6
    <3>8. g[k + 1].r = Pow(e % (2 * p))
      <4>1. CASE (e \div p) % 2 = 1
        <5>1. e % (2 * p) = (e % p) + p
          BY <4>1, NextBit
        <5>2. PICK c \in 0 .. n : c = e % p
          BY <3>2
        <5>3. p \in 0 .. n /\ c + p <= n
          <6>1. e % (2 * p) <= n
            BY <3>2
          <6> QED
            BY <1>3, <3>2, <5>1, <5>2, <6>1
        <5>4. Pow(c + p) = (Pow(c) * Pow(p)) % m
          BY <1>5, <5>2, <5>3
        <5> QED
          BY <3>7, <4>1, <5>1, <5>2, <5>4
      <4>2. CASE (e \div p) % 2 # 1
        <5>1. e % (2 * p) = e % p
          BY <4>2, NextBit
        <5> QED
          BY <3>7, <4>2, <5>1
      <4> QED
        BY <4>1, <4>2
    <3> QED
      BY <3>1, <3>2, <3>5, <3>8
  <2>5. l \in Nat /\ l \in 0 .. l
    BY <2>1
  <2> HIDE DEF S
  <2>6. l \in S
    <3>1. \A k \in 0 .. l : k \in S
      BY <2>3, <2>4, <2>5, UpTo
    <3> QED
      BY <2>5, <3>1
  <2>7. g[l].r = Pow(e % two[l + 1])
    BY <2>6 DEF S
  <2>8. e % two[l + 1] = e
    <3>1. two[l + 1] \in Nat \ {0}
      BY <1>8, <2>1
    <3> QED
      BY <2>1, <3>1, ModSmall
  <2>9. Arith!ModExp(u, e, m) = g[l].r
    BY <1>12, <1>11, <2>1
  <2> QED
    BY <1>1, <1>2, <2>7, <2>8, <2>9 DEF Pow
<1> QED
  BY <1>10, <1>11

LEMMA ExpHolds ==
    ASSUME Arith!CallsAssumption, Callable
    PROVE  Arith!ExpExact
<1> SUFFICES ASSUME Arith!CalledReduced, operand <= MaxExponent
             PROVE  /\ Arith!ModExp(element, operand, callModulus) = Arith!Power[operand]
                    /\ Arith!VectorModExp(element, operand, callModulus) = Arith!Power[operand]
  BY DEF Arith!ExpExact
<1>1. Arith!ModExp(element, operand, callModulus) = Arith!Power[operand]
  BY ModExpIsPower
<1>2. ~(operand >= callModulus)
  <2>1. operand \in Nat /\ callModulus \in Nat /\ operand < callModulus
    BY CalledNumbers, ModulusNumbers DEF Arith!CalledReduced, Callable
  <2> QED
    BY <2>1
<1>3. Arith!VectorModExp(element, operand, callModulus) = Arith!ModExp(element, operand, callModulus)
  BY <1>2 DEF Arith!VectorModExp
<1> QED
  BY <1>1, <1>3
-----------------------------------------------------------------------------
(***************************************************************************)
(* Barrett's estimate.  Multiplied by D = 2^(2k + 3), what the estimated   *)
(* quotient leaves of n is made of three remainders; each of them is small *)
(* enough as long as n is at most half of D.                               *)
(***************************************************************************)
LEMMA BarrettEstimate ==
    ASSUME NEW m \in Nat \ {0}, NEW p \in Nat \ {0}, NEW c \in Nat \ {0},
           NEW n \in Nat, 2 * p <= m, 2 * n <= p * c
    PROVE  LET q == ((n \div p) * ((p * c) \div m)) \div c
           IN  q \in Nat /\ n - q * m \in Nat /\ n - q * m < 2 * m
<1> DEFINE D == p * c
           s == n \div p
           f == D \div m
           q == (s * f) \div c
<1>1. D \in Nat \ {0}
  <2>1. 1 * 1 <= p * c
    BY ProductBound
  <2> QED
    BY <2>1
<1>2. PICK z \in Nat : s \in Nat /\ n = s * p + z /\ z < p
  <2>1. n \div p \in Nat /\ n % p \in Nat /\ n % p < p /\ n = (n \div p) * p + (n % p)
    BY DivisionOf
  <2> QED
    BY <2>1
<1>3. D = p * c
  OBVIOUS
<1> HIDE DEF D, s
<1>4. PICK r \in Nat : f \in Nat /\ D = f * m + r /\ r < m
  <2>1. D \div m \in Nat /\ D % m \in Nat /\ D % m < m /\ D = (D \div m) * m + (D % m)
    BY <1>1, DivisionOf
  <2> QED
    BY <2>1
<1> HIDE DEF f
<1>5. PICK t \in Nat : q \in Nat /\ s * f = q * c + t /\ t < c
  <2>1. PICK l \in Nat : l = s * f
    <3>1. s \in Nat /\ f \in Nat
      BY <1>2, <1>4
    <3>2. \A e \in Nat : \A h \in Nat : \E l \in Nat : l = e * h
      OBVIOUS
    <3> QED
      BY <3>1, <3>2, Zenon
  <2>2. l \div c \in Nat /\ l % c \in Nat /\ l % c < c /\ l = (l \div c) * c + (l % c)
    BY DivisionOf
  <2>3. q = l \div c
    BY <2>1
  <2> HIDE DEF q
  <2>4. q \in Nat /\ l = q * c + (l % c) /\ l % c \in Nat /\ l % c < c
    BY <2>2, <2>3, Zenon
  <2> QED
    BY <2>1, <2>4, Zenon
<1> HIDE DEF q
<1>6. PICK left \in Int : left = n - q * m
  BY <1>5
<1>7. left * D = D * z + (s * p) * r + (m * p) * t
  <2>1. left * D = n * D - (q * m) * D
    BY <1>1, <1>5, <1>6
  <2>2. (q * m) * D = (m * p) * (q * c)
    BY <1>3, <1>5
  <2>3. (m * p) * (q * c) = (m * p) * (s * f) - (m * p) * t
    <3>1. PICK j \in Nat, k \in Nat : j = q * c /\ k = s * f
      BY <1>2, <1>4, <1>5
    <3>2. j = k - t
      BY <1>5, <3>1
    <3>3. (m * p) * (k - t) = (m * p) * k - (m * p) * t
      BY <3>1, <1>5
    <3> QED
      BY <3>1, <3>2, <3>3
  <2>4. (m * p) * (s * f) = (s * p) * (f * m)
    BY <1>2, <1>4
  <2>5. (s * p) * (f * m) = (s * p) * D - (s * p) * r
    <3>1. PICK k \in Nat : k = f * m
      BY <1>4
    <3>2. k = D - r
      BY <1>1, <1>4, <3>1
    <3>3. (s * p) * (D - r) = (s * p) * D - (s * p) * r
      BY <1>1, <1>2, <1>4
    <3> QED
      BY <3>1, <3>2, <3>3
  <2>6. n * D = (s * p) * D + D * z
    <3>1. (s * p + z) * D = (s * p) * D + D * z
      BY <1>1, <1>2
    <3> QED
      BY <1>2, <3>1
  <2>7. PICK j1 \in Int, j2 \in Int, j3 \in Int, j4 \in Int, j5 \in Int :
           /\ j1 = (s * p) * D /\ j2 = D * z /\ j3 = (s * p) * r /\ j4 = (m * p) * t
           /\ j5 = (q * m) * D
    BY <1>1, <1>2, <1>4, <1>5
  <2>8. j5 = j1 - j3 - j4
    BY <2>2, <2>3, <2>4, <2>5, <2>7
  <2>9. left * D = j1 + j2 - j5
    BY <2>1, <2>6, <2>7
  <2> QED
    BY <2>7, <2>8, <2>9
<1>8. /\ D * z \in Nat /\ (s * p) * r \in Nat /\ (m * p) * t \in Nat
      /\ D * z <= D * (p - 1)
      /\ (s * p) * r <= n * r
      /\ (m * p) * t <= (m * p) * (c - 1)
  <2>1. s * p \in Nat /\ s * p <= n /\ m * p \in Nat
    BY <1>2
  <2>2. p - 1 \in Nat /\ z <= p - 1 /\ c - 1 \in Nat /\ t <= c - 1
    BY <1>2, <1>5
  <2>3. D * z <= D * (p - 1)
    <3>1. D \in Nat /\ D <= D
      BY <1>1
    <3> QED
      BY <1>2, <2>2, <3>1, ProductBound
  <2>4. (s * p) * r <= n * r
    <3>1. r <= r
      BY <1>4
    <3> QED
      BY <1>4, <2>1, <3>1, ProductBound
  <2>5. (m * p) * t <= (m * p) * (c - 1)
    <3>1. m * p <= m * p
      BY <2>1
    <3> QED
      BY <1>5, <2>1, <2>2, <3>1, ProductBound
  <2>6. D * z \in Nat /\ (s * p) * r \in Nat /\ (m * p) * t \in Nat
    <3>1. \A j \in Nat : \A k \in Nat : j * k \in Nat
      OBVIOUS
    <3> QED
      BY <1>1, <1>2, <1>4, <1>5, <2>1, <3>1
  <2> QED
    BY <2>3, <2>4, <2>5, <2>6
<1>9. 2 * (D * (p - 1)) <= D * m - 2 * D
  <2>1. (2 * p) * D <= m * D
    <3>1. 2 * p \in Nat /\ D \in Nat /\ D <= D
      BY <1>1
    <3> QED
      BY <3>1, ProductBound
  <2>2. 2 * (D * (p - 1)) = (2 * p) * D - 2 * D /\ m * D = D * m
    BY <1>1
  <2>3. (2 * p) * D \in Int /\ m * D \in Int
    BY <1>1
  <2> QED
    BY <1>1, <2>1, <2>2, <2>3
<1>10. 2 * (n * r) <= D * m - D
  <2>1. (2 * n) * r <= D * (m - 1)
    <3>1. 2 * n \in Nat /\ D \in Nat /\ 2 * n <= D /\ m - 1 \in Nat /\ r <= m - 1
      BY <1>1, <1>3, <1>4
    <3> QED
      BY <1>4, <3>1, ProductBound
  <2>2. (2 * n) * r = 2 * (n * r) /\ D * (m - 1) = D * m - D
    BY <1>1, <1>4
  <2> QED
    BY <2>1, <2>2
<1>11. (m * p) * (c - 1) <= D * m
  <2>1. (m * p) * (c - 1) = (p * c) * m - m * p
    OBVIOUS
  <2>2. (p * c) * m = D * m /\ m * p \in Nat /\ D * m \in Nat
    BY <1>1, <1>3
  <2> QED
    BY <2>1, <2>2
<1>12. 0 * D <= left * D /\ left * D < (2 * m) * D
  <2>1. PICK j1 \in Nat, j2 \in Nat, j3 \in Nat, k1 \in Int, k2 \in Int, k3 \in Int, k \in Int :
           /\ j1 = D * z /\ j2 = (s * p) * r /\ j3 = (m * p) * t
           /\ k1 = D * (p - 1) /\ k2 = n * r /\ k3 = (m * p) * (c - 1) /\ k = D * m
    <3>1. D * (p - 1) \in Int /\ n * r \in Int /\ (m * p) * (c - 1) \in Int /\ D * m \in Int
      BY <1>1, <1>4
    <3> QED
      BY <1>8, <3>1
  <2>2. j1 <= k1 /\ j2 <= k2 /\ j3 <= k3
    BY <1>8, <2>1
  <2>3. 2 * k1 <= k - 2 * D /\ 2 * k2 <= k - D /\ k3 <= k
    BY <1>9, <1>10, <1>11, <2>1
  <2>4. left * D = j1 + j2 + j3
    BY <1>7, <2>1
  <2>5. (2 * m) * D = 2 * k /\ 0 * D = 0
    BY <1>1, <2>1
  <2>6. j1 + j2 + j3 < 2 * k
    BY <1>1, <2>1, <2>2, <2>3
  <2> QED
    BY <2>1, <2>4, <2>5, <2>6
<1>13. 0 <= left /\ left < 2 * m
  <2>1. 2 * m \in Int /\ 0 \in Int
    OBVIOUS
  <2> QED
    BY <1>1, <1>6, <1>12, <2>1, CancelFactor
<1> QED
  BY <1>5, <1>6, <1>13 DEF q, f, s, D
\* Shifting two words into one is exact when the quotient fits a word.
LEMMA RShiftExact ==
    ASSUME Arith!CallsAssumption, NEW u \in Nat, NEW n \in 0 .. CallWidth - 1,
           u \div Arith!TwoTo[n] < Arith!TwoTo[CallWidth]
    PROVE  Arith!RShiftD(u, n) = u \div Arith!TwoTo[n]
<1>1. PICK w \in Nat \ {0} : w = CallWidth /\ n \in 0 .. w - 1
  BY CallNumbers
<1>2. PICK e \in Nat \ {0}, p \in Nat \ {0}, g \in Nat \ {0} :
         e = Arith!TwoTo[w] /\ p = Arith!TwoTo[n] /\ g = Arith!TwoTo[w - n] /\ e = g * p
  <2>1. w \in 0 .. 2 * w + 3 /\ n \in 0 .. 2 * w + 3 /\ w - n \in 0 .. 2 * w + 3
        /\ (w - n) + n <= 2 * w + 3 /\ (w - n) + n = w
    BY <1>1
  <2>2. Arith!TwoTo[(w - n) + n] = Arith!TwoTo[w - n] * Arith!TwoTo[n]
    BY <1>1, <2>1, TwoToFacts
  <2>3. Arith!TwoTo[w] \in Nat \ {0} /\ Arith!TwoTo[n] \in Nat \ {0} /\ Arith!TwoTo[w - n] \in Nat \ {0}
    BY <1>1, <2>1, TwoToFacts
  <2> QED
    BY <2>1, <2>2, <2>3
<1>3. PICK h \in Nat, l \in Nat : h = u \div e /\ l = u % e /\ l < e /\ u = h * e + l
  <2>1. u \div e \in Nat /\ u % e \in Nat /\ u % e < e /\ u = (u \div e) * e + (u % e)
    BY DivisionOf
  <2> QED
    BY <2>1
<1>4. PICK k \in Nat, r \in Nat : k = l \div p /\ r < p /\ l = k * p + r
  <2>1. l \div p \in Nat /\ l % p \in Nat /\ l % p < p /\ l = (l \div p) * p + (l % p)
    BY DivisionOf
  <2> QED
    BY <2>1
<1>5. PICK f \in Nat : f = h * g + k /\ u \div p = f /\ h * g \in Nat
  <2>1. h * g \in Nat /\ h * g + k \in Int
    OBVIOUS
  <2>2. u = (h * g + k) * p + r
    <3>1. h * (g * p) + (k * p + r) = (h * g + k) * p + r
      OBVIOUS
    <3> QED
      BY <1>2, <1>3, <1>4, <3>1, Zenon
  <2>3. u \in Int
    OBVIOUS
  <2>4. u \div p = h * g + k
    BY <1>4, <2>1, <2>2, <2>3, QuotientIs, Zenon
  <2> QED
    BY <2>1, <2>4
<1>6. f < e
  BY <1>1, <1>2, <1>5
<1>7. PICK j \in Nat : j = h * g /\ f = j + k /\ j < e
  BY <1>5, <1>6
<1>8. n % w = n
  BY <1>1, ModSmall
<1>9. Arith!RShiftD(u, n) = IF h = 0 THEN k ELSE Arith!Word(k + Arith!Word(h * Arith!TwoTo[(w - n) % w]))
  BY <1>1, <1>2, <1>3, <1>4, <1>8 DEF Arith!RShiftD, Arith!Hi, Arith!Lo, Arith!Word
<1>10. CASE h = 0
  <2>1. h * g = 0
    BY <1>10
  <2>2. f = k
    BY <1>7, <2>1
  <2> QED
    BY <1>2, <1>5, <1>9, <1>10, <2>2
<1>11. CASE h # 0
  <2>1. n # 0
    <3> SUFFICES ASSUME n = 0 PROVE FALSE
      OBVIOUS
    <3>1. Arith!TwoTo[0] = 1
      <4>1. 0 \in 0 .. 2 * CallWidth + 3
        BY CallNumbers
      <4> QED
        BY <4>1, TwoToArePowers DEF IsPowers
    <3>2. p = 1 /\ g = e
      BY <1>2, <3>1
    <3>3. e <= h * e
      BY <1>11, ProductIsLarger
    <3> QED
      BY <1>7, <3>2, <3>3
  <2>2. (w - n) % w = w - n
    <3>1. w - n \in Nat /\ w - n < w
      BY <1>1, <2>1
    <3> QED
      BY <3>1, ModSmall
  <2>3. Arith!Word(j) = j
    BY <1>1, <1>2, <1>7, WordOf
  <2>4. Arith!Word(k + j) = f
    <3>1. f = k + j /\ f < Arith!TwoTo[CallWidth]
      BY <1>1, <1>2, <1>6, <1>7
    <3> QED
      BY <3>1, WordOf
  <2>5. Arith!RShiftD(u, n) = Arith!Word(k + Arith!Word(h * g))
    BY <1>2, <1>9, <1>11, <2>2, Zenon
  <2> QED
    BY <1>2, <1>5, <1>7, <2>3, <2>4, <2>5, Zenon
<1> QED
  BY <1>10, <1>11
\* The powers of two that Barrett's reduction by m works with; k is the number
\* of the bits of m.
BarrettPowers(m, k, p, c, d) ==
    /\ k = Arith!GetMSB(m) /\ k <= CallWidth - 4 /\ k >= 2
    /\ p = Arith!TwoTo[k - 2] /\ c = Arith!TwoTo[k + 5] /\ d = Arith!TwoTo[2 * k + 3]
    /\ d = p * c /\ 2 * p <= m
    /\ Arith!TwoTo[k] = 4 * p
    /\ Arith!TwoTo[2 * k + 2] = Arith!TwoTo[k + 4] * p
    /\ d = 2 * Arith!TwoTo[2 * k + 2]
    /\ Arith!TwoTo[k] * Arith!TwoTo[k] <= Arith!TwoTo[2 * k + 2]
    /\ Arith!TwoTo[k + 4] \in Nat /\ Arith!TwoTo[k + 4] <= Arith!TwoTo[CallWidth]
    /\ Arith!TwoTo[2 * k + 2] \in Nat /\ Arith!TwoTo[k] \in Nat

LEMMA BarrettNumbers ==
    ASSUME Arith!CallsAssumption, NEW m \in CallModuli
    PROVE  \E k \in Nat, p \in Nat \ {0}, c \in Nat \ {0}, d \in Nat \ {0} :
              BarrettPowers(m, k, p, c, d)
<1>1. PICK w \in Nat : w = CallWidth /\ w > 7
  BY CallNumbers
<1>2. PICK k \in Nat : k = Arith!GetMSB(m) /\ k >= 2 /\ k <= w - 4
  BY <1>1, ModulusNumbers
<1>3. /\ Arith!TwoTo[k - 1] <= m
      /\ m < Arith!TwoTo[k] /\ m \in Nat
  BY <1>2, ModulusNumbers
<1>4. /\ k - 2 \in 0 .. 2 * w + 3 /\ k - 1 \in 0 .. 2 * w + 3 /\ k \in 0 .. 2 * w + 3
      /\ k + 4 \in 0 .. 2 * w + 3 /\ k + 5 \in 0 .. 2 * w + 3
      /\ 2 * k \in 0 .. 2 * w + 3 /\ 2 * k + 2 \in 0 .. 2 * w + 3 /\ 2 * k + 3 \in 0 .. 2 * w + 3
      /\ w \in 0 .. 2 * w + 3
  BY <1>1, <1>2
<1>5. /\ \A j \in 0 .. 2 * w + 3 : Arith!TwoTo[j] \in Nat \ {0}
      /\ \A j, l \in 0 .. 2 * w + 3 :
            j + l <= 2 * w + 3 => Arith!TwoTo[j + l] = Arith!TwoTo[j] * Arith!TwoTo[l]
      /\ \A j, l \in 0 .. 2 * w + 3 : j <= l => Arith!TwoTo[j] <= Arith!TwoTo[l]
      /\ \A j \in 0 .. 2 * w + 2 : Arith!TwoTo[j + 1] = 2 * Arith!TwoTo[j]
  BY <1>1, TwoToFacts
<1>6. PICK p \in Nat \ {0}, c \in Nat \ {0}, d \in Nat \ {0} :
         p = Arith!TwoTo[k - 2] /\ c = Arith!TwoTo[k + 5] /\ d = Arith!TwoTo[2 * k + 3]
  BY <1>4, <1>5
<1>7. d = p * c
  <2>1. (k - 2) + (k + 5) = 2 * k + 3 /\ (k - 2) + (k + 5) <= 2 * w + 3
    BY <1>2, <1>4
  <2>2. Arith!TwoTo[(k - 2) + (k + 5)] = Arith!TwoTo[k - 2] * Arith!TwoTo[k + 5]
    BY <1>4, <1>5, <2>1
  <2> QED
    BY <1>6, <2>1, <2>2, Zenon
<1>8. Arith!TwoTo[k - 1] = 2 * p /\ Arith!TwoTo[k] = 4 * p
  <2>1. k - 2 \in 0 .. 2 * w + 2 /\ k - 1 \in 0 .. 2 * w + 2 /\ (k - 2) + 1 = k - 1 /\ (k - 1) + 1 = k
    BY <1>1, <1>2
  <2>2. Arith!TwoTo[(k - 2) + 1] = 2 * Arith!TwoTo[k - 2] /\ Arith!TwoTo[(k - 1) + 1] = 2 * Arith!TwoTo[k - 1]
    BY <1>5, <2>1
  <2> QED
    BY <1>6, <2>1, <2>2
<1>9. Arith!TwoTo[2 * k + 2] = Arith!TwoTo[k + 4] * p
  <2>1. (k + 4) + (k - 2) = 2 * k + 2 /\ (k + 4) + (k - 2) <= 2 * w + 3
    BY <1>2, <1>4
  <2>2. Arith!TwoTo[(k + 4) + (k - 2)] = Arith!TwoTo[k + 4] * Arith!TwoTo[k - 2]
    BY <1>4, <1>5, <2>1
  <2> QED
    BY <1>6, <2>1, <2>2, Zenon
<1>10. d = 2 * Arith!TwoTo[2 * k + 2]
  <2>1. 2 * k + 2 \in 0 .. 2 * w + 2 /\ (2 * k + 2) + 1 = 2 * k + 3
    BY <1>1, <1>2
  <2>2. Arith!TwoTo[(2 * k + 2) + 1] = 2 * Arith!TwoTo[2 * k + 2]
    BY <1>5, <2>1
  <2> QED
    BY <1>6, <2>1, <2>2, Zenon
<1>11. Arith!TwoTo[k] * Arith!TwoTo[k] <= Arith!TwoTo[2 * k + 2]
  <2>1. k + k = 2 * k /\ k + k <= 2 * w + 3 /\ 2 * k <= 2 * k + 2
    BY <1>4
  <2>2. Arith!TwoTo[k + k] = Arith!TwoTo[k] * Arith!TwoTo[k]
    BY <1>4, <1>5, <2>1
  <2>3. Arith!TwoTo[2 * k] <= Arith!TwoTo[2 * k + 2]
    BY <1>4, <1>5, <2>1
  <2> QED
    BY <2>1, <2>2, <2>3, Zenon
<1>12. Arith!TwoTo[k + 4] <= Arith!TwoTo[w]
  <2>1. k + 4 <= w
    BY <1>2
  <2> QED
    BY <1>4, <1>5, <2>1
<1>13. Arith!TwoTo[k + 4] \in Nat /\ Arith!TwoTo[2 * k + 2] \in Nat /\ Arith!TwoTo[k] \in Nat
  BY <1>4, <1>5
<1>14. 2 * p <= m
  BY <1>3, <1>8
<1> QED
  BY <1>1, <1>2, <1>6, <1>7, <1>8, <1>9, <1>10, <1>11, <1>12, <1>13, <1>14, Zenon DEF BarrettPowers

\* The host's estimate of u / m, without the words.
Estimate(u, p, nu, c) == ((u \div p) * nu) \div c

LEMMA HostQuotient ==
    ASSUME Arith!CallsAssumption, NEW m \in CallModuli, NEW nu \in Nat,
           NEW k \in Nat, NEW p \in Nat \ {0}, NEW c \in Nat \ {0}, NEW d \in Nat \ {0},
           BarrettPowers(m, k, p, c, d),
           NEW u \in Nat, u < Arith!TwoTo[2 * k + 2]
    PROVE  /\ Arith!Quotient(u, m, nu) = Estimate(u, p, nu, c)
           /\ Arith!RShiftD(u, k - 2) = u \div p
           /\ u \div p \in Nat /\ u \div p < Arith!TwoTo[k + 4]
<1>1. PICK s \in Nat : s = u \div p /\ s * p <= u
  <2>1. u \div p \in Nat /\ u % p \in Nat /\ u = (u \div p) * p + (u % p)
    BY DivisionOf
  <2>2. PICK s \in Nat, r \in Nat : s = u \div p /\ u = s * p + r
    BY <2>1
  <2> QED
    BY <2>2
<1>2. PICK b \in Nat : b = Arith!TwoTo[k + 4] /\ b <= Arith!TwoTo[CallWidth] /\ u < b * p
  BY DEF BarrettPowers
<1>3. s < b
  <2>1. s * p < b * p
    BY <1>1, <1>2
  <2>2. s \in Int /\ b \in Int
    OBVIOUS
  <2> QED
    BY <2>1, <2>2, CancelFactor
<1>4. k - 2 \in 0 .. CallWidth - 1 /\ (k - 2) + 7 = k + 5
  BY CallNumbers DEF BarrettPowers
<1>5. p = Arith!TwoTo[k - 2] /\ c = Arith!TwoTo[k + 5] /\ k = Arith!GetMSB(m)
  BY DEF BarrettPowers
<1>6. u \div Arith!TwoTo[k - 2] < Arith!TwoTo[CallWidth]
  <2>1. CallWidth \in 0 .. 2 * CallWidth + 3
    BY CallNumbers
  <2>2. Arith!TwoTo[CallWidth] \in Nat
    BY <2>1, TwoToFacts
  <2>3. s < Arith!TwoTo[CallWidth]
    BY <1>2, <1>3, <2>2
  <2> QED
    BY <1>1, <1>5, <2>3, Zenon
<1>7. Arith!RShiftD(u, k - 2) = u \div Arith!TwoTo[k - 2]
  BY <1>4, <1>6, RShiftExact
<1>8. Arith!Quotient(u, m, nu) = (Arith!RShiftD(u, k - 2) * nu) \div Arith!TwoTo[(k - 2) + 7]
  BY <1>5, Zenon DEF Arith!Quotient
<1>9. Arith!Quotient(u, m, nu) = Estimate(u, p, nu, c)
  BY <1>4, <1>5, <1>7, <1>8, Zenon DEF Estimate
<1>10. u \div p \in Nat /\ u \div p < Arith!TwoTo[k + 4]
  BY <1>1, <1>2, <1>3, Zenon
<1> QED
  BY <1>5, <1>7, <1>9, <1>10, Zenon
\* The host's Barrett reduction of u is exact when mu fits a word.
LEMMA BarrettReduces ==
    ASSUME Arith!CallsAssumption, NEW m \in CallModuli,
           NEW k \in Nat, NEW p \in Nat \ {0}, NEW c \in Nat \ {0}, NEW d \in Nat \ {0},
           BarrettPowers(m, k, p, c, d),
           d \div m \in Arith!Words,
           NEW u \in Nat, u < Arith!TwoTo[2 * k + 2]
    PROVE  /\ Arith!ComputeMu(m) = d \div m
           /\ Arith!Quotient(u, m, Arith!ComputeMu(m)) = Estimate(u, p, d \div m, c)
           /\ Arith!ReduceOnce(Arith!Word(u - Arith!Quotient(u, m, Arith!ComputeMu(m)) * m), m) = u % m
<1>1. PICK e \in Nat \ {0} : e = Arith!TwoTo[CallWidth] /\ m \in Nat \ {0} /\ 16 * m < e
  BY ModulusNumbers
<1>2. PICK nu \in Nat : nu = d \div m /\ nu < e
  BY <1>1 DEF Arith!Words
<1>3. Arith!ComputeMu(m) = nu
  <2>1. Arith!ComputeMu(m) = Arith!Word(nu)
    BY <1>2, Zenon DEF Arith!ComputeMu, BarrettPowers
  <2>2. Arith!Word(nu) = nu
    BY <1>1, <1>2, WordOf
  <2> QED
    BY <2>1, <2>2
<1>4. Arith!Quotient(u, m, nu) = Estimate(u, p, nu, c)
  BY HostQuotient
<1> DEFINE q == ((u \div p) * ((p * c) \div m)) \div c
<1>5. q \in Nat /\ u - q * m \in Nat /\ u - q * m < 2 * m
  <2>1. 2 * p <= m /\ 2 * u <= p * c
    <3>1. PICK h \in Nat : h = Arith!TwoTo[2 * k + 2] /\ d = 2 * h /\ u < h
      BY DEF BarrettPowers
    <3>2. 2 * u <= d
      BY <3>1
    <3> QED
      BY <3>2 DEF BarrettPowers
  <2> QED
    BY <1>1, <2>1, BarrettEstimate
<1>6. q = Estimate(u, p, nu, c)
  BY <1>2, Zenon DEF BarrettPowers, Estimate
<1> HIDE DEF q
<1>7. PICK t \in Nat : t = u - q * m /\ t < 2 * m
  BY <1>5
<1>8. Arith!Word(t) = t
  <2>1. t < Arith!TwoTo[CallWidth]
    BY <1>1, <1>7
  <2> QED
    BY <2>1, WordOf
<1>9. Arith!ReduceOnce(t, m) = t % m
  BY <1>1, <1>7, ReducedOnce
<1>10. u % m = t % m
  <2>1. u = t + q * m /\ q \in Int /\ t \in Int
    BY <1>1, <1>5, <1>7
  <2>2. (t + q * m) % m = t % m
    BY <1>1, <2>1, ModPlus, Zenon
  <2> QED
    BY <2>1, <2>2, Zenon
<1>11. Arith!Quotient(u, m, Arith!ComputeMu(m)) = q
  BY <1>3, <1>4, <1>6, Zenon
<1>12. Arith!ReduceOnce(Arith!Word(u - q * m), m) = u % m
  BY <1>7, <1>8, <1>9, <1>10, Zenon
<1> QED
  BY <1>2, <1>3, <1>6, <1>11, <1>12, Zenon

LEMMA ProductFits ==
    ASSUME Arith!CallsAssumption, NEW m \in CallModuli,
           NEW k \in Nat, NEW p \in Nat \ {0}, NEW c \in Nat \ {0}, NEW d \in Nat \ {0},
           BarrettPowers(m, k, p, c, d),
           NEW u \in Nat, u < m * m
    PROVE  u < Arith!TwoTo[2 * k + 2]
<1>1. PICK h \in Nat : h = Arith!TwoTo[k] /\ m <= h /\ m \in Nat
  <2>1. m < Arith!TwoTo[k] /\ m \in Nat /\ Arith!TwoTo[k] \in Nat
    BY ModulusNumbers DEF BarrettPowers
  <2> QED
    BY <2>1
<1>2. m * m <= h * h
  BY <1>1, ProductBound
<1>3. PICK r \in Nat, s \in Nat, f \in Nat : r = m * m /\ s = h * h /\ f = Arith!TwoTo[2 * k + 2]
  <2>1. m * m \in Nat /\ h * h \in Nat
    BY <1>1
  <2>2. Arith!TwoTo[2 * k + 2] \in Nat
    BY DEF BarrettPowers
  <2> QED
    BY <2>1, <2>2
<1>4. s <= f /\ r <= s /\ u < r
  BY <1>1, <1>2, <1>3 DEF BarrettPowers
<1> QED
  BY <1>3, <1>4

\* The first powers of two.
LEMMA SmallPowers ==
    ASSUME Arith!CallsAssumption
    PROVE  /\ Arith!TwoTo[3] = 8 /\ Arith!TwoTo[4] = 16 /\ Arith!TwoTo[5] = 32
           /\ Arith!TwoTo[10] = 1024 /\ Arith!TwoTo[12] = 4096 /\ Arith!TwoTo[13] = 8192
<1>1. PICK w \in Nat : w = CallWidth /\ w > 7
  BY CallNumbers
<1>2. Arith!TwoTo[0] = 1
  <2>1. 0 \in 0 .. 2 * CallWidth + 3
    BY <1>1
  <2> QED
    BY <2>1, TwoToArePowers DEF IsPowers
<1>3. \A j \in 0 .. 2 * w + 2 : Arith!TwoTo[j + 1] = 2 * Arith!TwoTo[j]
  BY <1>1, TwoToFacts
<1>4. /\ Arith!TwoTo[0 + 1] = 2 * Arith!TwoTo[0] /\ Arith!TwoTo[1 + 1] = 2 * Arith!TwoTo[1]
      /\ Arith!TwoTo[2 + 1] = 2 * Arith!TwoTo[2] /\ Arith!TwoTo[3 + 1] = 2 * Arith!TwoTo[3]
      /\ Arith!TwoTo[4 + 1] = 2 * Arith!TwoTo[4] /\ Arith!TwoTo[5 + 1] = 2 * Arith!TwoTo[5]
      /\ Arith!TwoTo[6 + 1] = 2 * Arith!TwoTo[6] /\ Arith!TwoTo[7 + 1] = 2 * Arith!TwoTo[7]
      /\ Arith!TwoTo[8 + 1] = 2 * Arith!TwoTo[8] /\ Arith!TwoTo[9 + 1] = 2 * Arith!TwoTo[9]
      /\ Arith!TwoTo[10 + 1] = 2 * Arith!TwoTo[10] /\ Arith!TwoTo[11 + 1] = 2 * Arith!TwoTo[11]
      /\ Arith!TwoTo[12 + 1] = 2 * Arith!TwoTo[12]
  <2>1. \A j \in 0 .. 12 : j \in 0 .. 2 * w + 2
    BY <1>1
  <2>2. \A j \in 0 .. 12 : Arith!TwoTo[j + 1] = 2 * Arith!TwoTo[j]
    BY <1>3, <2>1
  <2> QED
    BY <2>2
<1> QED
  BY <1>2, <1>4

\* A dividend below the bound that the comment gives for which one subtraction
\* is not enough.
LEMMA OneBitTooMany ==
    ASSUME Arith!CallsAssumption, Callable, callModulus = 17, element = 5559
    PROVE  Arith!ModMu(element, callModulus, Arith!ComputeMu(callModulus)) = 17
<1>1. PICK e \in Nat \ {0} : e = Arith!TwoTo[CallWidth] /\ 5559 < e
  BY CalledNumbers, ModulusNumbers DEF Callable
<1>2. 17 \in CallModuli
  BY DEF Callable
<1>3. Arith!GetMSB(17) = 5
  <2>1. PICK k \in Nat : /\ k = Arith!GetMSB(17) /\ k >= 2 /\ k <= CallWidth - 4
                         /\ Arith!TwoTo[k - 1] <= 17 /\ 17 < Arith!TwoTo[k]
    BY <1>2, CallNumbers, ModulusNumbers
  <2>2. PICK w \in Nat : w = CallWidth /\ w > 7
    BY CallNumbers
  <2>3. /\ k \in 0 .. 2 * w + 3 /\ k - 1 \in 0 .. 2 * w + 3 /\ 4 \in 0 .. 2 * w + 3
        /\ 5 \in 0 .. 2 * w + 3
    BY <2>1, <2>2
  <2>4. /\ k <= 4 => Arith!TwoTo[k] <= Arith!TwoTo[4]
        /\ 5 <= k - 1 => Arith!TwoTo[5] <= Arith!TwoTo[k - 1]
        /\ Arith!TwoTo[k] \in Nat /\ Arith!TwoTo[k - 1] \in Nat
    BY <2>2, <2>3, TwoToFacts
  <2>5. ~(k <= 4) /\ ~(5 <= k - 1)
    BY <2>1, <2>4, SmallPowers
  <2>6. k = 5
    BY <2>5
  <2> QED
    BY <2>1, <2>6
<1>4. Arith!ComputeMu(17) = 481
  <2>1. Arith!TwoTo[2 * 5 + 3] \div 17 = 481
    <3>1. Arith!TwoTo[2 * 5 + 3] = 8192
      BY SmallPowers
    <3> QED
      BY <3>1
  <2>2. Arith!Word(481) = 481
    BY <1>1, WordOf
  <2> QED
    BY SMTT(60), <1>3, <2>1, <2>2 DEF Arith!ComputeMu
<1>5. Arith!RShiftD(5559, 3) = 694
  <2>1. 5559 \div Arith!TwoTo[3] = 694
    BY SmallPowers
  <2>2. 5559 \div Arith!TwoTo[3] < Arith!TwoTo[CallWidth] /\ 3 \in 0 .. CallWidth - 1
    BY <1>1, <2>1, CallNumbers
  <2> QED
    BY <2>1, <2>2, RShiftExact
<1>6. Arith!Quotient(5559, 17, 481) = 325
  <2>1. Arith!GetMSB(17) - 2 = 3
    BY <1>3
  <2>2. Arith!Quotient(5559, 17, 481) = (694 * 481) \div Arith!TwoTo[3 + 7]
    BY <1>5, <2>1 DEF Arith!Quotient
  <2>3. Arith!TwoTo[3 + 7] = 1024
    BY SmallPowers
  <2> QED
    BY <2>2, <2>3
<1>7. Arith!ModMu(5559, 17, 481) = 17
  <2>1. 5559 - 325 * 17 = 34
    OBVIOUS
  <2>2. Arith!Word(34) = 34
    BY <1>1, WordOf
  <2>3. Arith!ModMu(5559, 17, 481) = Arith!ReduceOnce(34, 17)
    BY <1>6, <2>1, <2>2 DEF Arith!ModMu
  <2>4. Arith!ReduceOnce(34, 17) = 17
    BY DEF Arith!ReduceOnce
  <2> QED
    BY <2>3, <2>4
<1> QED
  BY <1>4, <1>7

LEMMA BarrettHolds ==
    ASSUME Arith!CallsAssumption, Callable
    PROVE  Arith!BarrettExact
<1> SUFFICES ASSUME Arith!MuFits
             PROVE  /\ Arith!CalledReduced =>
                         Arith!ModMulFast(element, operand, callModulus, Arith!mu)
                             = (element * operand) % callModulus
                    /\ element < Arith!TwoTo[2 * Arith!GetMSB(callModulus) + 2] =>
                         Arith!ModMu(element, callModulus, Arith!mu) = element % callModulus
                    /\ callModulus = 17 /\ element = 5559 =>
                         Arith!ModMu(element, callModulus, Arith!mu) = 17
  BY DEF Arith!BarrettExact
<1>1. PICK m \in CallModuli : m = callModulus /\ m \in Nat \ {0}
  BY ModulusNumbers DEF Callable
<1>2. PICK k \in Nat, p \in Nat \ {0}, c \in Nat \ {0}, d \in Nat \ {0} :
         BarrettPowers(m, k, p, c, d)
  BY BarrettNumbers
<1>3. d \div m \in Arith!Words
  BY <1>1, <1>2 DEF BarrettPowers, Arith!MuFits
<1>4. \A u \in Nat : u < Arith!TwoTo[2 * k + 2] =>
         Arith!ReduceOnce(Arith!Word(u - Arith!Quotient(u, m, Arith!ComputeMu(m)) * m), m) = u % m
  BY <1>2, <1>3, BarrettReduces
<1>5. ASSUME Arith!CalledReduced
      PROVE  Arith!ModMulFast(element, operand, callModulus, Arith!mu)
                 = (element * operand) % callModulus
  <2>1. PICK u \in Nat, v \in Nat : u = element /\ v = operand /\ u < m /\ v < m
    BY <1>1, <1>5, CalledNumbers DEF Arith!CalledReduced
  <2>2. PICK r \in Nat : r = u * v /\ r < m * m
    <3>1. u * v \in Nat /\ u <= m - 1 /\ v <= m /\ m - 1 \in Nat
      BY <1>1, <2>1
    <3>2. u * v <= (m - 1) * m
      BY <1>1, <3>1, ProductBound
    <3>3. (m - 1) * m < m * m
      <4>1. (m - 1) * m = m * m - m /\ m * m \in Nat
        BY <1>1
      <4> QED
        BY <1>1, <4>1
    <3>4. PICK f \in Nat, g \in Nat, h \in Nat : f = u * v /\ g = (m - 1) * m /\ h = m * m
      <4>1. (m - 1) * m \in Nat /\ m * m \in Nat
        BY <1>1, <3>1
      <4> QED
        BY <3>1, <4>1
    <3>5. f < h
      BY <3>2, <3>3, <3>4
    <3> QED
      BY <3>4, <3>5, Zenon
  <2>3. r < Arith!TwoTo[2 * k + 2]
    BY <1>2, <2>2, ProductFits
  <2>4. Arith!ReduceOnce(Arith!Word(r - Arith!Quotient(r, m, Arith!ComputeMu(m)) * m), m) = r % m
    BY <1>4, <2>3
  <2> QED
    BY <1>1, <2>1, <2>2, <2>4, Zenon DEF Arith!ModMulFast, Arith!mu
<1>6. ASSUME element < Arith!TwoTo[2 * Arith!GetMSB(callModulus) + 2]
      PROVE  Arith!ModMu(element, callModulus, Arith!mu) = element % callModulus
  <2>1. PICK u \in Nat : u = element /\ u < Arith!TwoTo[2 * k + 2]
    BY <1>1, <1>2, <1>6, CalledNumbers DEF BarrettPowers
  <2>2. Arith!ReduceOnce(Arith!Word(u - Arith!Quotient(u, m, Arith!ComputeMu(m)) * m), m) = u % m
    BY <1>4, <2>1
  <2> QED
    BY <1>1, <2>1, <2>2, Zenon DEF Arith!ModMu, Arith!mu
<1>7. callModulus = 17 /\ element = 5559 => Arith!ModMu(element, callModulus, Arith!mu) = 17
  BY OneBitTooMany DEF Arith!mu
<1> QED
  BY <1>5, <1>6, <1>7
-----------------------------------------------------------------------------
(***************************************************************************)
(* The DPUs' product of two words, Karatsuba's. Below half of the range    *)
(* its middle term is a word, and its carry is the one that is lost when   *)
(* the low word wraps around.                                              *)
(***************************************************************************)
\* The four halves of two words below half of the range, as numbers.
LEMMA HalfWords ==
    ASSUME Arith!CallsAssumption
    PROVE  \E g \in Nat \ {0} : /\ Arith!Half = 2 * g
                                /\ Arith!TwoTo[CallWidth] = (2 * g) * (2 * g)
                                /\ Arith!TwoTo[CallWidth - 1] = g * (2 * g)
<1>1. PICK w \in Nat, j \in Nat : w = CallWidth /\ w > 7 /\ j = CallWidth \div 2 /\ j + j = w /\ j > 3
  <2>1. PICK w \in Nat : w = CallWidth /\ w > 7 /\ w % 2 = 0
    BY CallNumbers
  <2>2. w \div 2 \in Nat /\ (w \div 2) + (w \div 2) = w /\ w \div 2 > 3
    BY <2>1
  <2> QED
    BY <2>1, <2>2
<1>2. /\ j \in 0 .. 2 * w + 3 /\ j - 1 \in 0 .. 2 * w + 3 /\ j - 1 \in 0 .. 2 * w + 2
      /\ j + j <= 2 * w + 3 /\ (j - 1) + j <= 2 * w + 3 /\ (j - 1) + 1 = j /\ (j - 1) + j = w - 1
  BY <1>1
<1>3. PICK g \in Nat \ {0} : g = Arith!TwoTo[j - 1]
  BY <1>1, <1>2, TwoToFacts
<1>4. Arith!TwoTo[j] = 2 * g
  <2>1. Arith!TwoTo[(j - 1) + 1] = 2 * Arith!TwoTo[j - 1]
    BY <1>1, <1>2, TwoToFacts
  <2> QED
    BY <1>2, <1>3, <2>1, Zenon
<1>5. Arith!TwoTo[j + j] = Arith!TwoTo[j] * Arith!TwoTo[j]
      /\ Arith!TwoTo[(j - 1) + j] = Arith!TwoTo[j - 1] * Arith!TwoTo[j]
  BY <1>1, <1>2, TwoToFacts
<1>6. Arith!Half = Arith!TwoTo[j]
  BY <1>1, Zenon DEF Arith!Half
<1> QED
  BY <1>1, <1>2, <1>3, <1>4, <1>5, <1>6, Zenon

LEMMA SplitProduct ==
    ASSUME NEW h \in Nat, NEW u \in Nat, NEW r \in Nat, NEW v \in Nat, NEW s \in Nat
    PROVE  /\ (u * h + r) * (v * h + s) = (u * v) * (h * h) + (u * s + r * v) * h + r * s
           /\ (u + r) * (v + s) = u * v + (u * s + r * v) + r * s
           /\ u * v \in Nat /\ u * s \in Nat /\ r * v \in Nat /\ r * s \in Nat /\ h * h \in Nat
  OBVIOUS

\* The upper and the lower half of a word below half of the range.
IsHalves(g, h, u, j, l) ==
    j = u \div h /\ l = u % h /\ u = j * h + l /\ j <= g - 1 /\ l <= h - 1

LEMMA HalvesOf ==
    ASSUME NEW g \in Nat \ {0}, NEW h \in Nat \ {0}, NEW u \in Nat, u < g * h
    PROVE  \E j \in Nat, l \in Nat : IsHalves(g, h, u, j, l)
<1>2. u \div h \in Nat /\ u % h \in Nat /\ u % h < h /\ u = (u \div h) * h + (u % h)
  BY DivisionOf
<1>3. PICK j \in Nat, l \in Nat : j = u \div h /\ l = u % h /\ l < h /\ u = j * h + l
  BY <1>2
<1>4. j * h < g * h
  <2>1. PICK k \in Nat, n \in Nat : k = j * h /\ n = g * h
    <3>1. j * h \in Nat /\ g * h \in Nat
      OBVIOUS
    <3> QED
      BY <3>1
  <2>2. u < n
    BY <2>1
  <2> QED
    BY <1>3, <2>1, <2>2
<1>5. j < g
  <2>1. j \in Int /\ g \in Int
    OBVIOUS
  <2> QED
    BY <1>4, <2>1, CancelFactor
<1>6. j <= g - 1 /\ l <= h - 1
  BY <1>3, <1>5
<1> QED
  BY <1>3, <1>6, Zenon DEF IsHalves

LEMMA MultDExact ==
    ASSUME Arith!CallsAssumption, NEW u \in Nat, NEW v \in Nat,
           u < Arith!TwoTo[CallWidth - 1], v < Arith!TwoTo[CallWidth - 1]
    PROVE  Arith!MultD(u, v) = u * v
<1>1. PICK g \in Nat \ {0} : /\ Arith!Half = 2 * g
                             /\ Arith!TwoTo[CallWidth] = (2 * g) * (2 * g)
                             /\ Arith!TwoTo[CallWidth - 1] = g * (2 * g)
  BY HalfWords
<1>2. PICK h \in Nat \ {0} : h = 2 * g
  OBVIOUS
<1>3. PICK e \in Nat \ {0} : e = h * h /\ e = Arith!TwoTo[CallWidth]
  <2>1. 1 * 1 <= h * h /\ h * h \in Nat
    BY ProductBound
  <2>2. h * h \in Nat \ {0}
    BY <2>1
  <2> QED
    BY <1>1, <1>2, <2>2, Zenon
<1>4. PICK j \in Nat, l \in Nat : /\ j = u \div h /\ l = u % h /\ u = j * h + l
                                  /\ j <= g - 1 /\ l <= h - 1
  <2>1. PICK j \in Nat, l \in Nat : IsHalves(g, h, u, j, l)
    <3>1. u < g * h
      BY <1>1, <1>2, Zenon
    <3> QED
      BY <3>1, HalvesOf
  <2> QED
    BY <2>1, Zenon DEF IsHalves
<1>5. PICK k \in Nat, n \in Nat : /\ k = v \div h /\ n = v % h /\ v = k * h + n
                                  /\ k <= g - 1 /\ n <= h - 1
  <2>1. PICK k \in Nat, n \in Nat : IsHalves(g, h, v, k, n)
    <3>1. v < g * h
      BY <1>1, <1>2, Zenon
    <3> QED
      BY <3>1, HalvesOf
  <2> QED
    BY <2>1, Zenon DEF IsHalves
<1>6. PICK p \in Nat, q \in Nat, c1 \in Nat, c2 \in Nat :
         p = j * k /\ q = l * n /\ c1 = j * n /\ c2 = l * k
  BY SplitProduct
<1>7. /\ (j + l) * (k + n) = p + (c1 + c2) + q
      /\ u * v = p * e + (c1 + c2) * h + q
  <2>1. /\ (j * h + l) * (k * h + n) = (j * k) * (h * h) + (j * n + l * k) * h + l * n
        /\ (j + l) * (k + n) = j * k + (j * n + l * k) + l * n
    BY SplitProduct
  <2> QED
    BY <1>3, <1>4, <1>5, <1>6, <2>1, Zenon
<1>8. PICK f \in Nat : f = g * g /\ e = 4 * f /\ g <= f
  <2>1. g * g \in Nat /\ (2 * g) * (2 * g) = 4 * (g * g) /\ g <= g * g
    <3>1. g <= g * g
      BY ProductIsLarger
    <3> QED
      BY <3>1
  <2> QED
    BY <1>2, <1>3, <2>1
<1>9. p <= f - 2 * g + 1 /\ q <= e - 2 * h + 1 /\ c1 <= 2 * f - g - h + 1 /\ c2 <= 2 * f - g - h + 1
  <2>1. /\ j * k <= (g - 1) * (g - 1) /\ l * n <= (h - 1) * (h - 1)
        /\ j * n <= (g - 1) * (h - 1) /\ l * k <= (h - 1) * (g - 1)
    <3>1. g - 1 \in Nat /\ h - 1 \in Nat
      OBVIOUS
    <3> QED
      BY <1>4, <1>5, <3>1, ProductBound
  <2>2. /\ (g - 1) * (g - 1) = g * g - 2 * g + 1
        /\ (h - 1) * (h - 1) = h * h - 2 * h + 1
        /\ (g - 1) * (h - 1) = g * h - g - h + 1
        /\ (h - 1) * (g - 1) = g * h - g - h + 1
    OBVIOUS
  <2>3. g * h = 2 * (g * g)
    BY <1>2
  <2> QED
    BY <1>3, <1>6, <1>8, <2>1, <2>2, <2>3
<1>10. PICK b \in Nat : b = c1 + c2 /\ b < e
  BY <1>2, <1>8, <1>9
<1>11. PICK s \in Nat, t \in Nat : s = b \div h /\ t = b % h /\ b = s * h + t /\ t <= h - 1
  <2>1. b \div h \in Nat /\ b % h \in Nat /\ b % h < h /\ b = (b \div h) * h + (b % h)
    BY DivisionOf
  <2> QED
    BY <2>1
<1>12. s <= h - 1
  <2>1. s * h < h * h
    <3>1. PICK z \in Nat : z = s * h
      <4>1. s * h \in Nat
        OBVIOUS
      <4> QED
        BY <4>1
    <3> QED
      BY <1>3, <1>10, <1>11, <3>1
  <2>2. s < h
    <3>1. s \in Int /\ h \in Int
      OBVIOUS
    <3> QED
      BY <2>1, <3>1, CancelFactor
  <2> QED
    BY <2>2
<1>13. PICK o \in Nat : o = t * h /\ o <= e - h
  <2>1. t * h <= (h - 1) * h
    <3>1. h - 1 \in Nat /\ h <= h
      OBVIOUS
    <3> QED
      BY <1>11, <3>1, ProductBound
  <2>2. (h - 1) * h = h * h - h /\ t * h \in Nat
    OBVIOUS
  <2> QED
    BY <1>3, <2>1, <2>2
<1>14. u * v = (p + s) * e + o + q
  <2>1. b * h = s * e + o
    <3>1. (s * h + t) * h = s * (h * h) + t * h
      OBVIOUS
    <3> QED
      BY <1>3, <1>11, <1>13, <3>1, Zenon
  <2>2. (p + s) * e = p * e + s * e /\ p * e \in Nat /\ s * e \in Nat
    OBVIOUS
  <2>3. u * v = p * e + b * h + q
    BY <1>7, <1>10, Zenon
  <2> QED
    BY <2>1, <2>2, <2>3
<1>15. /\ Arith!Word(p) = p /\ Arith!Word(q) = q /\ Arith!Word(b) = b
  <2>1. p < e /\ q < e
    BY <1>2, <1>8, <1>9
  <2> QED
    BY <1>3, <1>10, <2>1, WordOf
<1>16. (j + l) * (k + n) - p - q = b
  BY <1>7, <1>10
<1> DEFINE lo == Arith!Word(q + o)
           up == p + s + (IF lo < q THEN 1 ELSE 0)
<1>17. Arith!MultD(u, v) = e * Arith!Word(up) + lo
  <2>1. Arith!Half = h
    BY <1>1, <1>2, Zenon
  <2>2. Arith!Word((u \div h) * (v \div h)) = p
    BY <1>4, <1>5, <1>6, <1>15, Zenon
  <2>3. Arith!Word((u % h) * (v % h)) = q
    BY <1>4, <1>5, <1>6, <1>15, Zenon
  <2>4. Arith!Word(((u \div h) + (u % h)) * ((v \div h) + (v % h)) - p - q) = b
    BY <1>4, <1>5, <1>15, <1>16, Zenon
  <2>5. b \div h = s /\ b % h = t /\ t * h = o
    BY <1>11, <1>13, Zenon
  <2> QED
    BY <1>3, <2>1, <2>2, <2>3, <2>4, <2>5, Zenon DEF Arith!MultD
<1>18. lo \in Nat /\ up \in Nat /\ up < e /\ (p + s) * e + o + q = up * e + lo
  <2>1. PICK z \in Nat : z = q + o
    OBVIOUS
  <2>2. (p + s) * e \in Nat /\ (p + s + 1) * e = (p + s) * e + e /\ (p + s + 0) * e = (p + s) * e
    OBVIOUS
  <2>3. CASE z < e
    <3>1. Arith!Word(z) = z
      BY <1>3, <2>3, WordOf
    <3>2. lo = z /\ ~(lo < q)
      BY <2>1, <3>1
    <3>3. up = p + s + 0 /\ up \in Nat /\ up < e
      BY <1>2, <1>8, <1>9, <1>12, <3>2
    <3> QED
      BY <2>1, <2>2, <3>2, <3>3
  <2>4. CASE ~(z < e)
    <3>1. PICK r \in Nat : r = z - e /\ r < e /\ r < q /\ z = 1 * e + r
      BY <1>2, <1>8, <1>9, <1>13, <2>1, <2>4
    <3>2. Arith!Word(z) = r
      BY <1>3, <3>1, QuotientIs DEF Arith!Word
    <3>3. lo = r /\ lo < q
      BY <2>1, <3>1, <3>2
    <3>4. up = p + s + 1 /\ up \in Nat /\ up < e
      BY <1>2, <1>8, <1>9, <1>12, <3>3
    <3> QED
      BY <2>1, <2>2, <3>1, <3>3, <3>4
  <2> QED
    BY <2>3, <2>4
<1> HIDE DEF lo, up
<1>19. Arith!Word(up) = up
  BY <1>3, <1>18, WordOf
<1>20. e * up = up * e
  BY <1>18
<1> QED
  BY <1>14, <1>17, <1>18, <1>19, <1>20, Zenon
-----------------------------------------------------------------------------
(***************************************************************************)
(* The DPUs' Barrett reduction makes the host's estimate.                  *)
(***************************************************************************)
\* With six bits to spare everything that the DPUs multiply is less than half of
\* the range.
LEMMA DpuNumbers ==
    ASSUME Arith!CallsAssumption, NEW m \in CallModuli,
           NEW k \in Nat, NEW p \in Nat \ {0}, NEW c \in Nat \ {0}, NEW d \in Nat \ {0},
           BarrettPowers(m, k, p, c, d), k <= CallWidth - 6
    PROVE  /\ d \div m \in Nat /\ d \div m < Arith!TwoTo[CallWidth - 1]
           /\ d \div m \in Arith!Words
           /\ Arith!TwoTo[k + 4] \in Nat /\ Arith!TwoTo[k + 4] < Arith!TwoTo[CallWidth - 1]
           /\ m < Arith!TwoTo[CallWidth - 1] /\ m \in Nat \ {0}
           /\ Arith!TwoTo[CallWidth - 1] \in Nat
<1>1. PICK w \in Nat : w = CallWidth /\ w > 7
  BY CallNumbers
<1>2. /\ k = Arith!GetMSB(m) /\ k >= 2 /\ k <= w - 6 /\ m \in Nat \ {0}
      /\ Arith!TwoTo[k - 1] <= m /\ m < Arith!TwoTo[k] /\ d = Arith!TwoTo[2 * k + 3]
  BY <1>1, ModulusNumbers DEF BarrettPowers
<1>3. /\ k - 1 \in 0 .. 2 * w + 3 /\ k \in 0 .. 2 * w + 3 /\ k + 4 \in 0 .. 2 * w + 3
      /\ w - 1 \in 0 .. 2 * w + 3 /\ w \in 0 .. 2 * w + 3 /\ k + 4 < w - 1 /\ k < w - 1 /\ w - 1 < w
      /\ (k + 4) + (k - 1) <= 2 * w + 3 /\ (k + 4) + (k - 1) = 2 * k + 3
  BY <1>1, <1>2
<1>4. PICK h \in Nat \ {0}, f \in Nat \ {0}, e \in Nat \ {0}, b \in Nat \ {0} :
         /\ h = Arith!TwoTo[w - 1] /\ f = Arith!TwoTo[k + 4] /\ e = Arith!TwoTo[w]
         /\ b = Arith!TwoTo[k - 1]
  BY <1>1, <1>3, TwoToFacts
<1>5. f < h /\ m < h /\ h < e
  <2>1. 2 * Arith!TwoTo[k + 4] <= Arith!TwoTo[w - 1]
    BY <1>1, <1>3, TwoToFacts
  <2>2. 2 * Arith!TwoTo[k] <= Arith!TwoTo[w - 1] /\ Arith!TwoTo[k] \in Nat
    BY <1>1, <1>3, TwoToFacts
  <2>3. 2 * Arith!TwoTo[w - 1] <= Arith!TwoTo[w]
    BY <1>1, <1>3, TwoToFacts
  <2> QED
    BY <1>2, <1>4, <2>1, <2>2, <2>3
<1>6. d = f * b
  <2>1. Arith!TwoTo[(k + 4) + (k - 1)] = Arith!TwoTo[k + 4] * Arith!TwoTo[k - 1]
    BY <1>1, <1>3, TwoToFacts
  <2> QED
    BY <1>2, <1>3, <1>4, <2>1, Zenon
<1>7. PICK nu \in Nat : nu = d \div m /\ nu * m <= d
  <2>1. d \div m \in Nat /\ d % m \in Nat /\ d = (d \div m) * m + (d % m)
    <3>1. d \in Int /\ d \in Nat /\ m \in Nat \ {0}
      BY <1>2
    <3> QED
      BY <3>1, DivisionOf, Zenon
  <2>2. PICK nu \in Nat, r \in Nat : nu = d \div m /\ d = nu * m + r
    BY <2>1
  <2>3. PICK z \in Nat : z = nu * m
    <3>1. nu * m \in Nat
      BY <1>2
    <3> QED
      BY <3>1
  <2>4. z <= d
    BY <2>2, <2>3
  <2> QED
    BY <2>2, <2>3, <2>4
<1>8. nu <= f
  <2>1. f * b <= f * m
    <3>1. f \in Nat /\ b \in Nat /\ m \in Nat /\ f <= f /\ b <= m
      BY <1>2, <1>4
    <3> QED
      BY <3>1, ProductBound
  <2>2. nu * m <= f * m
    <3>1. PICK z1 \in Nat, z2 \in Nat : z1 = nu * m /\ z2 = f * m
      <4>1. nu * m \in Nat /\ f * m \in Nat
        BY <1>2
      <4> QED
        BY <4>1
    <3>2. z1 <= d /\ d <= z2
      BY <1>6, <1>7, <2>1, <3>1, Zenon
    <3>3. z1 <= z2
      BY <3>2
    <3> QED
      BY <3>1, <3>3, Zenon
  <2>3. nu \in Int /\ f \in Int
    OBVIOUS
  <2> QED
    BY <1>2, <2>2, <2>3, CancelFactor
<1>9. nu < h /\ nu \in Arith!Words
  BY <1>1, <1>4, <1>5, <1>8 DEF Arith!Words
<1> QED
  BY <1>1, <1>2, <1>4, <1>5, <1>7, <1>9, Zenon

\* What host and DPU estimate for u / m.
SameEstimate(m, u, q) ==
    /\ Arith!Quotient(u, m, Arith!ComputeMu(m)) = q
    /\ Arith!DpuQuotient(u, m, Arith!ComputeMu(m)) = q
    /\ Arith!MultD(q, m) = q * m
    /\ u - q * m \in Nat /\ u - q * m < 2 * m

LEMMA DpuEstimates ==
    ASSUME Arith!CallsAssumption, NEW m \in CallModuli,
           NEW k \in Nat, NEW p \in Nat \ {0}, NEW c \in Nat \ {0}, NEW d \in Nat \ {0},
           BarrettPowers(m, k, p, c, d), k <= CallWidth - 6,
           NEW u \in Nat, u < m * m
    PROVE  \E q \in Nat : SameEstimate(m, u, q)
<1>1. /\ d \div m \in Nat /\ d \div m < Arith!TwoTo[CallWidth - 1]
      /\ d \div m \in Arith!Words
      /\ Arith!TwoTo[k + 4] \in Nat /\ Arith!TwoTo[k + 4] < Arith!TwoTo[CallWidth - 1]
      /\ m < Arith!TwoTo[CallWidth - 1] /\ m \in Nat \ {0}
      /\ Arith!TwoTo[CallWidth - 1] \in Nat
  BY DpuNumbers
<1>2. u < Arith!TwoTo[2 * k + 2]
  BY ProductFits
<1>3. PICK nu \in Nat : nu = d \div m /\ nu < Arith!TwoTo[CallWidth - 1]
  BY <1>1
<1>4. Arith!ComputeMu(m) = nu /\ Arith!Quotient(u, m, Arith!ComputeMu(m)) = Estimate(u, p, nu, c)
  BY SMTT(60), <1>1, <1>2, <1>3, BarrettReduces
<1>5. PICK s \in Nat : s = Arith!RShiftD(u, k - 2) /\ s = u \div p /\ s < Arith!TwoTo[CallWidth - 1]
  <2>1. Arith!RShiftD(u, k - 2) = u \div p /\ u \div p \in Nat /\ u \div p < Arith!TwoTo[k + 4]
    BY SMTT(60), <1>2, <1>3, HostQuotient
  <2>2. PICK s \in Nat, h \in Nat, f \in Nat : s = u \div p /\ h = Arith!TwoTo[CallWidth - 1]
                                               /\ f = Arith!TwoTo[k + 4] /\ s < f /\ f < h
    BY <1>1, <2>1, Zenon
  <2>3. s < h
    BY <2>2
  <2> QED
    BY <2>1, <2>2, <2>3, Zenon
<1>6. Arith!MultD(s, nu) = s * nu
  BY <1>3, <1>5, MultDExact
<1> DEFINE q == ((u \div p) * ((p * c) \div m)) \div c
<1>7. q \in Nat /\ u - q * m \in Nat /\ u - q * m < 2 * m
  <2>1. 2 * p <= m /\ 2 * u <= p * c
    <3>1. PICK h \in Nat : h = Arith!TwoTo[2 * k + 2] /\ d = 2 * h /\ u < h
      BY <1>2 DEF BarrettPowers
    <3>2. 2 * u <= d
      BY <3>1
    <3> QED
      BY <3>2 DEF BarrettPowers
  <2> QED
    BY <1>1, <2>1, BarrettEstimate
<1>8. q = Estimate(u, p, nu, c) /\ q = (s * nu) \div c
  BY <1>3, <1>5, Zenon DEF BarrettPowers, Estimate
<1> HIDE DEF q
<1>9. PICK b \in Nat : b = q /\ b < m
  <2>1. PICK z \in Nat, n \in Nat : z = q * m /\ n = m * m
    <3>1. q * m \in Nat /\ m * m \in Nat
      BY <1>1, <1>7
    <3> QED
      BY <3>1
  <2>2. z < n
    <3>1. u - z \in Nat /\ u < n
      BY <1>7, <2>1, Zenon
    <3> QED
      BY <3>1
  <2>3. q * m < m * m /\ q \in Int /\ m \in Int
    BY <1>1, <1>7, <2>1, <2>2
  <2>4. q < m
    BY <1>1, <2>3, CancelFactor
  <2> QED
    BY <1>7, <2>4
<1>10. b < Arith!TwoTo[CallWidth - 1] /\ b < Arith!TwoTo[CallWidth]
  <2>1. PICK h \in Nat, e \in Nat : h = Arith!TwoTo[CallWidth - 1] /\ e = Arith!TwoTo[CallWidth] /\ 16 * m < e
    BY <1>1, ModulusNumbers
  <2> QED
    BY <1>1, <1>9, <2>1
<1>11. Arith!MultD(b, m) = b * m
  BY <1>1, <1>10, MultDExact
<1>12. Arith!RShiftD(s * nu, k + 5) = (s * nu) \div c
  <2>1. PICK z \in Nat : z = s * nu
    <3>1. s * nu \in Nat
      OBVIOUS
    <3> QED
      BY <3>1
  <2>2. k + 5 \in 0 .. CallWidth - 1 /\ c = Arith!TwoTo[k + 5]
    BY CallNumbers DEF BarrettPowers
  <2>3. z \div Arith!TwoTo[k + 5] < Arith!TwoTo[CallWidth]
    BY <1>8, <1>9, <1>10, <2>1, <2>2, Zenon
  <2>4. Arith!RShiftD(z, k + 5) = z \div Arith!TwoTo[k + 5]
    BY <2>2, <2>3, RShiftExact
  <2> QED
    BY <2>1, <2>2, <2>4, Zenon
<1>13. Arith!DpuQuotient(u, m, nu) = b
  <2>1. k = Arith!GetMSB(m) /\ (k - 2) + 7 = k + 5
    BY DEF BarrettPowers
  <2>2. Arith!DpuQuotient(u, m, nu)
            = Arith!RShiftD(Arith!MultD(Arith!RShiftD(u, k - 2), nu), (k - 2) + 7)
    BY <2>1, Zenon DEF Arith!DpuQuotient
  <2> QED
    BY <1>5, <1>6, <1>8, <1>9, <1>12, <2>1, <2>2, Zenon
<1>14. SameEstimate(m, u, b)
  BY <1>4, <1>7, <1>8, <1>9, <1>11, <1>13, Zenon DEF SameEstimate
<1> QED
  BY <1>14
\* Words of words: a difference may be taken modulo the words before or after.
LEMMA WordDifference ==
    ASSUME Arith!CallsAssumption, NEW u \in Nat, NEW v \in Nat, u - v \in Nat,
           u - v < Arith!TwoTo[CallWidth]
    PROVE  /\ Arith!Word(Arith!Lo(u) - Arith!Lo(v)) = u - v
           /\ u < Arith!TwoTo[CallWidth] => Arith!Word(u - Arith!Lo(v)) = u - v
           /\ Arith!Word(u - v) = u - v
<1>1. PICK e \in Nat \ {0} : e = Arith!TwoTo[CallWidth]
  <2>1. CallWidth \in 0 .. 2 * CallWidth + 3
    BY CallNumbers
  <2> QED
    BY <2>1, TwoToFacts
<1>2. PICK t \in Nat : t = u - v /\ t < Arith!TwoTo[CallWidth]
  OBVIOUS
<1>3. Arith!Word(t) = t
  BY <1>2, WordOf
<1>4. ((u % e) - (v % e)) % e = (u - v) % e
  <2>1. u \in Int /\ v \in Int
    OBVIOUS
  <2> QED
    BY <2>1, ModSum, Zenon
<1>5. Arith!Word(Arith!Lo(u) - Arith!Lo(v)) = t
  BY <1>1, <1>2, <1>3, <1>4, Zenon DEF Arith!Word, Arith!Lo
<1>6. u < Arith!TwoTo[CallWidth] => Arith!Lo(u) = u
  BY WordOf DEF Arith!Lo
<1> QED
  BY <1>2, <1>3, <1>5, <1>6, Zenon

LEMMA DpuReduces ==
    ASSUME Arith!CallsAssumption, NEW m \in CallModuli,
           NEW k \in Nat, NEW p \in Nat \ {0}, NEW c \in Nat \ {0}, NEW d \in Nat \ {0},
           BarrettPowers(m, k, p, c, d), k <= CallWidth - 6
    PROVE  /\ \A u \in Nat : u < m * m /\ u < Arith!TwoTo[CallWidth] =>
                 Arith!DpuModMu(u, m, Arith!ComputeMu(m)) = u % m
           /\ \A u, v \in Nat : u < m /\ v < m =>
                 /\ Arith!DpuModMulFastB(u, v, m, Arith!ComputeMu(m)) = (u * v) % m
                 /\ Arith!ModMulFast(u, v, m, Arith!ComputeMu(m)) = (u * v) % m
<1>1. PICK e \in Nat \ {0} : e = Arith!TwoTo[CallWidth] /\ m \in Nat \ {0} /\ 16 * m < e
  BY ModulusNumbers
<1>2. PICK h \in Nat : h = Arith!TwoTo[CallWidth - 1] /\ m < h
  BY DpuNumbers
<1> DEFINE nu == Arith!ComputeMu(m)
<1> HIDE DEF nu
\* What is left of u once the estimated multiple of m is taken off.
<1>3. ASSUME NEW u \in Nat, u < m * m
      PROVE  \E q \in Nat, t \in Nat :
                /\ Arith!Quotient(u, m, nu) = q /\ Arith!DpuQuotient(u, m, nu) = q
                /\ Arith!MultD(q, m) = q * m /\ q * m \in Nat
                /\ t = u - q * m /\ t < e /\ Arith!ReduceOnce(t, m) = u % m
  <2>1. PICK q \in Nat : SameEstimate(m, u, q)
    BY <1>3, DpuEstimates
  <2>2. PICK t \in Nat : t = u - q * m /\ t < 2 * m
    BY <2>1 DEF SameEstimate
  <2>3. q * m \in Nat
    BY <1>1
  <2>4. t < e
    BY <1>1, <2>2
  <2>5. Arith!ReduceOnce(t, m) = t % m
    BY <1>1, <2>2, ReducedOnce
  <2>6. u % m = t % m
    <3>1. u = t + q * m /\ q \in Int /\ t \in Int
      BY <2>2, <2>3
    <3>2. (t + q * m) % m = t % m
      BY <1>1, <3>1, ModPlus, Zenon
    <3> QED
      BY <3>1, <3>2, Zenon
  <2> QED
    BY <2>1, <2>2, <2>3, <2>4, <2>5, <2>6, Zenon DEF SameEstimate, nu
<1>4. ASSUME NEW u \in Nat, u < m * m, u < Arith!TwoTo[CallWidth]
      PROVE  Arith!DpuModMu(u, m, nu) = u % m
  <2>1. PICK q \in Nat, t \in Nat :
           /\ Arith!DpuQuotient(u, m, nu) = q
           /\ Arith!MultD(q, m) = q * m /\ q * m \in Nat
           /\ t = u - q * m /\ t < e /\ Arith!ReduceOnce(t, m) = u % m
    BY <1>3, <1>4, Zenon
  <2>2. PICK z \in Nat : z = q * m
    BY <2>1, Zenon
  <2>3. Arith!Word(u - Arith!Lo(z)) = u - z
    <3>1. u - z \in Nat /\ u - z < Arith!TwoTo[CallWidth]
      BY <1>1, <2>1, <2>2, Zenon
    <3> QED
      BY <1>4, <3>1, WordDifference
  <2> QED
    BY <2>1, <2>2, <2>3, Zenon DEF Arith!DpuModMu
<1>5. ASSUME NEW u \in Nat, NEW v \in Nat, u < m, v < m
      PROVE  /\ Arith!DpuModMulFastB(u, v, m, nu) = (u * v) % m
             /\ Arith!ModMulFast(u, v, m, nu) = (u * v) % m
  <2>1. Arith!MultD(u, v) = u * v
    <3>1. u < Arith!TwoTo[CallWidth - 1] /\ v < Arith!TwoTo[CallWidth - 1]
      BY <1>1, <1>2, <1>5
    <3> QED
      BY <3>1, MultDExact
  <2>2. PICK r \in Nat : r = u * v /\ r < m * m
    <3>1. u * v \in Nat /\ u <= m - 1 /\ v <= m /\ m - 1 \in Nat
      BY <1>1, <1>5
    <3>2. u * v <= (m - 1) * m
      BY <1>1, <3>1, ProductBound
    <3>3. (m - 1) * m = m * m - m /\ m * m \in Nat
      BY <1>1
    <3>4. PICK f \in Nat, g \in Nat : f = u * v /\ g = m * m
      BY <3>1, <3>3
    <3>5. f < g
      BY <1>1, <3>2, <3>3, <3>4
    <3> QED
      BY <3>4, <3>5, Zenon
  <2>3. PICK q \in Nat, t \in Nat :
           /\ Arith!Quotient(r, m, nu) = q /\ Arith!DpuQuotient(r, m, nu) = q
           /\ Arith!MultD(q, m) = q * m /\ q * m \in Nat
           /\ t = r - q * m /\ t < e /\ Arith!ReduceOnce(t, m) = r % m
    BY <1>3, <2>2, Zenon
  <2>4. PICK z \in Nat : z = q * m
    BY <2>3, Zenon
  <2>5. Arith!Word(Arith!Lo(r) - Arith!Lo(z)) = r - z /\ Arith!Word(r - z) = r - z
    <3>1. r - z \in Nat /\ r - z < Arith!TwoTo[CallWidth]
      BY <1>1, <2>3, <2>4, Zenon
    <3> QED
      BY <3>1, WordDifference
  <2>6. Arith!DpuModMulFastB(u, v, m, nu) = r % m
    BY <2>1, <2>2, <2>3, <2>4, <2>5, Zenon DEF Arith!DpuModMulFastB
  <2>7. Arith!ModMulFast(u, v, m, nu) = r % m
    BY <2>2, <2>3, <2>4, <2>5, Zenon DEF Arith!ModMulFast
  <2> QED
    BY <2>2, <2>6, <2>7, Zenon
<1> QED
  BY <1>4, <1>5 DEF nu

LEMMA DpuBarrettHolds ==
    ASSUME Arith!CallsAssumption, Callable
    PROVE  Arith!DpuBarrettExact
<1>1. PICK m \in CallModuli : m = callModulus /\ m \in Nat \ {0}
  BY ModulusNumbers DEF Callable
<1>2. ASSUME Arith!Called, element < Arith!TwoTo[CallWidth - 1], operand < Arith!TwoTo[CallWidth - 1]
      PROVE  Arith!MultD(element, operand) = element * operand
  BY <1>2, CalledNumbers, MultDExact
<1>3. ASSUME Arith!Called, Arith!GetMSB(callModulus) <= CallWidth - 6
      PROVE  /\ Arith!CalledReduced =>
                   Arith!DpuModMulFastB(element, operand, callModulus, Arith!mu)
                       = Arith!ModMulFast(element, operand, callModulus, Arith!mu)
             /\ element < callModulus * callModulus /\ operand < callModulus * callModulus =>
                   Arith!DpuModMulB(element, operand, callModulus, Arith!mu)
                       = (element * operand) % callModulus
  <2>1. PICK k \in Nat, p \in Nat \ {0}, c \in Nat \ {0}, d \in Nat \ {0} :
           BarrettPowers(m, k, p, c, d)
    BY BarrettNumbers
  <2>2. k <= CallWidth - 6
    BY <1>1, <1>3, <2>1 DEF BarrettPowers
  <2> DEFINE nu == Arith!ComputeMu(m)
  <2>3. /\ \A u \in Nat : u < m * m /\ u < Arith!TwoTo[CallWidth] =>
              Arith!DpuModMu(u, m, nu) = u % m
        /\ \A u, v \in Nat : u < m /\ v < m =>
              /\ Arith!DpuModMulFastB(u, v, m, nu) = (u * v) % m
              /\ Arith!ModMulFast(u, v, m, nu) = (u * v) % m
    BY <2>1, <2>2, DpuReduces
  <2> HIDE DEF nu
  <2>4. PICK u \in Nat, v \in Nat :
           /\ u = element /\ v = operand
           /\ u < Arith!TwoTo[CallWidth] /\ v < Arith!TwoTo[CallWidth]
    BY <1>3, CalledNumbers
  <2>5. ASSUME Arith!CalledReduced
        PROVE  Arith!DpuModMulFastB(u, v, m, nu) = Arith!ModMulFast(u, v, m, nu)
    <3>1. u < m /\ v < m
      BY <1>1, <2>4, <2>5 DEF Arith!CalledReduced
    <3> QED
      BY <2>3, <3>1, Zenon
  <2>6. ASSUME u < m * m, v < m * m
        PROVE  Arith!DpuModMulB(u, v, m, nu) = (u * v) % m
    <3>1. /\ (IF u >= m THEN Arith!DpuModMu(u, m, nu) ELSE u) = u % m
          /\ (IF v >= m THEN Arith!DpuModMu(v, m, nu) ELSE v) = v % m
      <4>1. Arith!DpuModMu(u, m, nu) = u % m /\ Arith!DpuModMu(v, m, nu) = v % m
        BY <2>3, <2>4, <2>6, Zenon
      <4>2. (~(u >= m) => u % m = u) /\ (~(v >= m) => v % m = v)
        <5>1. \A n \in Nat : n < m => n % m = n
          BY <1>1, ModSmall
        <5>2. \A n \in Nat : ~(n >= m) => n < m
          BY <1>1
        <5> QED
          BY <5>1, <5>2, Zenon
      <4> QED
        BY <4>1, <4>2, Zenon
    <3>2. PICK r \in Nat, s \in Nat : r = u % m /\ s = v % m /\ r < m /\ s < m
      <4>1. u % m \in Nat /\ u % m < m /\ v % m \in Nat /\ v % m < m
        <5>1. u \in Int /\ v \in Int /\ m \in Nat \ {0}
          BY <1>1
        <5> QED
          BY <5>1, DivisionOf, Zenon
      <4> QED
        BY <4>1, Zenon
    <3>3. Arith!DpuModMulFastB(r, s, m, nu) = (r * s) % m
      BY <2>3, <3>2, Zenon
    <3>4. (r * s) % m = (u * v) % m
      <4>1. u \in Int /\ v \in Int /\ m \in Nat \ {0}
        BY <1>1
      <4>2. ((u % m) * (v % m)) % m = (u * v) % m
        BY <4>1, ModProduct, Zenon
      <4> QED
        BY <3>2, <4>2, Zenon
    <3> QED
      BY <3>1, <3>2, <3>3, <3>4, Zenon DEF Arith!DpuModMulB
  <2> QED
    BY <1>1, <2>4, <2>5, <2>6, Zenon DEF Arith!mu, nu
<1> QED
  BY <1>2, <1>3 DEF Arith!DpuBarrettExact
-----------------------------------------------------------------------------
(***************************************************************************)
(* Where the DPUs' other operations are the host's, and where they are     *)
(* not.                                                                    *)
(***************************************************************************)
\* Where something is borrowed, the DPUs' differences are other words.
LEMMA BorrowDiffers ==
    ASSUME Arith!CallsAssumption, NEW m \in CallModuli, NEW u \in Nat, NEW v \in Nat, u < m, v < m
    PROVE  /\ Arith!DpuModSubFast(u, v, m) = Arith!Difference(u, v, m) <=> v <= u
           /\ Arith!DpuModSubFastEq(u, v, m) = Arith!Difference(u, v, m) <=> v <= u
<1>1. PICK e \in Nat \ {0} : e = Arith!TwoTo[CallWidth] /\ m \in Nat \ {0} /\ 16 * m < e
  BY ModulusNumbers
<1>2. ~(m < v)
  BY <1>1
<1>3. CASE v <= u
  <2>1. PICK s \in Nat : s = u - v /\ s < Arith!TwoTo[CallWidth]
    BY <1>1, <1>3
  <2>2. Arith!Word(s) = s
    BY <2>1, WordOf
  <2>3. ~(u < v)
    BY <1>3
  <2> QED
    BY <1>2, <1>3, <2>1, <2>2, <2>3, Zenon
       DEF Arith!DpuModSubFast, Arith!DpuModSubFastEq, Arith!Difference
<1>4. CASE ~(v <= u)
  <2>1. u < v
    BY <1>4
  <2>2. PICK s \in Nat : s = u + m - v /\ s < m /\ s < Arith!TwoTo[CallWidth]
    BY <1>1, <2>1
  <2>3. Arith!Word(s) = s
    BY <2>2, WordOf
  <2>4. Arith!Difference(u, v, m) = s
    BY <2>1, <2>2, <2>3, Zenon DEF Arith!Difference
  <2>5. Arith!Word(u - v) # s
    <3>1. PICK z \in Int, r \in Nat : z = u - v /\ r = z + e /\ r < e /\ z = (-1) * e + r /\ r # s /\ -1 \in Int
      BY <1>1, <2>1, <2>2
    <3>2. z % e = r
      BY SMTT(60), <3>1, QuotientIs
    <3> QED
      BY <1>1, <3>1, <3>2, Zenon DEF Arith!Word
  <2>6. Arith!Word(u + m - v - v) # s
    <3>1. PICK z \in Int : z = u + m - v - v
      BY <1>1
    <3>2. CASE z >= 0
      <4>1. z \in Nat /\ z < e /\ z # s
        BY <1>1, <2>1, <2>2, <3>1, <3>2
      <4>2. Arith!Word(z) = z
        BY <1>1, <4>1, WordOf
      <4> QED
        BY <3>1, <4>1, <4>2, Zenon
    <3>3. CASE ~(z >= 0)
      <4>1. PICK r \in Nat : r = z + e /\ r < e /\ z = (-1) * e + r /\ r # s /\ -1 \in Int
        BY <1>1, <2>1, <2>2, <3>1, <3>3
      <4>2. z % e = r
        BY <4>1, QuotientIs
      <4> QED
        BY <1>1, <3>1, <4>1, <4>2, Zenon DEF Arith!Word
    <3> QED
      BY <3>2, <3>3
  <2> QED
    BY <1>2, <1>4, <2>1, <2>4, <2>5, <2>6, Zenon DEF Arith!DpuModSubFast, Arith!DpuModSubFastEq
<1> QED
  BY <1>3, <1>4

LEMMA SubtractionsAgree ==
    ASSUME Arith!CallsAssumption, Callable
    PROVE  /\ Arith!CalledReduced =>
                 /\ Arith!DpuModSubFast(element, operand, callModulus)
                        = Arith!ModSubFast(element, operand, callModulus) <=> operand <= element
                 /\ Arith!DpuModSubFastEq(element, operand, callModulus)
                        = Arith!ModSubFast(element, operand, callModulus) <=> operand <= element
           /\ Arith!Called =>
                 (Arith!DpuModSubEq(element, operand, callModulus)
                      = Arith!ModSub(element, operand, callModulus)
                    <=> operand % callModulus <= element % callModulus)
<1>1. PICK m \in CallModuli : m = callModulus /\ m \in Nat \ {0}
  BY ModulusNumbers DEF Callable
<1>2. ASSUME Arith!CalledReduced
      PROVE  /\ Arith!DpuModSubFast(element, operand, callModulus)
                    = Arith!ModSubFast(element, operand, callModulus) <=> operand <= element
             /\ Arith!DpuModSubFastEq(element, operand, callModulus)
                    = Arith!ModSubFast(element, operand, callModulus) <=> operand <= element
  <2>1. PICK u \in Nat, v \in Nat : u = element /\ v = operand /\ u < m /\ v < m
    BY <1>1, <1>2, CalledNumbers DEF Arith!CalledReduced
  <2>2. /\ Arith!DpuModSubFast(u, v, m) = Arith!Difference(u, v, m) <=> v <= u
        /\ Arith!DpuModSubFastEq(u, v, m) = Arith!Difference(u, v, m) <=> v <= u
    BY <2>1, BorrowDiffers
  <2> QED
    BY <1>1, <2>1, <2>2, Zenon DEF Arith!ModSubFast
<1>3. ASSUME Arith!Called
      PROVE  Arith!DpuModSubEq(element, operand, callModulus)
                 = Arith!ModSub(element, operand, callModulus)
               <=> operand % callModulus <= element % callModulus
  <2>1. PICK u \in Nat, v \in Nat : u = element /\ v = operand
    BY <1>3, CalledNumbers
  <2>2. PICK r \in Nat, s \in Nat : r = u % m /\ s = v % m /\ r < m /\ s < m
    <3>1. u \in Int /\ v \in Int /\ m \in Nat \ {0}
      BY <1>1
    <3>2. u % m \in Nat /\ u % m < m /\ v % m \in Nat /\ v % m < m
      BY <3>1, DivisionOf, Zenon
    <3> QED
      BY <3>2, Zenon
  <2>3. Arith!DpuModSubFastEq(r, s, m) = Arith!Difference(r, s, m) <=> s <= r
    BY <2>2, BorrowDiffers
  <2>4. Arith!DpuModSubEq(u, v, m) = Arith!DpuModSubFastEq(r, s, m)
    BY <2>2, Zenon DEF Arith!DpuModSubEq, Arith!DpuModSubFastEq
  <2>5. Arith!ModSub(u, v, m) = Arith!Difference(r, s, m)
    BY <2>2, Zenon DEF Arith!ModSub
  <2> QED
    BY <1>1, <2>1, <2>2, <2>3, <2>4, <2>5, Zenon
<1> QED
  BY <1>2, <1>3

LEMMA RoundingAgrees ==
    ASSUME Arith!CallsAssumption, Callable, Arith!Called, operand > 0,
           element * operand + operand \div 2 < Arith!TwoTo[CallWidth]
    PROVE  Arith!DpuMultiplyAndRound(element, callModulus, operand) = element
<1>1. PICK e \in Nat \ {0} : e = Arith!TwoTo[CallWidth]
  <2>1. callModulus \in CallModuli
    BY DEF Callable
  <2> QED
    BY <2>1, ModulusNumbers
<1>2. PICK u \in Nat, v \in Nat \ {0} : u = element /\ v = operand
  BY CalledNumbers
<1>3. PICK h \in Nat : h = v \div 2 /\ h < v
  BY <1>2
<1>4. PICK z \in Nat : z = u * v
  <2>1. u * v \in Nat
    OBVIOUS
  <2> QED
    BY <2>1
<1>5. z < e /\ z + h < e /\ z + h \in Nat
  <2>1. z + h < e
    BY <1>1, <1>2, <1>3, <1>4, Zenon
  <2> QED
    BY <2>1
<1>6. Arith!Word(z) = z /\ Arith!Word(z + h) = z + h
  BY <1>1, <1>5, WordOf
<1>7. (z + h) \div v = u
  <2>1. z + h = u * v + h /\ z + h \in Int /\ u \in Int
    BY <1>4
  <2> QED
    BY <1>3, <2>1, QuotientIs, ZenonT(60)
<1> QED
  BY <1>2, <1>3, <1>4, <1>6, <1>7, Zenon DEF Arith!DpuMultiplyAndRound
\* Subtracting a remainder changes the residue, unless it is zero.
LEMMA ResidueMoves ==
    ASSUME NEW u \in Nat, NEW n \in Nat \ {0}, NEW r \in Nat, r < n, r # 0
    PROVE  (u + (n - r)) % n # u % n
<1>1. PICK q \in Nat, s \in Nat : q = u \div n /\ s = u % n /\ s < n /\ u = q * n + s
  <2>1. u \div n \in Nat /\ u % n \in Nat /\ u % n < n /\ u = (u \div n) * n + (u % n)
    BY DivisionOf
  <2> QED
    BY <2>1
<1>2. PICK z \in Int : z = u + (n - r)
  OBVIOUS
<1>3. CASE s >= r
  <2>1. PICK t \in Nat : t = s - r /\ t < n /\ t # s
    <3>1. s < n
      BY <1>1, Zenon
    <3> QED
      BY <1>3, <3>1
  <2>2. z = (q + 1) * n + t /\ q + 1 \in Int
    <3>1. (q + 1) * n = q * n + n /\ q * n \in Nat
      OBVIOUS
    <3> QED
      BY <1>1, <1>2, <2>1, <3>1
  <2>3. z % n = t
    <3>1. PICK b \in Int : b = q + 1 /\ z = b * n + t
      BY <2>2
    <3> QED
      BY <2>1, <3>1, QuotientIs, Zenon
  <2> QED
    BY <1>1, <1>2, <2>1, <2>3, Zenon
<1>4. CASE ~(s >= r)
  <2>1. PICK t \in Nat : t = s + (n - r) /\ t < n /\ t # s
    BY <1>4
  <2>2. z = q * n + t /\ q \in Int
    <3>1. q * n \in Nat
      OBVIOUS
    <3> QED
      BY <1>1, <1>2, <2>1, <3>1
  <2>3. z % n = t
    BY <2>1, <2>2, QuotientIs, Zenon
  <2> QED
    BY <1>1, <1>2, <2>1, <2>3, Zenon
<1> QED
  BY <1>3, <1>4

LEMMA UnsetIsNoWord ==
    ASSUME Arith!CallsAssumption, NEW u \in Nat, u < Arith!TwoTo[CallWidth]
    PROVE  u # Unset
<1>1. u \in Arith!Words
  <2>1. CallWidth \in 0 .. 2 * CallWidth + 3
    BY CallNumbers
  <2>2. PICK e \in Nat : e = Arith!TwoTo[CallWidth] /\ u < e
    BY <2>1, TwoToFacts
  <2>3. u \in 0 .. e - 1
    BY <2>2
  <2> QED
    BY <2>2, <2>3 DEF Arith!Words
<1>2. Unset \notin Arith!Words
  BY DEF Arith!CallsAssumption, Arith!DpuArithAssumption
<1> QED
  BY <1>1, <1>2, Zenon

\* Which elements modulus() stores as Mod would; u is below half of m or above.
LEMMA ToLargerAgrees ==
    ASSUME Arith!CallsAssumption, NEW m \in CallModuli, NEW n \in CallModuli, n # 2, n > m,
           NEW u \in Nat, u < m
    PROVE  Arith!DpuModulus(u, m, n) = Arith!VectorMod(u, m, n) <=> u > m \div 2
<1>1. PICK e \in Nat : e = Arith!TwoTo[CallWidth] /\ m \in Nat \ {0} /\ n \in Nat \ {0} /\ 16 * m < e
  BY ModulusNumbers
<1>2. u < Arith!TwoTo[CallWidth] /\ ~(n <= m)
  BY <1>1
<1>3. u # Unset
  BY <1>2, UnsetIsNoWord
<1>4. Arith!DpuModulus(u, m, n) = IF u > m \div 2 THEN Arith!Word(u + (n - m)) ELSE Unset
  BY <1>2, Zenon DEF Arith!DpuModulus
<1>5. Arith!VectorMod(u, m, n) = IF u > m \div 2 THEN Arith!Word(u + (n - m)) ELSE u
  BY <1>2, Zenon DEF Arith!VectorMod, Arith!SwitchModulus
<1> QED
  BY <1>3, <1>4, <1>5, Zenon

LEMMA ToSmallerAgrees ==
    ASSUME Arith!CallsAssumption, NEW m \in CallModuli, NEW n \in CallModuli, n # 2, n <= m,
           NEW u \in Nat, u < m
    PROVE  Arith!DpuModulus(u, m, n) = Arith!VectorMod(u, m, n)
              <=> u >= n /\ (u <= m \div 2 \/ m % n = 0)
<1>1. PICK e \in Nat : /\ e = Arith!TwoTo[CallWidth] /\ m \in Nat \ {0} /\ n \in Nat \ {0}
                       /\ 16 * m < e /\ 16 * n < e
  BY ModulusNumbers
<1>2. ~(n > m) /\ n <= m
  BY <1>1
<1>3. PICK q \in Nat, r \in Nat : q = m \div n /\ r = m % n /\ r < n /\ m = q * n + r
  <2>1. m \in Int /\ m \in Nat /\ n \in Nat \ {0}
    BY <1>1
  <2>2. m \div n \in Nat /\ m % n \in Nat /\ m % n < n /\ m = (m \div n) * n + (m % n)
    BY <2>1, DivisionOf, Zenon
  <2> QED
    BY <2>2, Zenon
<1>4. PICK w \in Nat : w = u + (n - r) /\ w < e
  <2>1. n - r \in Nat /\ n - r <= n
    BY <1>1, <1>3
  <2>2. u + (n - r) \in Nat /\ u + (n - r) < e
    BY <1>1, <2>1
  <2> QED
    BY <2>2
<1>5. Arith!Word(w) = w
  BY <1>1, <1>4, WordOf
<1>6. u # Unset
  <2>1. u < Arith!TwoTo[CallWidth]
    BY <1>1
  <2> QED
    BY <2>1, UnsetIsNoWord
<1>7. Arith!DpuModulus(u, m, n) = IF u >= n THEN u % n ELSE IF u > m \div 2 THEN w ELSE Unset
  BY <1>2, <1>3, <1>4, <1>5, Zenon DEF Arith!DpuModulus
<1>8. Arith!VectorMod(u, m, n) = LET v == IF u > m \div 2 THEN w ELSE u
                                 IN  IF v >= n THEN v % n ELSE v
  BY <1>2, <1>3, <1>4, <1>5, Zenon DEF Arith!VectorMod, Arith!SwitchModulus
<1>9. u <= m \div 2 <=> ~(u > m \div 2)
  BY <1>1
<1>10. CASE ~(u > m \div 2)
  <2>1. Arith!VectorMod(u, m, n) = IF u >= n THEN u % n ELSE u
    BY <1>8, <1>10, Zenon
  <2>2. Arith!DpuModulus(u, m, n) = IF u >= n THEN u % n ELSE Unset
    BY <1>7, <1>10, Zenon
  <2> QED
    BY <1>6, <1>9, <1>10, <2>1, <2>2, Zenon
<1>11. CASE u > m \div 2 /\ u >= n
  <2>1. w % n = u % n <=> r = 0
    <3>1. CASE r = 0
      <4>1. w = u + 1 * n /\ 1 \in Int /\ u \in Int /\ n \in Nat \ {0}
        BY <1>1, <1>4, <3>1
      <4>2. (u + 1 * n) % n = u % n
        BY <4>1, ModPlus, Zenon
      <4> QED
        BY <3>1, <4>1, <4>2, Zenon
    <3>2. CASE r # 0
      <4>1. (u + (n - r)) % n # u % n
        BY <1>1, <1>3, <3>2, ResidueMoves
      <4> QED
        BY <1>4, <3>2, <4>1, Zenon
    <3> QED
      BY <3>1, <3>2
  <2>2. w >= n
    BY <1>1, <1>3, <1>4, <1>11
  <2>3. Arith!VectorMod(u, m, n) = w % n /\ Arith!DpuModulus(u, m, n) = u % n
    BY <1>7, <1>8, <1>11, <2>2, Zenon
  <2> QED
    BY <1>3, <1>9, <1>11, <2>1, <2>3, Zenon
<1>12. CASE u > m \div 2 /\ ~(u >= n)
  <2>1. u < n /\ 2 * u >= m
    BY <1>1, <1>12
  <2>2. q = 1
    <3>1. q # 0
      <4> SUFFICES ASSUME q = 0 PROVE FALSE
        OBVIOUS
      <4>1. q * n = 0
        BY <1>1
      <4> QED
        BY <1>1, <1>2, <1>3, <4>1
    <3>2. ~(q >= 2)
      <4> SUFFICES ASSUME q >= 2 PROVE FALSE
        OBVIOUS
      <4>1. 2 * n <= q * n
        <5>1. n \in Nat /\ n <= n
          BY <1>1
        <5> QED
          BY <5>1, ProductBound
      <4>2. PICK b \in Nat : b = q * n
        <5>1. q * n \in Nat
          BY <1>1
        <5> QED
          BY <5>1
      <4>3. 2 * n <= b /\ m = b + r
        BY <1>3, <4>1, <4>2, Zenon
      <4> QED
        BY <1>1, <2>1, <4>3
    <3> QED
      BY <3>1, <3>2
  <2>3. m = n + r
    <3>1. 1 * n = n
      BY <1>1
    <3> QED
      BY <1>3, <2>2, <3>1, Zenon
  <2>4. w >= n
    BY <1>1, <1>4, <2>1, <2>3
  <2>5. w % n \in Nat /\ w % n < n
    BY <1>1, DivisionOf
  <2>6. w % n # w
    BY <1>1, <2>4, <2>5
  <2>7. Arith!VectorMod(u, m, n) = w % n /\ Arith!DpuModulus(u, m, n) = w
    BY <1>7, <1>8, <1>12, <2>4, Zenon
  <2> QED
    BY <1>12, <2>6, <2>7, Zenon
<1> QED
  BY <1>10, <1>11, <1>12, Zenon

LEMMA ToTwoDiffers ==
    ASSUME Arith!CallsAssumption, NEW m \in CallModuli, NEW u \in Nat, u < m
    PROVE  Arith!DpuModulus(u, m, 2) # Arith!VectorMod(u, m, 2)
<1>1. Arith!DpuModulus(u, m, 2) = Unset
  BY DEF Arith!DpuModulus
<1>2. PICK b \in Nat : b = Arith!ModByTwo(u, m) /\ b < 2
  <2>1. m \in Nat \ {0}
    BY ModulusNumbers
  <2>2. \A z \in Nat : z % 2 \in Nat /\ z % 2 < 2
    OBVIOUS
  <2>3. u + (IF u > m \div 2 THEN 1 ELSE 0) \in Nat
    OBVIOUS
  <2>4. Arith!ModByTwo(u, m) \in Nat /\ Arith!ModByTwo(u, m) < 2
    BY <2>2, <2>3, Zenon DEF Arith!ModByTwo
  <2> QED
    BY <2>4, Zenon
<1>3. b # Unset
  <2>1. PICK e \in Nat : e = Arith!TwoTo[CallWidth] /\ m \in Nat /\ m > 1 /\ 16 * m < e
    BY ModulusNumbers
  <2>2. b < Arith!TwoTo[CallWidth]
    BY <1>2, <2>1
  <2> QED
    BY <2>2, UnsetIsNoWord
<1>4. Arith!VectorMod(u, m, 2) = b
  BY <1>2 DEF Arith!VectorMod
<1> QED
  BY <1>1, <1>3, <1>4, Zenon

LEMMA ModulusAgrees ==
    ASSUME Arith!CallsAssumption, Callable, Arith!Called, element < callModulus, operand \in CallModuli
    PROVE  Arith!DpuModulus(element, callModulus, operand)
               = Arith!VectorMod(element, callModulus, operand)
             <=> Arith!StoredRight
<1>1. PICK m \in CallModuli : m = callModulus /\ m \in Nat
  BY ModulusNumbers DEF Callable
<1>2. PICK n \in CallModuli : n = operand /\ n \in Nat
  BY ModulusNumbers
<1>3. PICK u \in Nat : u = element /\ u < m
  BY <1>1, CalledNumbers
<1>4. Arith!StoredRight <=> /\ n # 2
                            /\ IF n > m THEN u > m \div 2
                               ELSE u >= n /\ (u <= m \div 2 \/ m % n = 0)
  BY <1>1, <1>2, <1>3, Zenon DEF Arith!StoredRight
<1>5. CASE n = 2
  <2>1. Arith!DpuModulus(u, m, 2) # Arith!VectorMod(u, m, 2)
    BY <1>3, ToTwoDiffers
  <2> QED
    BY <1>1, <1>2, <1>3, <1>4, <1>5, <2>1, Zenon
<1>6. CASE n # 2 /\ n > m
  <2>1. Arith!DpuModulus(u, m, n) = Arith!VectorMod(u, m, n) <=> u > m \div 2
    BY <1>3, <1>6, ToLargerAgrees
  <2> QED
    BY <1>1, <1>2, <1>3, <1>4, <1>6, <2>1, Zenon
<1>7. CASE n # 2 /\ ~(n > m)
  <2>1. n <= m
    BY <1>1, <1>2, <1>7
  <2>2. Arith!DpuModulus(u, m, n) = Arith!VectorMod(u, m, n)
           <=> u >= n /\ (u <= m \div 2 \/ m % n = 0)
    BY <1>3, <1>7, <2>1, ToSmallerAgrees
  <2> QED
    BY <1>1, <1>2, <1>3, <1>4, <1>7, <2>2, Zenon
<1> QED
  BY <1>5, <1>6, <1>7
\* A dividend that is larger by the divisor has another quotient.
LEMMA DivisionGrows ==
    ASSUME NEW u \in Nat, NEW v \in Nat, NEW m \in Nat \ {0}, u + m <= v
    PROVE  u \div m # v \div m
<1>1. PICK p \in Nat, r \in Nat : p = u \div m /\ r < m /\ u = p * m + r
  <2>1. u \div m \in Nat /\ u % m \in Nat /\ u % m < m /\ u = (u \div m) * m + (u % m)
    BY DivisionOf
  <2> QED
    BY <2>1
<1>2. PICK q \in Nat, s \in Nat : q = v \div m /\ s < m /\ v = q * m + s
  <2>1. v \div m \in Nat /\ v % m \in Nat /\ v % m < m /\ v = (v \div m) * m + (v % m)
    BY DivisionOf
  <2> QED
    BY <2>1
<1>3. p # q
  <2> SUFFICES ASSUME p = q PROVE FALSE
    OBVIOUS
  <2>1. PICK b \in Nat : b = p * m
    <3>1. p * m \in Nat
      OBVIOUS
    <3> QED
      BY <3>1
  <2>2. u = b + r /\ v = b + s
    BY <1>1, <1>2, <2>1, Zenon
  <2>3. s < m
    BY <1>2, Zenon
  <2> QED
    BY <2>2, <2>3
<1> QED
  BY <1>1, <1>2, <1>3, Zenon

\* What 1 << shift becomes: a power of two of at most shift, or a word near the
\* end of the range.
ShiftedTo(shift, v) ==
    \/ v = Arith!TwoTo[shift] /\ shift < IntBits - 1
    \/ /\ shift >= IntBits - 1
       /\ \E j \in 0 .. shift - 1 : v = Arith!TwoTo[j]
    \/ /\ shift >= IntBits - 1 /\ 4 * v >= 3 * Arith!TwoTo[CallWidth] /\ v < Arith!TwoTo[CallWidth]

LEMMA OneShiftedIs ==
    ASSUME Arith!CallsAssumption, NEW shift \in Nat, shift <= 2 * CallWidth + 3
    PROVE  \E v \in Nat : v = Arith!OneShifted(shift) /\ ShiftedTo(shift, v)
<1>1. PICK w \in Nat, b \in Nat \ {0} : w = CallWidth /\ w > 7 /\ b = IntBits /\ b >= 2 /\ b <= w - 1
  BY CallNumbers
<1>2. PICK j \in Nat : j = shift % b /\ j < b /\ j <= shift /\ (shift < b => j = shift)
  <2>1. shift % b \in Nat /\ shift % b < b
    BY DivisionOf
  <2>2. shift < b => shift % b = shift
    BY ModSmall
  <2>3. PICK j \in Nat : j = shift % b /\ j < b /\ (shift < b => j = shift)
    BY <2>1, <2>2
  <2> QED
    BY <2>3
<1>3. Arith!OneShifted(shift) = IF j = b - 1 THEN Arith!Word(-(Arith!TwoTo[b - 1])) ELSE Arith!TwoTo[j]
  BY <1>1, <1>2, Zenon DEF Arith!OneShifted
<1>4. CASE j # b - 1
  <2>1. j \in 0 .. 2 * w + 3
    BY <1>1, <1>2
  <2>2. PICK v \in Nat : v = Arith!TwoTo[j]
    BY <1>1, <2>1, TwoToFacts
  <2>3. ShiftedTo(shift, v)
    <3>1. CASE shift < b - 1
      BY <1>1, <1>2, <2>2, <3>1 DEF ShiftedTo
    <3>2. CASE ~(shift < b - 1)
      <4>1. shift >= b - 1 /\ j \in 0 .. shift - 1
        BY <1>1, <1>2, <1>4, <3>2
      <4> QED
        BY <1>1, <2>2, <4>1 DEF ShiftedTo
    <3> QED
      BY <3>1, <3>2
  <2> QED
    BY <1>3, <1>4, <2>2, <2>3, Zenon
<1>5. CASE j = b - 1
  <2>1. /\ w - 2 \in 0 .. 2 * w + 3 /\ w - 2 \in 0 .. 2 * w + 2 /\ w - 1 \in 0 .. 2 * w + 2
        /\ b - 1 \in 0 .. 2 * w + 3 /\ b - 1 <= w - 2 /\ (w - 2) + 1 = w - 1 /\ (w - 1) + 1 = w
    BY <1>1
  <2>2. /\ Arith!TwoTo[(w - 2) + 1] = 2 * Arith!TwoTo[w - 2]
        /\ Arith!TwoTo[(w - 1) + 1] = 2 * Arith!TwoTo[w - 1]
        /\ Arith!TwoTo[b - 1] <= Arith!TwoTo[w - 2]
        /\ Arith!TwoTo[b - 1] \in Nat \ {0} /\ Arith!TwoTo[w - 2] \in Nat \ {0}
    BY <1>1, <2>1, TwoToFacts
  <2>3. PICK n \in Nat \ {0}, f \in Nat \ {0}, e \in Nat \ {0} :
           /\ n = Arith!TwoTo[b - 1] /\ f = Arith!TwoTo[w - 2] /\ e = Arith!TwoTo[w]
           /\ e = 4 * f /\ n <= f
    BY <2>1, <2>2
  <2>4. PICK v \in Nat, z \in Int : v = e - n /\ z = -n /\ z = (-1) * e + v /\ v < e /\ -1 \in Int /\ 4 * v >= 3 * e
    <3>1. e = 4 * f /\ n <= f
      BY <2>3, Zenon
    <3>2. e - n \in Nat /\ -n \in Int /\ -n = (-1) * e + (e - n) /\ e - n < e /\ 4 * (e - n) >= 3 * e
      BY <3>1
    <3> QED
      BY <3>2
  <2>5. Arith!Word(z) = v
    <3>1. z % e = v
      BY <2>4, QuotientIs
    <3> QED
      BY <1>1, <2>3, <3>1, Zenon DEF Arith!Word
  <2>6. Arith!OneShifted(shift) = v
    BY <1>3, <1>5, <2>3, <2>4, <2>5, Zenon
  <2>7. shift >= IntBits - 1
    BY <1>1, <1>2, <1>5
  <2>8. ShiftedTo(shift, v)
    BY <1>1, <2>3, <2>4, <2>7 DEF ShiftedTo
  <2> QED
    BY <2>6, <2>8
<1> QED
  BY <1>4, <1>5

\* A modulus that is a power of two is divided by with one shift too many.
LEMMA MuOfPowers ==
    ASSUME Arith!CallsAssumption, NEW m \in CallModuli,
           NEW k \in Nat, NEW p \in Nat \ {0}, NEW c \in Nat \ {0}, NEW d \in Nat \ {0},
           BarrettPowers(m, k, p, c, d), m = Arith!TwoTo[k - 1],
           NEW shift \in Nat, shift <= 2 * k + 3, NEW v \in Nat, ShiftedTo(shift, v)
    PROVE  v \div Arith!TwoTo[k] # d \div m
<1>1. PICK w \in Nat : w = CallWidth /\ w > 7 /\ k >= 2 /\ k <= w - 4
  BY CallNumbers DEF BarrettPowers
<1>2. PICK e \in Nat \ {0} : e = Arith!TwoTo[w] /\ m \in Nat \ {0} /\ 16 * m < e
  BY <1>1, ModulusNumbers
<1>3. /\ k - 1 \in 0 .. 2 * w + 3 /\ k \in 0 .. 2 * w + 3 /\ k + 3 \in 0 .. 2 * w + 3
      /\ k + 4 \in 0 .. 2 * w + 3 /\ 2 * k + 3 \in 0 .. 2 * w + 3 /\ 2 * k + 4 \in 0 .. 2 * w + 3
      /\ w \in 0 .. 2 * w + 3
      /\ (k - 1) + 1 = k /\ k - 1 \in 0 .. 2 * w + 2 /\ 2 * k + 3 \in 0 .. 2 * w + 2
      /\ (2 * k + 3) + 1 = 2 * k + 4
      /\ (k + 4) + (k - 1) = 2 * k + 3 /\ (k + 4) + (k - 1) <= 2 * w + 3
      /\ (k + 4) + k = 2 * k + 4 /\ (k + 4) + k <= 2 * w + 3
  BY <1>1
<1>4. PICK n \in Nat \ {0}, f \in Nat \ {0}, g \in Nat \ {0} :
         n = Arith!TwoTo[k] /\ f = Arith!TwoTo[k + 4] /\ g = Arith!TwoTo[2 * k + 4]
  BY <1>1, <1>3, TwoToFacts
<1>5. n = 2 * m /\ d = f * m /\ g = 2 * d /\ g = f * n /\ d = Arith!TwoTo[2 * k + 3]
  <2>1. /\ Arith!TwoTo[(k - 1) + 1] = 2 * Arith!TwoTo[k - 1]
        /\ Arith!TwoTo[(2 * k + 3) + 1] = 2 * Arith!TwoTo[2 * k + 3]
        /\ Arith!TwoTo[(k + 4) + (k - 1)] = Arith!TwoTo[k + 4] * Arith!TwoTo[k - 1]
        /\ Arith!TwoTo[(k + 4) + k] = Arith!TwoTo[k + 4] * Arith!TwoTo[k]
    BY <1>1, <1>3, TwoToFacts
  <2>2. d = Arith!TwoTo[2 * k + 3]
    BY DEF BarrettPowers
  <2> QED
    BY <1>3, <1>4, <2>1, <2>2, Zenon
<1>6. d \div m = f
  <2>1. d = f * m + 0 /\ d \in Int /\ f \in Int /\ 0 \in Nat /\ 0 < m
    <3>1. f * m \in Nat
      BY <1>2
    <3>2. f * m = f * m + 0
      BY <3>1
    <3>3. d \in Int /\ f \in Int /\ 0 \in Nat /\ 0 < m
      BY <1>2
    <3> QED
      BY <1>5, <3>2, <3>3, Zenon
  <2> QED
    BY <1>2, <2>1, QuotientIs, Zenon
<1>7. g \div n = f
  <2>1. g = f * n + 0 /\ g \in Int /\ f \in Int /\ 0 \in Nat /\ 0 < n
    <3>1. f * n = f * n + 0
      OBVIOUS
    <3>2. g \in Int /\ f \in Int /\ 0 \in Nat /\ 0 < n
      OBVIOUS
    <3> QED
      BY <1>5, <3>1, <3>2, Zenon
  <2> QED
    BY <2>1, QuotientIs, Zenon
<1>8. CASE v <= d
  <2>1. n <= d /\ v + n <= g
    <3>1. n <= d
      <4>1. k <= 2 * k + 3
        OBVIOUS
      <4> QED
        BY <1>1, <1>3, <1>4, <1>5, <4>1, TwoToFacts
    <3>2. g = 2 * d
      BY <1>5, Zenon
    <3> QED
      BY <1>8, <3>1, <3>2
  <2>2. v \div n # g \div n
    BY <2>1, DivisionGrows
  <2> QED
    BY <1>4, <1>6, <1>7, <2>2, Zenon
<1>9. CASE 4 * v >= 3 * e /\ v < e
  <2>1. CASE g >= e
    <3>1. v + n <= g \/ g = e
      <4>1. CASE 2 * k + 4 <= w
        <5>1. g <= e
          BY <1>1, <1>2, <1>3, <1>4, <4>1, TwoToFacts
        <5> QED
          BY <2>1, <5>1
      <4>2. CASE ~(2 * k + 4 <= w)
        <5>1. w < 2 * k + 4
          BY <1>1, <4>2
        <5>2. 2 * e <= g
          BY <1>1, <1>2, <1>3, <1>4, <5>1, TwoToFacts
        <5>3. n = 2 * m
          BY <1>5, Zenon
        <5> QED
          BY <1>2, <1>9, <5>2, <5>3
      <4> QED
        BY <4>1, <4>2
    <3>2. CASE v + n <= g
      <4>1. v \div n # g \div n
        BY <3>2, DivisionGrows
      <4> QED
        BY <1>4, <1>6, <1>7, <4>1, Zenon
    <3>3. CASE g = e
      <4>1. PICK q \in Nat, r \in Nat : q = v \div n /\ r < n /\ v = q * n + r
        <5>1. v \div n \in Nat /\ v % n \in Nat /\ v % n < n /\ v = (v \div n) * n + (v % n)
          BY DivisionOf
        <5> QED
          BY <5>1
      <4>2. q # f
        <5> SUFFICES ASSUME q = f PROVE FALSE
          OBVIOUS
        <5>1. v = g + r
          BY <1>5, <4>1, Zenon
        <5> QED
          BY <1>9, <3>3, <5>1
      <4> QED
        BY <1>4, <1>6, <4>1, <4>2, Zenon
    <3> QED
      BY <3>1, <3>2, <3>3
  <2>2. CASE ~(g >= e)
    <3>1. 2 * k + 4 < w
      <4>1. CASE w <= 2 * k + 4
        <5>1. e <= g
          BY <1>1, <1>2, <1>3, <1>4, <4>1, TwoToFacts
        <5> QED
          BY <2>2, <5>1
      <4>2. CASE ~(w <= 2 * k + 4)
        BY <1>1, <4>2
      <4> QED
        BY <4>1, <4>2
    <3>2. 2 * g <= e
      BY <1>1, <1>2, <1>3, <1>4, <3>1, TwoToFacts
    <3>3. g + n <= v
      <4>1. n = 2 * m
        BY <1>5, Zenon
      <4> QED
        BY <1>2, <1>9, <3>2, <4>1
    <3>4. g \div n # v \div n
      BY <3>3, DivisionGrows
    <3> QED
      BY <1>4, <1>6, <1>7, <3>4, Zenon
  <2> QED
    BY <2>1, <2>2
<1>10. v <= d \/ (4 * v >= 3 * e /\ v < e)
  <2>1. \A j \in 0 .. 2 * k + 3 : Arith!TwoTo[j] <= d
    <3>1. \A j \in 0 .. 2 * k + 3 : j \in 0 .. 2 * w + 3 /\ j <= 2 * k + 3
      BY <1>1
    <3>2. \A j \in 0 .. 2 * w + 3 : j <= 2 * k + 3 => Arith!TwoTo[j] <= Arith!TwoTo[2 * k + 3]
      BY <1>1, <1>3, TwoToFacts
    <3> QED
      BY <1>5, <3>1, <3>2, Zenon
  <2>2. shift \in 0 .. 2 * k + 3 /\ \A j \in 0 .. shift - 1 : j \in 0 .. 2 * k + 3
    OBVIOUS
  <2> QED
    BY <1>1, <1>2, <2>1, <2>2, Zenon DEF ShiftedTo
<1> QED
  BY <1>8, <1>9, <1>10
\* Two bits are missing in the dividend, or it is not an int.
LEMMA MuOfOthers ==
    ASSUME Arith!CallsAssumption, NEW m \in CallModuli,
           NEW k \in Nat, NEW p \in Nat \ {0}, NEW c \in Nat \ {0}, NEW d \in Nat \ {0},
           BarrettPowers(m, k, p, c, d),
           NEW shift \in Nat, shift = 2 * k + 1 \/ (shift = 2 * k + 3 /\ shift >= IntBits - 1),
           NEW v \in Nat, ShiftedTo(shift, v)
    PROVE  v \div m # d \div m
<1>1. PICK w \in Nat : w = CallWidth /\ w > 7 /\ w % 2 = 0 /\ k >= 2 /\ k <= w - 4
  BY CallNumbers DEF BarrettPowers
<1>2. PICK e \in Nat \ {0} : e = Arith!TwoTo[w] /\ m \in Nat \ {0} /\ 16 * m < e
  BY <1>1, ModulusNumbers
<1>3. PICK h \in Nat : h = Arith!TwoTo[2 * k + 2] /\ d = 2 * h /\ m <= h /\ d = Arith!TwoTo[2 * k + 3]
  <2>1. m < Arith!TwoTo[k] /\ Arith!TwoTo[2 * k + 2] \in Nat /\ d = 2 * Arith!TwoTo[2 * k + 2]
        /\ d = Arith!TwoTo[2 * k + 3]
    BY ModulusNumbers DEF BarrettPowers
  <2>2. Arith!TwoTo[k] <= Arith!TwoTo[2 * k + 2] /\ Arith!TwoTo[k] \in Nat
    <3>1. k \in 0 .. 2 * w + 3 /\ 2 * k + 2 \in 0 .. 2 * w + 3 /\ k <= 2 * k + 2
      BY <1>1
    <3> QED
      BY <1>1, <3>1, TwoToFacts
  <2> QED
    BY <1>2, <2>1, <2>2
<1>4. CASE v <= h
  <2>1. v + m <= d
    BY <1>2, <1>3, <1>4
  <2> QED
    BY <1>2, <2>1, DivisionGrows
<1>5. CASE 4 * v >= 3 * e /\ v < e
  <2>1. 2 * k + 3 # w /\ 2 * k + 3 \in 0 .. 2 * w + 3 /\ w \in 0 .. 2 * w + 3
    BY <1>1
  <2>2. CASE 2 * k + 3 < w
    <3>1. 2 * d <= e
      BY <1>1, <1>2, <1>3, <2>1, <2>2, TwoToFacts
    <3>2. d + m <= v
      BY <1>2, <1>5, <3>1
    <3>3. d \div m # v \div m
      BY <1>2, <3>2, DivisionGrows
    <3> QED
      BY <3>3
  <2>3. CASE w < 2 * k + 3
    <3>1. 2 * e <= d
      BY <1>1, <1>2, <1>3, <2>1, <2>3, TwoToFacts
    <3>2. v + m <= d
      BY <1>2, <1>5, <3>1
    <3> QED
      BY <1>2, <3>2, DivisionGrows
  <2> QED
    BY <1>1, <2>1, <2>2, <2>3
<1>6. v <= h \/ (4 * v >= 3 * e /\ v < e)
  <2>1. \A j \in 0 .. 2 * k + 2 : Arith!TwoTo[j] <= h
    <3>1. \A j \in 0 .. 2 * k + 2 : j \in 0 .. 2 * w + 3 /\ j <= 2 * k + 2
      BY <1>1
    <3>2. 2 * k + 2 \in 0 .. 2 * w + 3
      BY <1>1
    <3>3. \A j \in 0 .. 2 * w + 3 : j <= 2 * k + 2 => Arith!TwoTo[j] <= Arith!TwoTo[2 * k + 2]
      BY <1>1, <3>2, TwoToFacts
    <3> QED
      BY <1>3, <3>1, <3>3, Zenon
  <2>2. \A j \in 0 .. shift - 1 : j \in 0 .. 2 * k + 2
    OBVIOUS
  <2>3. shift < IntBits - 1 => shift \in 0 .. 2 * k + 2
    BY CallNumbers
  <2> QED
    BY <1>1, <1>2, <2>1, <2>2, <2>3, Zenon DEF ShiftedTo
<1> QED
  BY <1>4, <1>5, <1>6

LEMMA MuAgreement ==
    ASSUME Arith!CallsAssumption, Callable, Arith!MuFits
    PROVE  Arith!DpuComputeMu(callModulus) = Arith!mu <=> Arith!MuAgrees
<1>1. PICK m \in CallModuli : m = callModulus /\ m \in Nat \ {0}
  BY ModulusNumbers DEF Callable
<1>2. PICK k \in Nat, p \in Nat \ {0}, c \in Nat \ {0}, d \in Nat \ {0} :
         BarrettPowers(m, k, p, c, d)
  BY BarrettNumbers
<1>3. k = Arith!GetMSB(m) /\ d = Arith!TwoTo[2 * k + 3] /\ k <= CallWidth - 4 /\ k >= 2
  BY <1>2 DEF BarrettPowers
<1>4. Arith!ComputeMu(m) = d \div m
  <2>1. d \div m \in Arith!Words
    BY <1>1, <1>3, Zenon DEF Arith!MuFits
  <2>2. PICK e \in Nat : e = Arith!TwoTo[CallWidth]
    BY ModulusNumbers
  <2>3. PICK nu \in Nat : nu = d \div m /\ nu < Arith!TwoTo[CallWidth]
    BY <2>1, <2>2 DEF Arith!Words
  <2>4. Arith!Word(nu) = nu
    BY <2>3, WordOf
  <2> QED
    BY <1>3, <2>3, <2>4, Zenon DEF Arith!ComputeMu
<1>5. PICK shift \in Nat : /\ shift = Arith!MuShift(m)
                           /\ shift = IF k % 2 = 0 THEN 2 * k + 3 ELSE 2 * k + 1
                           /\ shift <= 2 * k + 3 /\ shift <= 2 * CallWidth + 3
  <2>1. Arith!MuShift(m) = 2 * k + (IF k % 2 = 0 THEN 3 ELSE 1)
    BY <1>3, Zenon DEF Arith!MuShift
  <2>2. 2 * k + (IF k % 2 = 0 THEN 3 ELSE 1) = IF k % 2 = 0 THEN 2 * k + 3 ELSE 2 * k + 1
    OBVIOUS
  <2>3. k <= CallWidth - 4 /\ CallWidth \in Nat
    BY <1>3, CallNumbers
  <2> QED
    BY <2>1, <2>2, <2>3
<1>6. PICK v \in Nat : v = Arith!OneShifted(shift) /\ ShiftedTo(shift, v)
  BY <1>5, OneShiftedIs
<1>7. Arith!DpuComputeMu(m) = IF m = Arith!TwoTo[k - 1] THEN v \div Arith!TwoTo[k] ELSE v \div m
  BY <1>3, <1>5, <1>6, Zenon DEF Arith!DpuComputeMu
<1>8. Arith!MuAgrees <=> k % 2 = 0 /\ m # Arith!TwoTo[k - 1] /\ shift < IntBits - 1
  BY <1>1, <1>3, <1>5, Zenon DEF Arith!MuAgrees
<1>9. CASE m = Arith!TwoTo[k - 1]
  <2>1. v \div Arith!TwoTo[k] # d \div m
    BY <1>2, <1>5, <1>6, <1>9, MuOfPowers
  <2> QED
    BY <1>1, <1>4, <1>7, <1>8, <1>9, <2>1, Zenon DEF Arith!mu
<1>10. CASE m # Arith!TwoTo[k - 1] /\ k % 2 = 0 /\ shift < IntBits - 1
  <2>1. v = Arith!TwoTo[shift]
    <3>1. ~(shift >= IntBits - 1)
      BY <1>10, CallNumbers
    <3> QED
      BY <1>6, <3>1, Zenon DEF ShiftedTo
  <2>2. shift = 2 * k + 3
    BY <1>5, <1>10, Zenon
  <2> QED
    BY <1>1, <1>3, <1>4, <1>7, <1>8, <1>10, <2>1, <2>2, Zenon DEF Arith!mu
<1>11. CASE m # Arith!TwoTo[k - 1] /\ ~(k % 2 = 0 /\ shift < IntBits - 1)
  <2>1. shift = 2 * k + 1 \/ (shift = 2 * k + 3 /\ shift >= IntBits - 1)
    <3>1. ~(shift < IntBits - 1) => shift >= IntBits - 1
      BY CallNumbers
    <3> QED
      BY <1>5, <1>11, <3>1, Zenon
  <2>2. v \div m # d \div m
    BY <1>2, <1>6, <2>1, MuOfOthers
  <2> QED
    BY <1>1, <1>4, <1>7, <1>8, <1>11, <2>2, Zenon DEF Arith!mu
<1> QED
  BY <1>9, <1>10, <1>11

LEMMA AgreementHolds ==
    ASSUME Arith!CallsAssumption, Callable
    PROVE  Arith!DpuAgreesWhere
<1>1. Arith!MuFits => (Arith!DpuComputeMu(callModulus) = Arith!mu <=> Arith!MuAgrees)
  BY MuAgreement
<1>2. Arith!Called /\ operand > 0 /\ element * operand + operand \div 2 < Arith!TwoTo[CallWidth] =>
          (Arith!DpuMultiplyAndRound(element, callModulus, operand)
               = Arith!MultiplyAndRound(element, callModulus, operand)
             <=> Arith!MultiplyAndRound(element, callModulus, operand) = element)
  <2> SUFFICES ASSUME Arith!Called, operand > 0,
                      element * operand + operand \div 2 < Arith!TwoTo[CallWidth]
               PROVE  Arith!DpuMultiplyAndRound(element, callModulus, operand)
                          = Arith!MultiplyAndRound(element, callModulus, operand)
                        <=> Arith!MultiplyAndRound(element, callModulus, operand) = element
    BY Zenon
  <2>1. Arith!DpuMultiplyAndRound(element, callModulus, operand) = element
    BY RoundingAgrees, Zenon
  <2> QED
    BY <2>1, Zenon
<1>3. Arith!Called /\ element < callModulus /\ operand \in CallModuli =>
          (Arith!DpuModulus(element, callModulus, operand)
               = Arith!VectorMod(element, callModulus, operand)
             <=> Arith!StoredRight)
  BY ModulusAgrees, Zenon
<1> QED
  BY <1>1, <1>2, <1>3, SubtractionsAgree, Zenon DEF Arith!DpuAgreesWhere
-----------------------------------------------------------------------------
(***************************************************************************)
(* The theorems about the calls. What can be called is all the invariant   *)
(* that they need, for each result is computed in one step.                *)
(***************************************************************************)
CallInvariant == which = "call" => Callable

LEMMA CallInvariantHolds == AlgorithmsSpec => []CallInvariant
<1>1. AlgorithmsInit => CallInvariant
  BY DEF AlgorithmsInit, CallInvariant, Callable, Arith!Init
<1>2. CallInvariant /\ [AlgorithmsNext]_allVars => CallInvariant'
  <2> SUFFICES ASSUME CallInvariant, [AlgorithmsNext]_allVars, which' = "call"
               PROVE  Callable'
    BY DEF CallInvariant
  <2>1. CASE LoopStep
    BY <2>1 DEF LoopStep, Only
  <2>2. CASE Only("call") /\ Arith!Call
    BY <2>2 DEF CallInvariant, Callable, Only, Arith!Call
  <2>3. CASE Only("ring")
    BY <2>3 DEF Only
  <2>4. CASE UNCHANGED allVars
    BY <2>4 DEF CallInvariant, Callable, allVars, callVars
  <2> QED
    BY <2>1, <2>2, <2>3, <2>4 DEF AlgorithmsNext
<1> QED
  BY <1>1, <1>2, PTL DEF AlgorithmsSpec

\* The host's modular arithmetic is exact, for every word width, modulus and
\* operand (ubintnat.h, mubintvecnat.cpp).
THEOREM HostArithmeticIsExact == AlgorithmsSpec => []ModularExact
<1>1. CallInvariant => ModularExact
  <2> SUFFICES ASSUME Callable
               PROVE  /\ Arith!AdditiveExact /\ Arith!BarrettExact
                      /\ Arith!ShoupExact /\ Arith!ExpExact
                      /\ Arith!SwitchKeepsCentred
    BY DEF CallInvariant, ModularExact
  <2>1. Arith!CallsAssumption
    BY AlgorithmsAssumption
  <2>2. Arith!AdditiveExact
    BY <2>1, AdditiveHolds
  <2>3. Arith!BarrettExact
    BY <2>1, BarrettHolds
  <2>4. Arith!ShoupExact
    BY <2>1, ShoupHolds
  <2>5. Arith!ExpExact
    BY <2>1, ExpHolds
  <2>6. Arith!SwitchKeepsCentred
    BY <2>1, SwitchHolds
  <2> QED
    BY <2>2, <2>3, <2>4, <2>5, <2>6
<1> QED
  BY <1>1, CallInvariantHolds, PTL

\* The DPUs' products are the host's, and their other operations agree with the
\* host's exactly where the model says (operations.h).
THEOREM DpuAgreement == AlgorithmsSpec => []DpuAgreesWhere
<1>1. CallInvariant => DpuAgreesWhere
  <2> SUFFICES ASSUME Callable PROVE Arith!DpuBarrettExact /\ Arith!DpuAgreesWhere
    BY DEF CallInvariant, DpuAgreesWhere
  <2>1. Arith!CallsAssumption
    BY AlgorithmsAssumption
  <2> QED
    BY <2>1, DpuBarrettHolds, AgreementHolds
<1> QED
  BY <1>1, CallInvariantHolds, PTL
-----------------------------------------------------------------------------
(***************************************************************************)
(* The loop of DpuMemory::find_free_blocks computes first fit, for every   *)
(* bank, bitmap and request.  CounterOK is the loop invariant; it needs    *)
(* the types, and the result is read off it when the loop returns.         *)
(***************************************************************************)
ScanInvariant == Scan!TypeOK /\ Scan!CounterOK /\ Scan!ReturnsFirstFit

LEMMA ScanNumbers ==
    ASSUME Scan!TypeOK
    PROVE  /\ TotalBlocks \in Nat \ {0}
           /\ i \in Nat /\ consecutive_free \in Nat /\ blocks_needed \in Nat
           /\ \A s \in Scan!FreeRuns(free, blocks_needed) :
                 /\ s \in Nat
                 /\ s + blocks_needed <= TotalBlocks
                 /\ blocks_needed > 0
                 /\ \A b \in s .. s + blocks_needed - 1 : free[b]
BY AlgorithmsAssumption DEF Scan!TypeOK, Scan!FreeRuns, Scan!Blocks, Scan!Run

LEMMA CountFreePreserves ==
    ASSUME ScanInvariant, Scan!CountFree
    PROVE  ScanInvariant'
<1>1. Scan!TypeOK /\ Scan!CounterOK /\ ~returned /\ i < TotalBlocks
  BY DEF ScanInvariant, Scan!CountFree, Scan!InLoop
<1>2. /\ i' = i + 1 /\ consecutive_free' = consecutive_free + 1
      /\ free' = free /\ blocks_needed' = blocks_needed /\ returned' = returned /\ first' = first
      /\ free[i] /\ consecutive_free + 1 # blocks_needed
  BY DEF Scan!CountFree
<1>3. Scan!TypeOK'
  BY <1>1, <1>2, ScanNumbers DEF Scan!TypeOK, Scan!CounterOK
<1>4. ASSUME NEW s \in Scan!FreeRuns(free, blocks_needed) PROVE s + blocks_needed > i + 1
  <2>1. SUFFICES ASSUME s + blocks_needed = i + 1 PROVE FALSE
    BY <1>1, ScanNumbers DEF Scan!CounterOK
  <2>2. consecutive_free + 1 < blocks_needed
    BY <1>1, <1>2, ScanNumbers DEF Scan!CounterOK
  <2>3. /\ consecutive_free < i
        /\ i - consecutive_free - 1 \in s .. s + blocks_needed - 1
    BY <1>1, <2>1, <2>2, ScanNumbers
  <2> QED  BY <1>1, <2>3, ScanNumbers DEF Scan!CounterOK
<1>5. Scan!CounterOK'
  <2>1. consecutive_free + 1 <= i + 1 /\ (blocks_needed > 0 => consecutive_free + 1 < blocks_needed)
    BY <1>1, <1>2, ScanNumbers DEF Scan!CounterOK
  <2>2. \A b \in (i + 1) - (consecutive_free + 1) .. (i + 1) - 1 : free[b]
    BY <1>1, <1>2, ScanNumbers DEF Scan!CounterOK
  <2>3. consecutive_free + 1 < i + 1 => ~free[(i + 1) - (consecutive_free + 1) - 1]
    BY <1>1, ScanNumbers DEF Scan!CounterOK
  <2> QED  BY <1>2, <1>4, <2>1, <2>2, <2>3 DEF Scan!CounterOK
<1>6. Scan!ReturnsFirstFit'
  BY <1>1, <1>2 DEF Scan!ReturnsFirstFit
<1> QED  BY <1>3, <1>5, <1>6 DEF ScanInvariant

LEMMA SkipBusyPreserves ==
    ASSUME ScanInvariant, Scan!SkipBusy
    PROVE  ScanInvariant'
<1>1. Scan!TypeOK /\ Scan!CounterOK /\ ~returned /\ i < TotalBlocks
  BY DEF ScanInvariant, Scan!SkipBusy, Scan!InLoop
<1>2. /\ i' = i + 1 /\ consecutive_free' = 0
      /\ free' = free /\ blocks_needed' = blocks_needed /\ returned' = returned /\ first' = first /\ ~free[i]
  BY DEF Scan!SkipBusy
<1>3. Scan!TypeOK'
  BY <1>1, <1>2, ScanNumbers DEF Scan!TypeOK
<1>4. ASSUME NEW s \in Scan!FreeRuns(free, blocks_needed) PROVE s + blocks_needed > i + 1
  <2>1. SUFFICES ASSUME s + blocks_needed = i + 1 PROVE FALSE
    BY <1>1, ScanNumbers DEF Scan!CounterOK
  <2>2. i \in s .. s + blocks_needed - 1
    BY <2>1, ScanNumbers, <1>1
  <2> QED  BY <1>1, <1>2, <2>2, ScanNumbers
<1>5. Scan!CounterOK'
  <2>1. \A b \in (i + 1) - 0 .. (i + 1) - 1 : free[b]
    BY <1>1, ScanNumbers
  <2>2. ~free[(i + 1) - 0 - 1]
    <3>1. (i + 1) - 0 - 1 = i
      BY <1>1, ScanNumbers
    <3> QED  BY <1>2, <3>1
  <2>3. 0 <= i + 1
    BY <1>1, ScanNumbers
  <2> QED  BY <1>2, <1>4, <2>1, <2>2, <2>3 DEF Scan!CounterOK
<1>6. Scan!ReturnsFirstFit'
  BY <1>1, <1>2 DEF Scan!ReturnsFirstFit
<1> QED  BY <1>3, <1>5, <1>6 DEF ScanInvariant

LEMMA FoundPreserves ==
    ASSUME ScanInvariant, Scan!Found
    PROVE  ScanInvariant'
<1>1. Scan!TypeOK /\ Scan!CounterOK /\ ~returned /\ i < TotalBlocks
  BY DEF ScanInvariant, Scan!Found, Scan!InLoop
<1>2. /\ i' = i /\ consecutive_free' = consecutive_free + 1
      /\ free' = free /\ blocks_needed' = blocks_needed
      /\ free[i] /\ consecutive_free + 1 = blocks_needed
      /\ returned' = TRUE /\ first' = i - blocks_needed + 1
  BY DEF Scan!Found
<1> DEFINE s == i - blocks_needed + 1
<1>3. s \in Nat /\ s \in Scan!Blocks /\ s + blocks_needed = i + 1 /\ s = i - consecutive_free
  BY <1>1, <1>2, ScanNumbers DEF Scan!CounterOK, Scan!Blocks
<1>4. \A b \in s .. s + blocks_needed - 1 : free[b]
  BY <1>1, <1>2, <1>3, ScanNumbers DEF Scan!CounterOK
<1>5. s \in Scan!FreeRuns(free, blocks_needed)
  BY <1>1, <1>2, <1>3, <1>4, ScanNumbers DEF Scan!FreeRuns, Scan!Run
<1>6. \A t \in Scan!FreeRuns(free, blocks_needed) : s <= t
  BY <1>1, <1>3, ScanNumbers DEF Scan!CounterOK
<1>7. Scan!find_free_blocks(free, blocks_needed) = s
  <2>1. \A t \in Scan!FreeRuns(free, blocks_needed) : t \in Int
    BY <1>1, ScanNumbers
  <2>2. PICK r : r = Scan!find_free_blocks(free, blocks_needed)
    OBVIOUS
  <2> HIDE DEF s
  <2>3. /\ r \in Scan!FreeRuns(free, blocks_needed)
        /\ \A t \in Scan!FreeRuns(free, blocks_needed) : r <= t
    BY <1>5, <1>6, <2>2 DEF Scan!find_free_blocks
  <2> QED  BY <1>5, <1>6, <2>1, <2>2, <2>3
<1>9. Scan!TypeOK'
  <2> HIDE DEF s
  <2>1. first' = s
    BY <1>2 DEF s
  <2> QED  BY <1>1, <1>2, <1>3, <2>1, ScanNumbers DEF Scan!TypeOK
<1> QED  BY <1>2, <1>7, <1>9 DEF ScanInvariant, Scan!CounterOK, Scan!ReturnsFirstFit

LEMMA GiveUpPreserves ==
    ASSUME ScanInvariant, Scan!GiveUp
    PROVE  ScanInvariant'
<1>1. Scan!TypeOK /\ Scan!CounterOK /\ ~returned /\ i = TotalBlocks
  BY DEF ScanInvariant, Scan!GiveUp
<1>2. /\ i' = i /\ consecutive_free' = consecutive_free
      /\ free' = free /\ blocks_needed' = blocks_needed /\ returned' = TRUE /\ first' = Scan!NO_ADDR
  BY DEF Scan!GiveUp
<1>3. Scan!FreeRuns(free, blocks_needed) = {}
  BY <1>1, ScanNumbers DEF Scan!CounterOK
<1>4. Scan!find_free_blocks(free, blocks_needed) = Scan!NO_ADDR
  BY <1>3 DEF Scan!find_free_blocks
<1>5. Scan!TypeOK'
  BY <1>1, <1>2 DEF Scan!TypeOK
<1> QED  BY <1>2, <1>4, <1>5 DEF ScanInvariant, Scan!CounterOK, Scan!ReturnsFirstFit

LEMMA ScanBegins ==
    ASSUME Scan!Init
    PROVE  ScanInvariant
<1>1. Scan!TypeOK
  <2>1. returned \in BOOLEAN
    BY Zenon DEF Scan!Init
  <2>2. 0 \in 0 .. TotalBlocks
    BY AlgorithmsAssumption
  <2> QED  BY <2>1, <2>2, Zenon DEF Scan!Init, Scan!TypeOK
<1>2. Scan!CounterOK
  BY <1>1, ScanNumbers DEF Scan!Init, Scan!CounterOK
<1> QED  BY <1>1, <1>2 DEF Scan!Init, ScanInvariant, Scan!ReturnsFirstFit

LEMMA ScanGoesOn ==
    ASSUME ScanInvariant, [Scan!Next]_Scan!vars
    PROVE  ScanInvariant'
<1>1. CASE UNCHANGED Scan!vars
  BY <1>1 DEF Scan!vars, ScanInvariant, Scan!TypeOK, Scan!CounterOK, Scan!ReturnsFirstFit
<1> QED  BY <1>1, CountFreePreserves, SkipBusyPreserves, FoundPreserves, GiveUpPreserves DEF Scan!Next

\* The loop of find_free_blocks by itself returns the lowest start of a long
\* enough free run, or -1 when no run is long enough (DpuMemory.h).
THEOREM LoopIsFirstFit == Scan!Spec => []Scan!ReturnsFirstFit
<1>1. Scan!Init => ScanInvariant
  BY ScanBegins
<1>2. ScanInvariant /\ [Scan!Next]_Scan!vars => ScanInvariant'
  BY ScanGoesOn
<1>3. ScanInvariant => Scan!ReturnsFirstFit
  BY DEF ScanInvariant
<1> QED  BY <1>1, <1>2, <1>3, PTL DEF Scan!Spec

\* So it does among the other algorithms.
THEOREM ScanIsFirstFit == AlgorithmsSpec => []ReturnsFirstFit
<1> DEFINE Holds == which = "scan" => ScanInvariant
<1>1. AlgorithmsInit => Holds
  BY ScanBegins DEF AlgorithmsInit
<1>2. Holds /\ [AlgorithmsNext]_allVars => Holds'
  <2> SUFFICES ASSUME Holds, [AlgorithmsNext]_allVars, which' = "scan"
               PROVE  ScanInvariant'
    OBVIOUS
  <2>1. which = "scan" /\ [Scan!Next]_Scan!vars
    <3>1. CASE LoopStep
      BY <3>1 DEF LoopStep, Only
    <3>2. CASE Only("call") \/ Only("ring")
      BY <3>2 DEF Only
    <3>3. CASE UNCHANGED allVars
      BY <3>3 DEF allVars, scanVars, Scan!vars
    <3> QED  BY <3>1, <3>2, <3>3 DEF AlgorithmsNext
  <2> QED  BY <2>1, ScanGoesOn
<1>3. Holds => ReturnsFirstFit
  BY DEF ScanInvariant, ReturnsFirstFit
<1> QED  BY <1>1, <1>2, <1>3, PTL DEF AlgorithmsSpec
=============================================================================
