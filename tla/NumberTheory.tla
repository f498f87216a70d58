---------------------------- MODULE NumberTheory ----------------------------
(***************************************************************************)
(* The number theory under the transforms and the schemes (nbtheory.h,     *)
(* nbtheory-impl.h, nbtheory2.cpp): bits, primes, roots of unity,          *)
(* automorphism indices and polynomials, for NativeInteger and its vectors. *)
(* What a random draw decides is a parameter or a set of outcomes.         *)
(***************************************************************************)
EXTENDS NativeInt, FiniteSetsExt, SequencesExt

CONSTANT USINT      \* bits of usint and of int32_t (32)

Usint(x) == x % 2^USINT

Magnitude(i) == IF i < 0 THEN -i ELSE i

Sum(Term(_), S) == MapThenSumSet(Term, S)

\* The entries 0 .. n - 1.  Combined with the empty function, it stays what it
\* is, and TLC computes its entries once.
Vector(n, Entry(_)) == [i \in 0 .. n - 1 |-> Entry(i)] @@ <<>>

Ascending(S) ==
    [k \in 1 .. Cardinality(S) |->
        CHOOSE x \in S : Cardinality({y \in S : y < x}) = k - 1]
-----------------------------------------------------------------------------
(* Bits.                                                                     *)

reverse_byte(x) == Sum(LAMBDA k : IF Bit(x, k) THEN 2^(7 - k) ELSE 0, 0..7)

\* Byte by byte, at most four; then the bits from msb up are shifted out.
ReverseBits(num, msb) ==
    LET bytes == (msb + 7) \div 8
        Placed(k) == reverse_byte((num \div 2^(8 * k)) % 2^8) * 2^(8 * (bytes - 1 - k))
    IN  IF bytes \in 1..4
        THEN Sum(Placed, 0 .. bytes - 1) \div 2^(8 * bytes - msb)
        ELSE 2^USINT - 1

-----------------------------------------------------------------------------
(* Primes.                                                                   *)

GreatestCommonDivisor(x, y) ==
    LET gcd[a \in Nat, b \in Nat] == IF b = 0 THEN a ELSE gcd[b, a % b]
    IN  gcd[x, y]

GetTotientList(n) ==
    Ascending({i \in 1 .. n - 1 : GreatestCommonDivisor(i, n) = 1})

\* p - 1 = 2^s * d with d odd; does a prove p composite?
WitnessFunction(a, d, s, p) ==
    LET square[i \in 0 .. s] == IF i = 0 THEN ModExp(a, d, p)
                                ELSE LET mod == square[i - 1] IN (mod * mod) % p
    IN  \/ \E i \in 1 .. s : square[i] = 1 /\ square[i - 1] \notin {1, p - 1}
        \/ square[s] # 1

\* What RNG(p - 3) + 2 may be.
Draws(p) == 2 .. p - 2

MillerRabinWith(p, draws) ==
    \/ p \in {2, 3, 5}
    \/ /\ p > 2 /\ p % 2 = 1
       /\ LET s == CHOOSE s \in 1 .. W : (p - 1) % 2^s = 0 /\ (p - 1) % 2^(s + 1) # 0
          IN  \A a \in draws : ~WitnessFunction(a, (p - 1) \div 2^s, s, p)

\* A hundred draws meet a witness if there is one (a composite passes with a
\* probability of at most 4^-100, by PrimesAndRoots of RingCalls).
MillerRabinPrimalityTest(p) == MillerRabinWith(p, Draws(p))

\* The factor found from the draws c and x; it may be n itself.
PollardRhoFactorization(n, c, x) ==
    LET Step(y) == (y * y + c) % n
        rho[slow \in Nat, fast \in Nat] ==
            LET divisor == GreatestCommonDivisor(Magnitude(slow - fast), n)
            IN  IF divisor = 1 THEN rho[Step(slow), Step(Step(fast))] ELSE divisor
    IN  IF n % 2 = 0 THEN 2 ELSE rho[Step(x), Step(Step(x))]

\* A number that is returned whole is tried again with other draws.
ProperDivisor(n) ==
    LET Splits(c, x) == PollardRhoFactorization(n, c, x) # n
        c == CHOOSE c \in 0 .. n - 1 : \E x \in 0 .. n - 1 : Splits(c, x)
    IN  PollardRhoFactorization(n, c, CHOOSE x \in 0 .. n - 1 : Splits(c, x))

PrimeFactorize(n) ==
    LET factors[k \in Nat] ==
            CASE k <= 1 -> {}
              [] k > 1 /\ MillerRabinPrimalityTest(k) -> {k}
              [] OTHER -> UNION {factors[d] \union factors[k \div d] : d \in {ProperDivisor(k)}}
    IN  factors[n]

TotientOf(n, factors) ==
    (n \div ProductSet(factors)) * ProductSet({p - 1 : p \in factors})

GetTotient(n) == TotientOf(n, PrimeFactorize(n))
-----------------------------------------------------------------------------
(* Searches for primes.  NoPrime stands for the exception.                   *)

MAX_MODULUS_SIZE == W - 4
NoPrime == 0

\* The first prime from `start' on in steps of `step', up or down, unless a
\* candidate comes out on the other side of `limit', past the end of the words.
Search(start, step, limit) ==
    LET Wrapped(c) == IF step > 0 THEN c < limit ELSE c > limit
        from[c \in Words] ==
            LET next == Word(c + step)
            IN  IF MillerRabinPrimalityTest(c) THEN c
                ELSE IF Wrapped(next) THEN NoPrime ELSE from[next]
    IN  from[start]

\* A candidate that wraps is less than the one before it, as steps are short.
FirstPrime(nBits, m) ==
    LET least == 2^nBits
        start == Word(least + 1 + (IF least % m > 0 THEN m - (least % m) ELSE 0))
    IN  IF nBits > MAX_MODULUS_SIZE \/ start < least THEN NoPrime
        ELSE Search(start, m, least)

NextPrime(q, m) == Search(Word(q + m), m, q)

\* Mutant: the candidate is tested before the step.
PreviousPrime_itself(q, m) == Search(q, -m, q)

\* Subtraction wraps around as well; whether the first step did is not tested.
PreviousPrime(q, m) == Search(Word(q - m), -m, q)
-----------------------------------------------------------------------------
(* Roots of unity.                                                           *)

\* The loop that ends the search for a generator.
FullOrder(g, phi, primeFactors, q) ==
    \A p \in primeFactors : ModExp(g, phi \div p, q) # 1

\* What FindGenerator may return for the prime q.
Generators(q) ==
    LET primeFactors == PrimeFactorize(q - 1)
    IN  {g \in 1 .. q - 2 : FullOrder(g, q - 1, primeFactors, q)}

\* What FindGeneratorCyclic may return.
GeneratorsCyclic(q) ==
    LET phi_q == GetTotient(q)
        primeFactors == PrimeFactorize(phi_q)
    IN  {g \in 1 .. phi_q :
            GreatestCommonDivisor(g, q) = 1 /\ FullOrder(g, phi_q, primeFactors, q)}

IsGenerator(g, q) ==
    \A phi \in {GetTotient(q)} : FullOrder(g, phi, PrimeFactorize(phi), q)

\* From the generator gen; the least of the powers that are coprime to m.
RootOfUnityFrom(gen, m, modulo) ==
    LET result == ModExp(gen, (modulo - 1) \div m, modulo)
        powers == {ModExp(result, c, modulo) : c \in ToSet(GetTotientList(m))}
    IN  Min({result} \union (powers \ {1}))

\* Every generator leads to the same root (PrimesAndRoots of RingCalls).
RootOfUnity(m, modulo) ==
    LET primeFactors == PrimeFactorize(modulo - 1)
        gen == CHOOSE g \in 1 .. modulo - 2 : FullOrder(g, modulo - 1, primeFactors, modulo)
    IN  RootOfUnityFrom(gen, m, modulo)
-----------------------------------------------------------------------------
(* Automorphisms of power-of-two rings.                                      *)

\* What the loop of module ModInverse returns.
InverseMod(a, m) == CHOOSE x \in 0 .. m - 1 : (a * x) % m = 1 % m

\* g multiplied `times' times by g0, in words of USINT bits.
Multiplied(g, g0, times, m) ==
    LET product[k \in 0 .. times] ==
            IF k = 0 THEN g ELSE Usint(product[k - 1] * g0) % m
    IN  product[times]

FindAutomorphismIndex2n(i, m) ==
    LET half == GetTotient(m) \div 2
        f1   == IF i < 0 THEN InverseMod(5, m) ELSE 5
        f2   == IF i < 0 THEN InverseMod(m - 1, m) ELSE m - 1
    IN  CASE i = 0 -> 1
          [] i # 0 /\ Magnitude(i) < half -> Multiplied(f1, f1, Magnitude(i) - 1, m)
          [] OTHER -> Multiplied(f2, f1, Magnitude(i) - half, m)

\* The product is an int32_t: when it overflows, for m > 2^15 and i < 0, the
\* builds wrap it around, and `% m' makes it unsigned.
FindAutomorphismIndex2nComplex(i, m) ==
    LET g0 == IF i < 0 THEN InverseMod(5, m) ELSE 5
    IN  CASE i = 0 -> 1
          [] i = m - 1 -> i
          [] OTHER -> Multiplied(g0, g0, Magnitude(i) - 1, m)

\* Which place of a polynomial in evaluation format goes to place r.
PrecomputeAutoMap(n, k) ==
    LET m    == 2 * n
        logn == GetMSB(n) - 1
        Index(j) == (Usint((2 * j + 1) * k) % m) \div 2
        From(j) == ReverseBits(Index(j), logn)
    IN  Vector(n, LAMBDA r : From(CHOOSE j \in 0 .. n - 1 : ReverseBits(j, logn) = r))
-----------------------------------------------------------------------------
(* Polynomials: vectors, lowest coefficient first.                           *)

Length(a) == Cardinality(DOMAIN a)

\* Over the integers there is no modulus, and products are not cut to a word.
NoModulus == 0

Convolution(a, b, modulus, k) ==
    LET Times(x, y) == IF modulus = NoModulus THEN x * y ELSE Word(x * y)
        sum == Sum(LAMBDA i : Times(a[i], b[k - i]),
                   {i \in DOMAIN a : k - i \in DOMAIN b})
    IN  IF modulus = NoModulus THEN sum ELSE sum % modulus

PolynomialMultiplication(a, b, modulus) ==
    Vector(Length(a) + Length(b) - 1,
         LAMBDA k : Convolution(a, b, modulus, k))

\* `runs' rounds of long division by a monic polynomial: each takes the
\* highest coefficient and shifts the rest up by one place.  after[i] is the
\* running dividend after i rounds.
LongDivision(dividend, divisor, runs, modulus) ==
    LET top == Length(dividend) - 1
        deg == Length(divisor) - 1
        Sub(x, y) == IF modulus = NoModulus THEN x - y ELSE ModSub(x, Word(y), modulus)
        after[i \in 0 .. runs] ==
            IF i = 0 THEN dividend
            ELSE LET r == after[i - 1]
                     Entry(x) ==
                        CASE x < i -> r[x]
                          [] x >= i /\ deg > top - x ->
                                Sub(r[x - 1], divisor[deg - 1 - (top - x)] * r[top])
                          [] OTHER -> r[x - 1]
                 IN  Vector(top + 1, Entry)
    IN  after

PolyMod(dividend, divisor, modulus) ==
    LET runs == Length(dividend) - Length(divisor) + 1
        r == LongDivision(dividend, divisor, runs, modulus)[runs]
    IN  Vector(Length(divisor) - 1, LAMBDA i : r[runs + i])

\* The quotient comes out highest coefficient first, its first one taken to
\* be 1; cyclotomic polynomials (but the first) read the same both ways.
PolyQuotient(dividend, divisor) ==
    LET runs  == Length(dividend) - Length(divisor) + 1
        after == LongDivision(dividend, divisor, runs, NoModulus)
    IN  Vector(runs, LAMBDA i : IF i = 0 THEN 1 ELSE after[i][Length(dividend) - 1])

PolyMult(a, b) ==
    Vector(Length(a) + Length(b) - 1, LAMBDA k : Convolution(a, b, NoModulus, k))

IsPrime(val) == val % 2 = 1 /\ \A i \in 3 .. val - 1 : i % 2 = 1 => val % i # 0

GetCyclotomicPolynomialRecursive(m) ==
    LET cyclotomic[k \in 1 .. m] ==
            IF k = 1 THEN (0 :> -1 @@ 1 :> 1)
            ELSE IF k = 2 THEN (0 :> 1 @@ 1 :> 1)
            ELSE IF IsPrime(k) THEN Vector(k, LAMBDA i : 1)
            ELSE LET divisors == Ascending({d \in 1 .. k - 1 : k % d = 0})
                     product == FoldLeft(LAMBDA p, d : PolyMult(p, cyclotomic[d]),
                                         (0 :> 1), divisors)
                 IN  PolyQuotient(Vector(k + 1, LAMBDA i : CASE i = 0 -> -1
                                                           [] i = k -> 1
                                                           [] OTHER -> 0), product)
    IN  cyclotomic[m]

FromIntegers(p, modulus) ==
    Vector(Length(p), LAMBDA i : IF p[i] > -1 THEN p[i] ELSE modulus + p[i])

GetCyclotomicPolynomial(m, modulus) ==
    FromIntegers(GetCyclotomicPolynomialRecursive(m), modulus)

\* Horner's rule from the top; after[i] is `val' once coefficient i is in.
Horner(dividend, a, modulus) ==
    LET after[i \in DOMAIN dividend] ==
            IF i = Length(dividend) - 1 THEN dividend[i]
            ELSE ModMu(Word(dividend[i] + a * after[i + 1]), modulus, ComputeMu(modulus))
    IN  after

SyntheticRemainder(dividend, a, modulus) == Horner(dividend, a, modulus)[0]

SyntheticPolyRemainder(dividend, aList, modulus) ==
    Vector(Length(aList), LAMBDA i : SyntheticRemainder(dividend, aList[i], modulus))

SyntheticPolynomialDivision(dividend, a, modulus) ==
    Vector(Length(dividend) - 1, LAMBDA i : Horner(dividend, a, modulus)[i + 1])

PolynomialPower(input, power) ==
    Vector((Length(input) - 1) * power + 1,
         LAMBDA i : IF i % power = 0 THEN input[i \div power] ELSE 0)
=============================================================================
