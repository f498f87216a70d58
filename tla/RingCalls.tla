------------------------------ MODULE RingCalls ------------------------------
(***************************************************************************)
(* The number theory and the transforms, called for a ring or a number and *)
(* compared with their definitions in mathematics and with each other.     *)
(***************************************************************************)
EXTENDS ArbTransforms

CONSTANTS
    Rings,          \* [n, q]: powers of two n and primes q = 1 (mod 2n)
    ArbRings,       \* [m, q, nttModulus]: q = 1 (mod 2m)
    Numbers,        \* arguments of the functions on primes
    Unset

\* The bounds keep Bluestein's sums below nttModulus, and the squares of his
\* indices in a usint: they wrap around when m > 2^(USINT \div 2).
RingAssumption ==
    /\ WordAssumption
    /\ \A r \in Rings : r.n > 1 /\ r.n = 2^(GetMSB(r.n) - 1) /\ r.q % (2 * r.n) = 1
    /\ \A r \in ArbRings :
          /\ r.q % (2 * r.m) = 1 /\ (r.m - 1) * (r.m - 1) < 2^USINT
          /\ r.nttModulus > r.m * r.q * r.q /\ r.nttModulus % NttDim(r.m) = 1

VARIABLES
    subject,        \* what the call is about, chosen in the beginning
    call            \* its other arguments, Unset before it

vars == <<subject, call>>

\* A ring's parameters hold the root that RootOfUnity found for them.
RingParams ==
    {[kind |-> "ring", n |-> r.n, q |-> r.q, root |-> RootOfUnity(2 * r.n, r.q)] : r \in Rings}

ArbParams ==
    {[kind |-> "arb", m |-> r.m, n |-> GetTotient(r.m), q |-> r.q,
      root |-> RootOfUnity(2 * r.m, r.q),
      nttModulus |-> r.nttModulus, nttRoot |-> RootOfUnity(NttDim(r.m), r.nttModulus)] :
        r \in ArbRings}

\* One coefficient among equal ones, at the ends and the middle of the residues.
Elements(n, q) ==
    {Vector(n, LAMBDA i : IF i = place THEN one ELSE others) :
        place \in 0 .. n - 1, one \in {0, 1, q \div 2, q - 1}, others \in {0, 1, q - 1}}

Init ==
    /\ subject \in RingParams \cup ArbParams
                  \cup {[kind |-> "number", k |-> k] : k \in Numbers}
    /\ call = Unset

Call ==
    /\ call = Unset
    /\ \/ /\ subject.kind \in {"ring", "arb"}
          /\ call' \in Elements(subject.n, subject.q)
       \/ /\ subject.kind = "number"
          /\ call' = subject.k
    /\ UNCHANGED subject

Spec == Init /\ [][Call]_vars
-----------------------------------------------------------------------------
Called(kind) == call # Unset /\ subject.kind = kind

Evaluate(a, x, q) ==
    LET from[i \in 0 .. Length(a)] == IF i = Length(a) THEN 0 ELSE (from[i + 1] * x + a[i]) % q
    IN  from[0]

\* The product modulo X^n + 1.
NegacyclicProduct(a, b, q) ==
    LET n == Length(a)
        product == PolyMult(a, b)
    IN  Vector(n, LAMBDA i : (product[i] - (IF i = n - 1 THEN 0 ELSE product[i + n])) % q)

RingTransformsExact ==
    LET n == subject.n
        q == subject.q
        root == subject.root
        tables == PreCompute(root, n, q)
        transformed == ForwardTransform(call, root, q)
        other == Vector(n, LAMBDA i : (i + 2) % q)
    IN  /\ \A j \in 0 .. n - 1 :
              transformed[ReverseBits(j, Msb(n))] = Evaluate(call, ModExp(root, 2 * j + 1, q), q)
        /\ transformed = ForwardInPlace(tables.rootOfUnityReverse, call, q)
        /\ transformed = ForwardCopied(tables.rootOfUnityReverse, call, q)
        /\ transformed = ForwardCopiedConst(tables.rootOfUnityReverse,
                                            tables.rootOfUnityPreconReverse, call, q)
        /\ InverseTransform(transformed, root, q) = call
        /\ InverseInPlace(tables.rootOfUnityInverseReverse,
                          tables.cycloOrderInverse[Msb(n)], transformed, q) = call
        /\ InverseTransform(MulPlaces(transformed, ForwardTransform(other, root, q), q), root, q)
              = NegacyclicProduct(call, other, q)

ArbTransformsExact ==
    LET s == subject
        zeta == (s.root * s.root) % s.q
        transformed == ArbForward(call, s.m, s.q, s.root, s.nttModulus, s.nttRoot)
    IN  /\ \A i \in DOMAIN call :
              transformed[i] = Evaluate(call, ModExp(zeta, GetTotientList(s.m)[i + 1], s.q), s.q)
        /\ ArbInverse(transformed, s.m, s.q, s.root, s.nttModulus, s.nttRoot) = call

(***************************************************************************)
(* The forward transform evaluates the element at the odd powers of the    *)
(* root, in the order of the reversed bits, in all its four forms; the     *)
(* inverse, in both forms, brings the element back; and products taken     *)
(* place by place are products modulo X^n + 1.  So do the transforms of    *)
(* any order m, over Bluestein's NTT and whichever way the result is       *)
(* reduced, with the powers coprime to m (transformnat-impl.h).            *)
(***************************************************************************)
TransformsExact ==
    /\ Called("ring") => RingTransformsExact
    /\ Called("arb") => ArbTransformsExact

Odd(n) == {k \in 1 .. 2 * n - 1 : k % 2 = 1}

(***************************************************************************)
(* An automorphism means the same in both formats: transforming what       *)
(* AutomorphismTransform makes of the coefficients gives what it makes of  *)
(* the values, and so does the map that PrecomputeAutoMap made, although   *)
(* indices are multiplied in words that wrap around and the zeros that are *)
(* negated become q.  The indices of the rotations are all the odd numbers *)
(* once, and a negative rotation's is the inverse (poly-impl.h,            *)
(* FindAutomorphismIndex2n and FindAutomorphismIndex2nComplex).            *)
(***************************************************************************)
AutomorphismsAgree ==
    Called("ring") =>
        LET n == subject.n
            q == subject.q
            m == 2 * n
            values == ForwardTransform(call, subject.root, q)
            Reduced(a) == Vector(n, LAMBDA i : a[i] % q)
            Index(i) == FindAutomorphismIndex2n(i, m)
            Complex(i) == FindAutomorphismIndex2nComplex(i, m)
        IN  /\ \A k \in Odd(n) :
                  LET moved == AutomorphismEvaluation(values, k)
                      coefficients == Reduced(AutomorphismCoefficient(call, k, q))
                  IN  /\ ForwardTransform(coefficients, subject.root, q) = moved
                      /\ AutomorphismMapped(values, PrecomputeAutoMap(n, k)) = moved
            /\ n > 2 => /\ {Index(i) : i \in 0 .. n - 1} = Odd(n)
                        /\ \A i \in 1 .. n - 1 : (Index(i) * Index(-i)) % m = 1
                        /\ \A i, j \in 1 .. n \div 2 :
                              /\ (Complex(i) * Complex(j)) % m = Complex(i + j)
                              /\ (Complex(i) * Complex(-i)) % m = 1
-----------------------------------------------------------------------------
Prime(p) == p > 1 /\ \A d \in 2 .. p - 1 : p % d # 0

Divisors(k) == {d \in 1 .. k : k % d = 0}

\* Factors are found, and at most a quarter of a composite's draws are liars.
FactorsExact(k) ==
    /\ MillerRabinPrimalityTest(k) <=> Prime(k)
    /\ k > 5 /\ k % 2 = 1 /\ ~Prime(k) =>
          4 * Cardinality({a \in Draws(k) : MillerRabinWith(k, {a})}) <= k - 1
    /\ PrimeFactorize(k) = {p \in Divisors(k) : Prime(p)}
    /\ GetTotient(k) = Cardinality({i \in 1 .. k : GreatestCommonDivisor(i, k) = 1})

\* The steps are cyclotomic orders, less than q; the bounds are far enough for
\* a prime.
SearchesExact(q) ==
    \A m \in {k \in {2, 4, 8} : k < q} :
        LET above == {p \in q + 1 .. q + 100 : (p - q) % m = 0 /\ Prime(p)}
            below == {p \in 2 .. q - 1 : (q - p) % m = 0 /\ Prime(p)}
            least == {p \in 2^(GetMSB(q)) + 1 .. 2^GetMSB(q) + 100 : p % m = 1 /\ Prime(p)}
        IN  /\ NextPrime(q, m) = Min(above)
            /\ PreviousPrime(q, m) = IF below = {} THEN NoPrime ELSE Max(below)
            /\ FirstPrime(GetMSB(q), m) = Min(least)

Units(k) == {x \in 1 .. k - 1 : GreatestCommonDivisor(x, k) = 1}

Orders(k) == [x \in Units(k) |-> Min({e \in 1 .. k : ModExp(x, e, k) = 1})] @@ <<>>

\* For a prime q, whichever generator was drawn.
RootsExact(q) ==
    LET order == Orders(q)
        generators == Generators(q)
    IN  /\ generators = {x \in Units(q) : order[x] = q - 1}
        /\ \A m \in Divisors(q - 1) \ {1} : \A gen \in generators :
              RootOfUnityFrom(gen, m, q) = Min({x \in Units(q) : order[x] = m})

\* Of the units modulo k, if they are a cyclic group; but those of 4 and of 6
\* have a generator above the totient, where FindGeneratorCyclic never looks.
CyclicExact(k) ==
    LET order == Orders(k)
        generators == {x \in Units(k) : order[x] = GetTotient(k)}
    IN  /\ {x \in Units(k) : IsGenerator(x, k)} = generators
        /\ GeneratorsCyclic(k) \subseteq generators
        /\ k \in {4, 6} => GeneratorsCyclic(k) = {}
        /\ k \notin {4, 6} /\ generators # {} => GeneratorsCyclic(k) # {}

\* X^k - 1 is the product of the cyclotomic polynomials of k's divisors.
CyclotomicExact(k) ==
    /\ FoldLeft(LAMBDA p, d : PolyMult(p, GetCyclotomicPolynomialRecursive(d)), (0 :> 1),
                Ascending(Divisors(k)))
          = Vector(k + 1, LAMBDA i : CASE i = 0 -> -1 [] i = k -> 1 [] OTHER -> 0)
    /\ Length(GetCyclotomicPolynomialRecursive(k)) = GetTotient(k) + 1

\* Division by X - a, and evaluation, of a polynomial modulo q.
DivisionExact(poly, q) ==
    LET points == Vector(q, LAMBDA a : a)
        remainders == SyntheticPolyRemainder(poly, points, q)
    IN  \A a \in 0 .. q - 1 :
            LET divisor == (0 :> (q - a) % q @@ 1 :> 1)
                quotient == SyntheticPolynomialDivision(poly, a, q)
                multiple == PolynomialMultiplication(quotient, divisor, q)
            IN  /\ remainders[a] = Evaluate(poly, a, q)
                /\ (multiple[0] + remainders[a]) % q = poly[0]
                /\ \A i \in 1 .. Length(poly) - 1 : multiple[i] = poly[i]
                /\ Evaluate(PolynomialPower(poly, 2), a, q) = Evaluate(poly, (a * a) % q, q)

(***************************************************************************)
(* Miller and Rabin's test has a witness for every composite and calls     *)
(* every prime one, although residues are squared in place; rho's factors  *)
(* are complete; the searches for primes miss none and end in the          *)
(* exception when they wrap around; the root of unity is the least of its  *)
(* order, whatever generator was drawn; and the cyclotomic polynomials     *)
(* are those, although the quotient's highest coefficient is taken to be 1 *)
(* and its others come out in reverse (nbtheory-impl.h, nbtheory2.cpp).    *)
(***************************************************************************)
PrimesAndRoots ==
    Called("number") =>
        /\ FactorsExact(call)
        /\ Prime(call) /\ call > 3 => SearchesExact(call) /\ RootsExact(call)
        /\ call \in 3 .. 30 => /\ CyclicExact(call)
                               /\ CyclotomicExact(call)
                               /\ DivisionExact(GetCyclotomicPolynomial(call, 7), 7)
=============================================================================
