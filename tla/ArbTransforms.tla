---------------------------- MODULE ArbTransforms ----------------------------
(***************************************************************************)
(* The transforms of rings of any cyclotomic order m in transformnat-      *)
(* impl.h: the iterative transform, Bluestein's over an NTT modulus, and   *)
(* the padding to m places and back (class ChineseRemainderTransformArb-   *)
(* Nat).  Residues of the NTT modulus are multiplied exactly; ArithCalls   *)
(* is about the words.                                                     *)
(***************************************************************************)
EXTENDS Transforms

\* The least power of two that is no less than x.
CeilPower(x) == 2^GetMSB(x - 1)

ModPlaces(a, n, modulus) == Vector(n, LAMBDA i : a[i] % modulus)

MulPlaces(a, b, modulus) == Vector(Length(a), LAMBDA i : (a[i] * b[i]) % modulus)

\* The even place of a pair takes the sum and the odd place the difference.
ForwardIterative(element, rootTable, modulus) ==
    LET n == Length(element)
        after[logm \in 0 .. Msb(n)] ==
            IF logm = 0 THEN Vector(n, LAMBDA i : element[ReverseBits(i, Msb(n))])
            ELSE LET half == 2^(logm - 1)
                     r == after[logm - 1]
                     Factor(x) == (rootTable[(x % half) * (n \div (2 * half))] * r[x]) % modulus
                     Entry(x) == IF x % (2 * half) < half
                                 THEN (r[x] + Factor(x + half)) % modulus
                                 ELSE (r[x - half] - Factor(x)) % modulus
                 IN  Vector(n, Entry)
    IN  after[Msb(n)]

InverseIterative(element, rootTableInverse, modulus) ==
    LET forward == ForwardIterative(element, rootTableInverse, modulus)
        inverse == InverseMod(Length(element), modulus)
    IN  Vector(Length(element), LAMBDA i : (forward[i] * inverse) % modulus)

\* The tables for an NTT of dimension dim (PreComputeRootTableForNTT and part 0
\* of SetPreComputedNTTDivisionModulus).
RootTable(dim, root, modulus) == Powers(root, dim \div 2, modulus)
RootTableInverse(dim, root, modulus) == RootTable(dim, InverseMod(root, modulus), modulus)
-----------------------------------------------------------------------------
(* Bluestein's transform of m places.  `root' has order 2m.                  *)

NttDim(m) == CeilPower(2 * m - 1)

SquarePower(root, i, m, modulus) == ModExp(root, Usint(i * i) % (2 * m), modulus)

PreComputePowers(m, modulus, root) ==
    Vector(m, LAMBDA i : SquarePower(root, i, m, modulus))

PadZeros(a, finalSize) ==
    Vector(finalSize, LAMBDA i : IF i \in DOMAIN a THEN a[i] ELSE 0)

PreComputeRBTable(m, modulus, root, nttModulus, nttRoot) ==
    LET rootInv == InverseMod(root, modulus)
        b == Vector(2 * m - 1, LAMBDA i :
                 SquarePower(rootInv, Magnitude(i - (m - 1)), m, modulus))
        table == RootTable(NttDim(m), nttRoot, nttModulus)
    IN  ForwardIterative(PadZeros(b, NttDim(m)), table, nttModulus)

Resize(a, lo, hi) == Vector(hi - lo + 1, LAMBDA i : a[lo + i])

Bluestein(element, m, modulus, root, nttModulus, nttRoot) ==
    LET powers == PreComputePowers(m, modulus, root)
        dim == NttDim(m)
        RA == ForwardIterative(PadZeros(MulPlaces(element, powers, modulus), dim),
                               RootTable(dim, nttRoot, nttModulus), nttModulus)
        RB == PreComputeRBTable(m, modulus, root, nttModulus, nttRoot)
        Rc == InverseIterative(MulPlaces(RA, RB, nttModulus),
                               RootTableInverse(dim, nttRoot, nttModulus), nttModulus)
    IN  MulPlaces(Resize(Rc, m - 1, 2 * (m - 1)), powers, modulus)
-----------------------------------------------------------------------------
(* Reduction modulo the cyclotomic polynomial.                               *)

\* Newton's iteration for 1 / cycloPoly modulo X^power.
InversePolyMod(cycloPoly, modulus, power) ==
    LET h[i \in 0 .. GetMSB(power - 1)] ==
            IF i = 0 THEN (0 :> 1)
            ELSE LET a == h[i - 1]
                     b == PolynomialMultiplication(
                              PolynomialMultiplication(a, a, modulus), cycloPoly, modulus)
                     difference == Vector(Length(b), LAMBDA j :
                         ((IF j \in DOMAIN a THEN 2 * a[j] ELSE 0) - b[j]) % modulus)
                     X == Vector(2^i + 1, LAMBDA j : IF j = 2^i THEN 1 ELSE 0)
                 IN  PolyMod(difference, X, modulus)
    IN  Resize(h[GetMSB(power - 1)], 0, power - 1)

\* Of the NTTs that divide; `power' is the length of the quotient.
DivisionDim(power) == 2 * CeilPower(power)

ProductByNtt(a, b, dim, nttModulus, nttRoot) ==
    LET Forward(x) == ForwardIterative(PadZeros(x, dim), RootTable(dim, nttRoot, nttModulus),
                                       nttModulus)
    IN  InverseIterative(MulPlaces(Forward(a), Forward(b), nttModulus),
                         RootTableInverse(dim, nttRoot, nttModulus), nttModulus)

\* The quotient by the cyclotomic polynomial, from the inverse of the
\* polynomial, in reversed coefficients; `power' is m less its degree.
QuotientByNtt(element, m, power, cycloPoly, modulus, nttModulus, nttRoot) ==
    LET high == Vector(power, LAMBDA i : element[m - 1 - i])
    IN  ModPlaces(ProductByNtt(high, InversePolyMod(cycloPoly, modulus, power),
                               DivisionDim(power), nttModulus, nttRoot),
                  power, modulus)

RemainderByNtt(element, m, n, cycloPoly, modulus, nttModulus, nttRootBig) ==
    LET power == m - n
        dim == DivisionDim(power)
        nttRoot == ModExp(nttRootBig, NttDim(m) \div dim, nttModulus)
        newQuotient2 ==
            ProductByNtt(QuotientByNtt(element, m, power, cycloPoly, modulus, nttModulus, nttRoot),
                         cycloPoly, dim, nttModulus, nttRoot)
    IN  Vector(n, LAMBDA i : (element[i] - newQuotient2[m - 1 - i]) % modulus)

DropInverse(element, m, n, modulus, nttModulus, nttRoot) ==
    LET Sign(i) == IF i % 2 = 0 THEN -1 ELSE 1
        Twice(i) == element[i] - element[i + n + 1]
    IN  CASE m = n + 1 -> Vector(n, LAMBDA i : (element[i] - element[n]) % modulus)
          [] m = 2 * (n + 1) ->
                Vector(n, LAMBDA i : (Twice(i) + Sign(i) * Twice(n)) % modulus)
          [] OTHER -> RemainderByNtt(element, m, n, GetCyclotomicPolynomial(m, modulus),
                                     modulus, nttModulus, nttRoot)

DropForward(element, n, coprimes) == Vector(n, LAMBDA i : element[coprimes[i + 1]])

ArbForward(element, m, modulus, root, nttModulus, nttRoot) ==
    DropForward(Bluestein(PadZeros(element, m), m, modulus, root, nttModulus, nttRoot),
                Length(element), GetTotientList(m))

ArbInverse(element, m, modulus, root, nttModulus, nttRoot) ==
    LET coprimes == GetTotientList(m)
        Before(p) == Cardinality({c \in ToSet(coprimes) : c < p})
        padded == Vector(m, LAMBDA p : IF p \in ToSet(coprimes) THEN element[Before(p)] ELSE 0)
        all == Bluestein(padded, m, modulus, InverseMod(root, modulus), nttModulus, nttRoot)
        cyclotomicInverse == InverseMod(m, modulus)
        scaled == Vector(m, LAMBDA p : (all[p] * cyclotomicInverse) % modulus)
    IN  DropInverse(scaled, m, Length(element), modulus, nttModulus, nttRoot)
=============================================================================
