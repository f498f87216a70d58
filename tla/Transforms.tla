----------------------------- MODULE Transforms -----------------------------
(***************************************************************************)
(* The number theoretic transforms of transformnat-impl.h on a vector of n *)
(* residues, and the automorphisms of a ring element (PolyImpl of          *)
(* poly-impl.h).  Module NttTables has the map that holds the tables of    *)
(* each modulus; here are the numbers in them.  Lengths are right: a wrong *)
(* one is an exception.                                                    *)
(***************************************************************************)
EXTENDS NumberTheory

\* Half of the cyclotomic order is n; msb is the number of bits of an index.
Msb(n) == GetMSB(n - 1)

\* Power i of a residue, as the loops that fill the tables reach it.
Powers(root, n, modulus) ==
    LET x[i \in 0 .. n - 1] ==
            IF i = 0 THEN 1 ELSE (x[i - 1] * root) % modulus
    IN  Vector(n, LAMBDA i : x[i])

\* Power i goes to the place whose index is i with the bits reversed.
ReverseTable(root, n, modulus) ==
    LET x == Powers(root, n, modulus)
    IN  Vector(n, LAMBDA place :
                      x[CHOOSE i \in 0 .. n - 1 : ReverseBits(i, Msb(n)) = place])

Precon(table, modulus) ==
    Vector(Length(table), LAMBDA i : PrepModMulConst(table[i], modulus))

\* What PreCompute leaves in the maps for `modulus'.
PreCompute(rootOfUnity, n, modulus) ==
    LET Table    == ReverseTable(rootOfUnity, n, modulus)
        TableI   == ReverseTable(InverseMod(rootOfUnity, modulus), n, modulus)
        TableCOI == Vector(Msb(n) + 1, LAMBDA i : InverseMod(2^i, modulus))
    IN  [rootOfUnityReverse              |-> Table,
         rootOfUnityInverseReverse       |-> TableI,
         cycloOrderInverse               |-> TableCOI,
         rootOfUnityPreconReverse        |-> Precon(Table, modulus),
         rootOfUnityInversePreconReverse |-> Precon(TableI, modulus),
         cycloOrderInversePrecon         |-> Precon(TableCOI, modulus)]
-----------------------------------------------------------------------------
(* Butterflies multiply by an entry of the table of roots: through           *)
(* Barrett's mu, or with the entry's precomputed factor when there are       *)
(* factors.                                                                  *)

NoPrecon == <<>>

TimesRoot(table, precon, modulus, x, k) ==
    IF precon = NoPrecon THEN ModMulFast(x, table[k], modulus, ComputeMu(modulus))
    ELSE ModMulFastConst(x, table[k], modulus, precon[k])

\* One round over m blocks of 2t places.  The copying forms skip the product
\* with an upper element that is zero.
ForwardRound(r, m, t, modulus, table, precon, skipsZero) ==
    LET Entry(x) ==
            LET lower  == x % (2 * t) < t
                lo     == IF lower THEN x ELSE x - t
                factor == TimesRoot(table, precon, modulus, r[lo + t], m + x \div (2 * t))
            IN  IF skipsZero /\ r[lo + t] = 0 THEN r[lo]
                ELSE IF lower THEN ModAddFast(r[lo], factor, modulus)
                ELSE ModSubFast(r[lo], factor, modulus)
    IN  Vector(Length(r), Entry)

ForwardRounds(element, modulus, table, precon, skipsZero) ==
    LET n == Length(element)
        after[s \in 0 .. Msb(n)] ==
            IF s = 0 THEN element
            ELSE ForwardRound(after[s - 1], 2^(s - 1), n \div 2^s, modulus, table, precon,
                              skipsZero)
    IN  after[Msb(n)]

\* The four forms: in place or into a result, without or with factors.
ForwardInPlace(table, element, modulus) ==
    ForwardRounds(element, modulus, table, NoPrecon, FALSE)

ForwardCopied(table, element, modulus) ==
    ForwardRounds(element, modulus, table, NoPrecon, TRUE)

ForwardInPlaceConst(table, precon, element, modulus) ==
    ForwardRounds(element, modulus, table, precon, FALSE)

ForwardCopiedConst(table, precon, element, modulus) ==
    ForwardRounds(element, modulus, table, precon, TRUE)

InverseRound(r, m, t, modulus, table, precon) ==
    LET Entry(x) ==
            IF x % (2 * t) < t
            THEN ModAddFast(r[x], r[x + t], modulus)
            ELSE TimesRoot(table, precon, modulus, ModSubFast(r[x - t], r[x], modulus),
                           m + (x \div (2 * t)))
    IN  Vector(Length(r), Entry)

\* The rounds after the first `done'.
InverseRounds(element, done, modulus, table, precon) ==
    LET n == Length(element)
        after[s \in done .. Msb(n)] ==
            IF s = done THEN element
            ELSE InverseRound(after[s - 1], n \div 2^s, 2^(s - 1), modulus, table, precon)
    IN  after[Msb(n)]

\* Multiplied by 1 / n in the end.
InverseInPlace(table, cycloOrderInv, element, modulus) ==
    LET rounds == InverseRounds(element, 0, modulus, table, NoPrecon)
        mu == ComputeMu(modulus)
    IN  Vector(Length(element), LAMBDA x : ModMulFast(rounds[x], cycloOrderInv, modulus, mu))

\* Multiplied by 1 / n after the first round.
InverseInPlaceConst(table, precon, cycloOrderInv, preconCycloOrderInv, element, modulus) ==
    LET first == InverseRound(element, Length(element) \div 2, 1, modulus, table, precon)
        Scaled(x) == ModMulFastConst(first[x], cycloOrderInv, modulus, preconCycloOrderInv)
    IN  InverseRounds(Vector(Length(element), Scaled), 1, modulus, table, precon)
-----------------------------------------------------------------------------
(* The transforms of a ring with root of unity `rootOfUnity' (class          *)
(* ChineseRemainderTransformFTTNat).  With root 0 or 1 the element stays.    *)

Trivial(rootOfUnity) == rootOfUnity \in {0, 1}

ForwardTransform(element, rootOfUnity, modulus) ==
    LET tables == PreCompute(rootOfUnity, Length(element), modulus)
    IN  IF Trivial(rootOfUnity) THEN element
        ELSE ForwardInPlaceConst(tables.rootOfUnityReverse, tables.rootOfUnityPreconReverse,
                                 element, modulus)

\* Mutant: 1 / n is looked up one place too early.
InverseTransform_halfScale(element, rootOfUnity, modulus) ==
    LET n      == Length(element)
        tables == PreCompute(rootOfUnity, n, modulus)
        scale  == Msb(n) - 1
    IN  InverseInPlaceConst(tables.rootOfUnityInverseReverse,
                            tables.rootOfUnityInversePreconReverse,
                            tables.cycloOrderInverse[scale], tables.cycloOrderInversePrecon[scale],
                            element, modulus)

InverseTransform(element, rootOfUnity, modulus) ==
    LET n      == Length(element)
        tables == PreCompute(rootOfUnity, n, modulus)
    IN  IF Trivial(rootOfUnity) THEN element
        ELSE InverseInPlaceConst(tables.rootOfUnityInverseReverse,
                                 tables.rootOfUnityInversePreconReverse,
                                 tables.cycloOrderInverse[Msb(n)],
                                 tables.cycloOrderInversePrecon[Msb(n)], element, modulus)
-----------------------------------------------------------------------------
(* Automorphisms X -> X^k of a ring element, k odd (PolyImpl).               *)

\* In evaluation format values change places; k * (2j + 1) may wrap around.
AutomorphismEvaluation(values, k) ==
    LET n    == Length(values)
        logn == GetMSB(2 * n) - 2
        From(j) == ReverseBits((Usint(k + 2 * j * k) \div 2) % n, logn)
    IN  Vector(n, LAMBDA place :
                      values[From(CHOOSE j \in 0 .. n - 1 : ReverseBits(j, logn) = place)])

\* Mutant: nothing is negated.
AutomorphismCoefficient_cyclic(values, k, q) ==
    LET n == Length(values)
    IN  Vector(n, LAMBDA place :
                      values[CHOOSE j \in 0 .. n - 1 : Usint(j * k) % n = place])

\* In coefficient format they change signs as well; a zero becomes q.
AutomorphismCoefficient(values, k, q) ==
    LET n == Length(values)
        Place(j)  == Usint(j * k) % n
        Negate(j) == (Usint(j * k) \div n) % 2 = 1
        Moved(j)  == IF Negate(j) THEN q - values[j] ELSE values[j]
    IN  Vector(n, LAMBDA place : Moved(CHOOSE j \in 0 .. n - 1 : Place(j) = place))

\* With the map that PrecomputeAutoMap made.
AutomorphismMapped(values, precomp) ==
    Vector(Length(values), LAMBDA j : values[precomp[j]])
=============================================================================
