----------------------------- MODULE LeveledSHE -----------------------------
(***************************************************************************)
(* The bookkeeping of the leveled schemes over RNS (LeveledSHERNS with      *)
(* LeveledSHECKKSRNS and LeveledSHEBGVRNS).  A ciphertext carries, next to  *)
(* its polynomials, a level, a noise scale degree and a scaling factor.     *)
(* Nothing recomputes them: every operation must leave them in step with    *)
(* what it did to the polynomials, and before two operands are combined one *)
(* of them is brought to the level, degree and scale of the other.          *)
(*                                                                          *)
(* A scale is a product of the moduli q_1, ..., q_(L-1) and, under a fixed  *)
(* technique of CKKS, of the one factor 2^p (in the place of q_0, which no  *)
(* rescaling drops), written as its exponents: CKKS computes with such      *)
(* products as doubles and BGV modulo t, and both keep these identities.    *)
(* Every ciphertext has its declared scale and, as a ghost, the scale its   *)
(* polynomials really have.  A plaintext operand is turned into a           *)
(* ciphertext with the same fields (MorphPlaintext) and is one here.        *)
(***************************************************************************)
EXTENDS Integers, FiniteSets

CONSTANTS Regs,         \* the variables of the program that hold ciphertexts
          L,            \* sizeQ, the number of moduli
          Schemes,      \* the schemes modelled: "CKKS", "BGV"
          EncodeLevels, \* EncodeLevels[s]: levels plaintexts are encoded at
          Word,         \* degrees are unsigned and wrap at this bound
          MaxDeg        \* bound: degree a multiplication may reach

Techniques == {"FIXEDMANUAL", "FIXEDAUTO", "FLEXIBLEAUTO", "FLEXIBLEAUTOEXT"}

ASSUME LAssumption == L \in Nat \ {0, 1, 2}
ASSUME SchemesAssumption == Schemes \subseteq {"CKKS", "BGV"}
ASSUME LevelsAssumption == EncodeLevels \in [Schemes -> SUBSET (0..(L-1))]
\* BGV takes the towers of all moduli for every level it encodes at
\* (cryptocontext.h:239-242): only level 0 gives what its fields say.
ASSUME BGVAssumption == "BGV" \in Schemes => EncodeLevels["BGV"] = {0}
ASSUME WordAssumption == MaxDeg \in Nat /\ Word \in Nat /\ MaxDeg + L < Word

VARIABLES scheme, technique, \* of the crypto context
          reg,               \* the ciphertexts, each register its own object
          spoilt             \* ghost: the registers whose ciphertext comes from
                             \* one that MultMutableSelf rescaled twice

vars == <<scheme, technique, reg, spoilt>>

flexible == technique \in {"FLEXIBLEAUTO", "FLEXIBLEAUTOEXT"}
manual == technique = "FIXEDMANUAL"
extended == technique = "FLEXIBLEAUTOEXT"

\* Scales.
Factors == 0..(L-1)
One == [i \in Factors |-> 0]
Modulus(k) == [One EXCEPT ![k] = 1]
Times(s, u) == [i \in Factors |-> s[i] + u[i]]
Over(s, u)  == [i \in Factors |-> s[i] - u[i]]
Power(s, d) == [i \in Factors |-> d * s[i]]

\* m_scalingFactorsReal and m_scalingFactorsInt: a level's factor is what one
\* rescaling leaves of the square of the factor before.
FlexibleTable[k \in 0..(L-1)] ==
    IF k = 0 THEN Modulus(L-1)
    ELSE IF k = 1 /\ extended THEN Modulus(L-2)
    ELSE Over(Power(FlexibleTable[k-1], 2), Modulus(L-k))

\* GetScalingFactorReal/Int of a level.  A fixed technique has one factor for
\* all levels: 2^p in CKKS, 1 in BGV, whose moduli are then 1 modulo t.
ScalingFactor(l) ==
    IF flexible THEN FlexibleTable[l]
    ELSE IF scheme = "CKKS" THEN Modulus(0) ELSE One

\* GetScalingFactorRealBig/IntBig: of a product that has not been rescaled.  A
\* fixed technique has no such table and returns its one factor.
ScalingFactorBig(l) ==
    IF ~flexible THEN ScalingFactor(l)
    ELSE IF l = 0 /\ extended THEN Times(ScalingFactor(0), ScalingFactor(1))
    ELSE Power(ScalingFactor(l), 2)

\* GetModReduceFactor: what dropping modulus k divides a scale by; and what
\* dropping the last n of a number of towers does.
ModReduceFactor(k) == IF flexible THEN Modulus(k) ELSE ScalingFactor(0)

DroppedFactors(towers, n) ==
    IF flexible THEN [i \in Factors |-> IF i \in (towers - n)..(towers - 1)
                                        THEN 1 ELSE 0]
    ELSE Power(ScalingFactor(0), n)
-----------------------------------------------------------------------------
(* What the operations do to one ciphertext.  `thrown' says that the call    *)
(* ended in an exception: what follows it is not executed.  Two ghosts mark  *)
(* what the fields no longer describe: `torn', a rescaling threw half-way;   *)
(* `off', the scale is not the one of its level (see Compressed and Raise).  *)

Do(c, d) == IF c.thrown THEN c ELSE d
Throw(c) == [c EXCEPT !.thrown = TRUE]

\* Mutant: level 0 of the extended technique is like any other.
Fresh_unextended(level, deg) ==
    LET ignored == scheme = "BGV" /\ ~flexible
        l == IF ignored THEN 0 ELSE level
        d == IF ignored THEN 1 ELSE deg
        s == Power(ScalingFactor(l), d)
    IN  [towers |-> IF scheme = "BGV" THEN L ELSE L - l,
         level |-> l, deg |-> d, scale |-> s, true |-> s,
         thrown |-> FALSE, torn |-> FALSE, off |-> FALSE]

\* Encode, and Encrypt, which copies the fields.  CKKS encodes over the moduli
\* of the level, BGV over all of them; BGV under a fixed technique takes no
\* notice of level and degree.  In the extended technique level 0 has its own
\* scale and degree.
Fresh(level, deg) ==
    LET ignored == scheme = "BGV" /\ ~flexible
        l == IF ignored THEN 0 ELSE level
        big == extended /\ l = 0
        d == IF ignored THEN 1 ELSE IF big THEN 2 ELSE deg
        s == IF big THEN ScalingFactorBig(0) ELSE Power(ScalingFactor(l), d)
    IN  [towers |-> IF scheme = "BGV" THEN L ELSE L - l,
         level |-> l, deg |-> d, scale |-> s, true |-> s,
         thrown |-> FALSE, torn |-> FALSE, off |-> FALSE]

\* EvalMultCoreInPlace with a constant that carries the scale x.  CKKS takes
\* it that the constant is encoded at the factor of the level (to correct by
\* x it asks for the constant x / factor); BGV multiplies by it as it is.
EvalMultCore(c, x) ==
    Do(c, [c EXCEPT
             !.true = Times(@, x),
             !.scale = IF scheme = "CKKS" THEN Times(@, ScalingFactor(c.level))
                                          ELSE Times(@, x),
             !.deg = (@ + 1) % Word])

\* ModReduceInternalInPlace.  BGV looks first whether there are enough towers;
\* CKKS drops one after the other until the last would go, and then throws
\* before it has updated the fields.
ModReduce(c, n) ==
    LET drops == IF n < c.towers THEN n ELSE c.towers - 1
        dropped == [c EXCEPT
                      !.towers = @ - drops,
                      !.true = Over(@, DroppedFactors(c.towers, drops))]
    IN  Do(c, IF n < c.towers
              THEN [dropped EXCEPT
                      !.scale = Over(@, DroppedFactors(c.towers, n)),
                      !.level = @ + n,
                      !.deg = (@ - n) % Word]
              ELSE IF scheme = "BGV" THEN Throw(c)
              ELSE Throw([dropped EXCEPT !.torn = @ \/ drops > 0]))

\* Mutant: the level is not told that towers are gone.
LevelReduce_silent(c, n) ==
    Do(c, IF n < c.towers THEN [c EXCEPT !.towers = @ - n] ELSE Throw(c))

\* LevelReduceInternalInPlace; DropLastElements throws before any change.
LevelReduce(c, n) ==
    Do(c, IF n < c.towers
          THEN [c EXCEPT !.towers = @ - n, !.level = @ + n]
          ELSE Throw(c))

-----------------------------------------------------------------------------
(* Adjusting two operands, as a pair <<first, second>>.                      *)

\* Under FIXEDAUTO the factor of a product is wanted and 2^p is returned.
FactorMissing == technique = "FIXEDAUTO" /\ scheme = "CKKS"

\* The four branches for the operand at the lower level: c is brought to the
\* level, degree and scale of o.
Raise(c, o) ==
    LET gap == o.level - c.level
        q == ModReduceFactor(c.towers - 1)
        big == ScalingFactorBig(o.level - 1)
        Correct(x) == EvalMultCore(c, Over(x, c.scale))
        Reduce1(d) == ModReduce(d, 1)
        Skip(d, n) == IF n > 0 THEN LevelReduce(d, n) ELSE d
        Match(d, off) == Do(d, [d EXCEPT !.scale = o.scale,
                                         !.off = @ \/ off \/ o.off])
    IN
    IF c.deg = 2
    THEN IF o.deg = 2
         THEN Match(Skip(Reduce1(Correct(Times(o.scale, q))), gap - 1), FALSE)
         ELSE IF gap = 1 THEN Reduce1(c)
         ELSE Match(Reduce1(Skip(Reduce1(Correct(Times(big, q))), gap - 2)),
                    FactorMissing)
    ELSE IF o.deg = 2
         THEN Match(Skip(Correct(o.scale), gap), FALSE)
         ELSE Match(Reduce1(Skip(Correct(big), gap - 1)), FactorMissing)

\* At one level the operand of the lower degree is multiplied by 1 (CKKS) or
\* by its own scale (BGV).
RaiseDegree(c) ==
    EvalMultCore(c, IF scheme = "CKKS" THEN ScalingFactor(c.level) ELSE c.scale)

AdjustLevelsAndDepth(a, b) ==
    IF a.level < b.level THEN <<Raise(a, b), b>>
    ELSE IF a.level > b.level THEN <<a, Raise(b, a)>>
    ELSE IF a.deg < b.deg THEN <<RaiseDegree(a), b>>
    ELSE IF b.deg < a.deg THEN <<a, RaiseDegree(b)>>
    ELSE <<a, b>>

\* Mutant: only the first operand is rescaled.
AdjustLevelsAndDepthToOne_first(a, b) ==
    LET p == AdjustLevelsAndDepth(a, b) IN
    IF p[1].deg # 2 THEN p ELSE <<ModReduce(p[1], 1), p[2]>>

\* An exception in the first rescaling keeps the second from happening.
AdjustLevelsAndDepthToOne(a, b) ==
    LET p == AdjustLevelsAndDepth(a, b)
        r == ModReduce(p[1], 1)
    IN  IF p[1].deg # 2 THEN p
        ELSE <<r, IF r.thrown THEN p[2] ELSE ModReduce(p[2], 1)>>

\* The same when both operands are one object: there is nothing to adjust, and
\* it is rescaled as the first operand and again as the second.
RescaledTwice(c) ==
    IF c.deg # 2 THEN c ELSE ModReduce(ModReduce(c, 1), 1)

AdjustLevels(a, b) ==
    IF a.towers < b.towers THEN <<a, LevelReduce(b, b.towers - a.towers)>>
    ELSE IF a.towers > b.towers THEN <<LevelReduce(a, a.towers - b.towers), b>>
    ELSE <<a, b>>

AdjustForAddOrSub(a, b) ==
    IF manual THEN AdjustLevels(a, b) ELSE AdjustLevelsAndDepth(a, b)

AdjustForMult(a, b) ==
    IF manual THEN AdjustLevels(a, b) ELSE AdjustLevelsAndDepthToOne(a, b)

AdjustSelfForMult(c) == IF manual THEN c ELSE RescaledTwice(c)

Thrown(p) == p[1].thrown \/ p[2].thrown
Caught(c) == [c EXCEPT !.thrown = FALSE]

\* EvalAddCore keeps the fields of the first operand.
Sum(a, b) == [a EXCEPT !.torn = @ \/ b.torn, !.off = @ \/ b.off]

\* EvalMultCore of two ciphertexts; a square is the product with itself.
Product(a, b) ==
    [a EXCEPT !.deg = @ + b.deg,
              !.scale = Times(@, b.scale), !.true = Times(@, b.true),
              !.torn = @ \/ b.torn, !.off = @ \/ b.off]

\* EvalMultInPlace by a real constant.
MultConst(c) ==
    LET d == IF ~manual /\ c.deg = 2 THEN ModReduce(c, 1) ELSE c
    IN  EvalMultCore(d, ScalingFactor(d.level))

\* What EvalSquare squares, and what EvalSquareMutable does.
BeforeSquare(c) == IF manual \/ c.deg = 1 THEN c ELSE ModReduce(c, 1)
BeforeSquareMutable(c) == IF ~manual /\ c.deg = 2 THEN ModReduce(c, 1) ELSE c

\* Compress rescales a clone to degree 1, level by level, and drops towers
\* down to a number of them without touching the scale.
Compressed(c, left) ==
    LET d == IF c.deg > 1 THEN ModReduce(c, c.deg - 1) ELSE c IN
    IF d.thrown \/ left >= d.towers THEN d
    ELSE [LevelReduce(d, d.towers - left) EXCEPT !.off = @ \/ flexible]

\* Mutant: the extended technique is forgotten.
AddedConstantScale_unextended(c) ==
    Power(ScalingFactor(c.level), IF c.deg = 0 THEN 1 ELSE c.deg)

\* GetElementForEvalAddOrSub: the scale of a constant that is added.
AddedConstantScale(c) ==
    IF extended /\ c.level = 0 THEN ScalingFactorBig(0)
    ELSE Power(ScalingFactor(c.level), IF c.deg = 0 THEN 1 ELSE c.deg)
-----------------------------------------------------------------------------
Init ==
    /\ scheme \in Schemes
    /\ technique \in Techniques
    /\ reg = [r \in Regs |-> Fresh(0, 1)]
    /\ spoilt = {}

\* The registers that are changed, by a function from some of them.
Write(f) ==
    /\ reg' = [r \in Regs |-> IF r \in DOMAIN f THEN Caught(f[r]) ELSE reg[r]]
    /\ UNCHANGED <<scheme, technique>>

\* They are spoilt if one of the registers they are computed from is.
Store(f, from) ==
    /\ Write(f)
    /\ spoilt' = IF from \cap spoilt = {} THEN spoilt \ DOMAIN f
                                          ELSE spoilt \union DOMAIN f

Put(r, c, from) == Store([x \in {r} |-> c], from)

\* Both operands of a "mutable" operation.  The same object can be both when
\* it is added, which leaves it as it is.
PutPair(r, s, p) ==
    Store([x \in {r, s} |-> IF x = r THEN p[1] ELSE p[2]], {r, s})

\* They and the result, c.
PutThree(d, c, r, s, p) ==
    Store([x \in {d, r, s} |-> IF x = d THEN c ELSE IF x = r THEN p[1] ELSE p[2]],
          {r, s})

\* The result and the first operand, of an operation with a plaintext.
PutResult(d, c, r, s, p) ==
    Store([x \in {d, r} |-> IF x = d THEN c ELSE p[1]], {r, s})

Encode(r, level, deg) == Put(r, Fresh(level, deg), {})

\* EvalAdd, EvalSub and their in-place and plaintext forms: the first operand
\* (or its clone) is adjusted in place, the second in a clone.  Here and below
\* p is the one pair the adjustment gives.
Add(r, s) ==
    \E p \in {AdjustForAddOrSub(reg[r], reg[s])} :
    Put(r, IF Thrown(p) THEN p[1] ELSE Sum(p[1], p[2]), {r, s})

\* The mutable forms leave both operands adjusted, or the ciphertext alone if
\* the other is a plaintext.
AddMutable(d, r, s) ==
    \E p \in {AdjustForAddOrSub(reg[r], reg[s])} :
    IF Thrown(p) THEN PutPair(r, s, p)
                 ELSE PutThree(d, Sum(p[1], p[2]), r, s, p)

AddPlainMutable(d, r, s) ==
    \E p \in {AdjustForAddOrSub(reg[r], reg[s])} :
    IF Thrown(p) THEN Put(r, p[1], {r, s})
                 ELSE PutResult(d, Sum(p[1], p[2]), r, s, p)

Multipliable(a, b) == a.deg + b.deg <= MaxDeg

\* EvalMult on clones: an exception leaves everything as it was.
Mult(d, r, s) ==
    \E p \in {AdjustForMult(reg[r], reg[s])} :
    /\ ~Thrown(p)
    /\ Multipliable(p[1], p[2])
    /\ Put(d, Product(p[1], p[2]), {r, s})

\* EvalMultInPlace with a plaintext: the ciphertext is adjusted in place.
MultPlain(r, s) ==
    \E p \in {AdjustForMult(reg[r], reg[s])} :
    \/ Thrown(p) /\ Put(r, p[1], {r, s})
    \/ /\ ~Thrown(p)
       /\ Multipliable(p[1], p[2])
       /\ Put(r, Product(p[1], p[2]), {r, s})

MultPlainMutable(d, r, s) ==
    \E p \in {AdjustForMult(reg[r], reg[s])} :
    \/ Thrown(p) /\ Put(r, p[1], {r, s})
    \/ /\ ~Thrown(p)
       /\ Multipliable(p[1], p[2])
       /\ PutResult(d, Product(p[1], p[2]), r, s, p)

\* EvalMultMutable of two objects.
MultMutable(d, r, s) ==
    \E p \in {AdjustForMult(reg[r], reg[s])} :
    /\ r # s
    /\ \/ Thrown(p) /\ PutPair(r, s, p)
       \/ /\ ~Thrown(p)
          /\ Multipliable(p[1], p[2])
          /\ PutThree(d, Product(p[1], p[2]), r, s, p)

\* EvalMultMutable(ct, ct): no caller up the chain asks whether the operands
\* differ.  An exception in the second rescaling leaves the first one done.
MultMutableSelf(d, r) ==
    LET c == AdjustSelfForMult(reg[r]) IN
    \/ c.thrown /\ Put(r, c, {r})
    \/ /\ ~c.thrown
       /\ Multipliable(c, c)
       /\ Write([x \in {d, r} |-> IF x = d THEN Product(c, c) ELSE c])
       /\ spoilt' = IF r \in spoilt \/ (~manual /\ reg[r].deg = 2)
                    THEN spoilt \union {d, r} ELSE spoilt \ {d}

Square(d, r) ==
    LET c == BeforeSquare(reg[r]) IN
    ~c.thrown /\ Multipliable(c, c) /\ Put(d, Product(c, c), {r})

SquareMutable(d, r) ==
    LET c == BeforeSquareMutable(reg[r]) IN
    /\ ~c.thrown
    /\ Multipliable(c, c)
    /\ Store([x \in {d, r} |-> IF x = d THEN Product(c, c) ELSE c], {r})

MultConstant(d, r) ==
    LET c == MultConst(reg[r]) IN
    scheme = "CKKS" /\ reg[r].deg < MaxDeg /\ ~c.thrown /\ Put(d, c, {r})

\* The public ModReduceInPlace and LevelReduceInPlace act under FIXEDMANUAL.
Rescale(r, n) == manual /\ Put(r, ModReduce(reg[r], n), {r})
DropLevels(r, n) == manual /\ n > 0 /\ Put(r, LevelReduce(reg[r], n), {r})

Compress(d, r, left) ==
    LET c == Compressed(reg[r], left) IN
    reg[r].deg <= MaxDeg /\ ~c.thrown /\ Put(d, c, {r})

Next ==
    \/ \E r \in Regs, l \in EncodeLevels[scheme], d \in {1, 2} : Encode(r, l, d)
    \/ \E r, s \in Regs : Add(r, s) \/ MultPlain(r, s)
    \/ \E d, r, s \in Regs :
         \/ AddMutable(d, r, s)
         \/ AddPlainMutable(d, r, s)
         \/ Mult(d, r, s)
         \/ MultMutable(d, r, s)
         \/ MultPlainMutable(d, r, s)
    \/ \E d, r \in Regs :
         \/ MultMutableSelf(d, r)
         \/ Square(d, r)
         \/ SquareMutable(d, r)
         \/ MultConstant(d, r)
         \/ \E left \in 0..L : Compress(d, r, left)
    \/ \E r \in Regs, n \in 1..L : Rescale(r, n) \/ DropLevels(r, n)

Spec == Init /\ [][Next]_vars
-----------------------------------------------------------------------------
Plain(c) == ~c.torn /\ ~c.off

\* The level counts the towers that are gone, whatever was multiplied,
\* rescaled, adjusted or refused; the one exception is a rescaling of several
\* levels in CKKS that runs out of towers half-way.
TowersMatchLevel ==
    \A r \in Regs :
        /\ reg[r].towers \in 1..L
        /\ ~reg[r].torn => reg[r].towers = L - reg[r].level
        /\ reg[r].torn => manual /\ scheme = "CKKS"

\* The fields tell the truth: the declared scale is the scale of the
\* polynomials, and it is the factor of the level to the power of the degree,
\* which under an automatic technique is 1 or 2.  Only EvalMultMutable with one
\* object for both operands breaks this, for what is computed from it.
DegreeTellsScale ==
    \A r \in Regs \ spoilt : LET c == reg[r] IN
        Plain(c) =>
            /\ c.scale = c.true
            /\ ~manual => c.deg \in {1, 2}
            /\ flexible => c.scale = IF extended /\ c.level = 0
                                     THEN ScalingFactorBig(0)
                                     ELSE Power(ScalingFactor(c.level), c.deg)
            /\ ~flexible /\ scheme = "CKKS" => c.scale[0] % Word = c.deg

Aligned(a, b) ==
    /\ a.towers = b.towers /\ a.level = b.level
    /\ a.deg = b.deg /\ a.true = b.true

\* Two operands can be added after the adjustment: they have equal towers,
\* level, degree and true scale.  They can be multiplied as well, at degree 1,
\* unless both would be at the last modulus with a product to rescale.
CanCombine(a, b) ==
    LET sum == AdjustForAddOrSub(a, b)
        product == AdjustForMult(a, b)
    IN  /\ ~Thrown(sum)
        /\ Aligned(sum[1], sum[2])
        /\ IF Thrown(product)
           THEN sum[1].towers = 1 /\ sum[1].deg = 2
           ELSE Aligned(product[1], product[2]) /\ product[1].deg = 1

\* Under an automatic technique any two operands are "automatically brought to
\* the correct depth and level before the operation"
\* (pke/examples/advanced-real-numbers.cpp:281).
OperandsAlign ==
    ~manual => \A r, s \in Regs \ spoilt :
        Plain(reg[r]) /\ Plain(reg[s]) => CanCombine(reg[r], reg[s])

\* Does the adjustment of these two ask for the factor of a product?
NeedsProductFactor(a, b) ==
    \/ a.level < b.level /\ b.deg = 1 /\ (a.deg = 1 \/ a.level + 1 < b.level)
    \/ b.level < a.level /\ a.deg = 1 /\ (b.deg = 1 \/ b.level + 1 < a.level)

\* They are, if neither comes from an object that was rescaled twice, except
\* where the one factor of FIXEDAUTO is taken for that of a product in CKKS.
OperandsAlignByTable ==
    ~manual => \A r, s \in Regs \ spoilt :
        \/ ~Plain(reg[r]) \/ ~Plain(reg[s])
        \/ FactorMissing /\ NeedsProductFactor(reg[r], reg[s])
        \/ CanCombine(reg[r], reg[s])

\* A real constant is added at the scale the ciphertext has, for every level
\* and degree a program reaches without rescaling more often than it
\* multiplies, be it by Rescale or by MultMutableSelf.
ConstantsMatch ==
    scheme = "CKKS" => \A r \in Regs \ spoilt :
        Plain(reg[r]) /\ reg[r].deg \in 1..MaxDeg
          => AddedConstantScale(reg[r]) = reg[r].true
=============================================================================
