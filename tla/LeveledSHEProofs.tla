-------------------------- MODULE LeveledSHEProofs --------------------------
(***************************************************************************)
(* TowersMatchLevel, DegreeTellsScale, ConstantsMatch and                   *)
(* OperandsAlignByTable for any number of ciphertexts, moduli and           *)
(* operations.  The argument has two parts.  IInv is about towers, levels   *)
(* and degrees.  The towers of every ciphertext are accounted for (Counted),*)
(* whatever its degree; and the degree is 1 or 2 under an automatic         *)
(* technique (Kept), unless the ciphertext is spoilt: were it something     *)
(* else, an adjustment would not bring two operands together.  AllHonest is *)
(* about scales and rests on IInv: a plain ciphertext that is not spoilt    *)
(* has the scale that its level and degree should have (Nominal), and under *)
(* FIXEDMANUAL an exponent of which the degree is the remainder.  In        *)
(* between stand the algebra of the scales and the unfolding of the table   *)
(* of factors.                                                              *)
(***************************************************************************)
EXTENDS LeveledSHE, NaturalsInduction, WellFoundedInduction, TLAPS

Fields == {"towers", "level", "deg", "scale", "true", "thrown", "torn", "off"}

\* The towers of a ciphertext are accounted for.
Counted(c) ==
    /\ DOMAIN c = Fields
    /\ c.towers \in 1..L
    /\ c.level \in Int
    /\ c.deg \in Nat
    /\ c.thrown \in BOOLEAN
    /\ c.torn \in BOOLEAN
    /\ ~c.torn => c.towers = L - c.level
    /\ c.torn => manual /\ scheme = "CKKS"

\* What an operation may leave, whether or not it threw.
Kept(c) == Counted(c) /\ (~manual => c.deg \in {1, 2})

\* What an operation starts from.
Sound(c) == Kept(c) /\ ~c.thrown

Context == scheme \in Schemes /\ technique \in Techniques

\* What a spoilt one is as well.
Ready(c) == Counted(c) /\ ~c.thrown

IInv ==
    /\ Context
    /\ DOMAIN reg = Regs
    /\ \A r \in Regs : Ready(reg[r])
    /\ \A r \in Regs \ spoilt : Sound(reg[r])
-----------------------------------------------------------------------------
(* One ciphertext.                                                           *)

LEMMA Wraps ==
    /\ \A n \in Int : n % Word \in Nat
    /\ \A n \in 0..3 : n % Word = n
  <1>1. Word \in Nat /\ Word > 3
    BY WordAssumption, LAssumption
  <1>2. \A n \in Int : n % Word \in Nat
    BY <1>1
  <1>3. 0 % Word = 0 /\ 1 % Word = 1 /\ 2 % Word = 2 /\ 3 % Word = 3
    BY <1>1
  <1>4. \A n \in 0..3 : n % Word = n
    <2>1. \A n \in 0..3 : n = 0 \/ n = 1 \/ n = 2 \/ n = 3
      OBVIOUS
    <2>2. QED
      BY <1>3, <2>1
  <1>5. QED
    BY <1>2, <1>4

LEMMA FreshSound ==
    ASSUME Context, NEW l \in EncodeLevels[scheme] \union {0}, NEW d \in {1, 2}
    PROVE  Sound(Fresh(l, d))
  <1> DEFINE c == Fresh(l, d)
             k == IF scheme = "BGV" /\ ~flexible THEN 0 ELSE l
  <1>1. l \in 0..(L-1) /\ L \in Nat /\ L > 2
    BY LevelsAssumption, LAssumption DEF Context
  <1>2. scheme = "BGV" => l = 0
    BY BGVAssumption DEF Context
  <1>3. k \in 0..(L-1) /\ (scheme = "BGV" => k = 0)
    BY <1>1, <1>2
  <1>4. /\ DOMAIN c = Fields /\ c.towers = (IF scheme = "BGV" THEN L ELSE L - k)
        /\ c.level = k /\ c.deg \in {1, 2} /\ c.thrown = FALSE /\ c.torn = FALSE
    BY DEF Fresh, Fields
  <1>5. QED
    <2> HIDE DEF c, k
    <2>1. c.towers = L - k /\ c.towers \in 1..L
      BY <1>1, <1>3, <1>4
    <2>2. QED
      <3>1. c.torn \in BOOLEAN /\ c.thrown \in BOOLEAN /\ ~c.torn /\ ~c.thrown
        BY <1>4
      <3>2. c.towers = L - c.level /\ c.level \in Int /\ c.deg \in Nat
        BY <1>3, <1>4, <2>1
      <3>3. Sound(c)
        BY <1>4, <2>1, <3>1, <3>2, Zenon DEF Sound, Kept, Counted
      <3>4. QED
        BY <3>3 DEF c

LEMMA EvalMultCoreKeeps ==
    ASSUME NEW c, NEW x, Counted(c)
    PROVE  LET d == EvalMultCore(c, x) IN
           /\ Counted(d)
           /\ d.towers = c.towers /\ d.level = c.level
           /\ d.torn = c.torn /\ d.thrown = c.thrown
           /\ ~c.thrown /\ c.deg \in {1, 2} => d.deg = c.deg + 1
  <1> DEFINE d == EvalMultCore(c, x)
  <1>1. /\ DOMAIN d = Fields /\ d.towers = c.towers /\ d.level = c.level
        /\ d.torn = c.torn /\ d.thrown = c.thrown
        /\ d.deg = IF c.thrown THEN c.deg ELSE (c.deg + 1) % Word
    BY DEF EvalMultCore, Do, Counted, Fields
  <1> HIDE DEF d
  <1>2. d.deg \in Nat /\ (~c.thrown /\ c.deg \in {1, 2} => d.deg = c.deg + 1)
    BY <1>1, Wraps DEF Counted
  <1>3. Counted(d)
    BY <1>1, <1>2 DEF Counted
  <1>4. QED
    BY <1>1, <1>2, <1>3 DEF d

\* Towers and level that change together.
LEMMA Shifted ==
    ASSUME NEW c, Counted(c), NEW d, NEW n \in Int, DOMAIN d = Fields,
           d.towers \in 1..L, d.towers = c.towers - n, d.level = c.level + n,
           d.deg \in Nat, d.torn = c.torn, d.thrown = FALSE
    PROVE  Counted(d)
  <1>1. L \in Int /\ c.towers \in Int /\ c.level \in Int
    BY LAssumption DEF Counted
  <1>2. d.level \in Int
    BY <1>1
  <1>3. c.towers = L - c.level => d.towers = L - d.level
    BY <1>1
  <1>4. d.torn \in BOOLEAN /\ d.thrown \in BOOLEAN
    BY Zenon DEF Counted
  <1>5. QED
    BY <1>2, <1>3, <1>4, Zenon DEF Counted

\* A rescaling for which there are towers enough.
LEMMA ModReduceFits ==
    ASSUME NEW c, Counted(c), ~c.thrown, NEW n \in Nat \ {0}, n < c.towers
    PROVE  LET d == ModReduce(c, n) IN
           /\ Counted(d)
           /\ d.towers = c.towers - n /\ d.level = c.level + n
           /\ d.torn = c.torn /\ ~d.thrown
           /\ d.deg = (c.deg - n) % Word
  <1> DEFINE d == ModReduce(c, n)
  <1>0. /\ L \in Nat /\ c.towers \in 1..L /\ c.level \in Int /\ c.deg \in Nat
        /\ n \in Int
    BY LAssumption DEF Counted
  <1>1. /\ DOMAIN d = Fields /\ d.towers = c.towers - n /\ d.level = c.level + n
        /\ d.torn = c.torn /\ d.thrown = FALSE /\ d.deg = (c.deg - n) % Word
    BY SMTT(90) DEF ModReduce, Do, Counted, Fields
  <1> HIDE DEF d
  <1>2. d.deg \in Nat /\ d.towers \in 1..L
    BY <1>0, <1>1, Wraps
  <1>3. Counted(d)
    BY <1>0, <1>1, <1>2, Shifted, Zenon
  <1>4. QED
    BY <1>1, <1>3 DEF d

\* A rescaling for which there are not.
LEMMA ModReduceThrows ==
    ASSUME NEW c, Counted(c), ~c.thrown, NEW n \in Nat \ {0}, ~(n < c.towers)
    PROVE  ModReduce(c, n).thrown
  <1> DEFINE d == ModReduce(c, n)
  <1>1. CASE scheme = "BGV"
    <2>1. d.thrown = TRUE
      BY SMTT(60), <1>1 DEF ModReduce, Do, Throw, Counted, Fields
    <2>2. QED
      BY <2>1
  <1>2. CASE scheme # "BGV"
    <2>1. d.thrown = TRUE
      BY SMTT(90), <1>2 DEF ModReduce, Do, Throw, Counted, Fields
    <2>2. QED
      BY <2>1
  <1>3. QED
    BY <1>1, <1>2

\* A rescaling by one level, or by several under FIXEDMANUAL.
LEMMA ModReduceKeeps ==
    ASSUME Context, NEW c, Counted(c), ~c.thrown, NEW n \in Nat \ {0}, manual \/ n = 1
    PROVE  LET d == ModReduce(c, n) IN
           /\ Counted(d)
           /\ n < c.towers => /\ d.towers = c.towers - n /\ d.level = c.level + n
                              /\ d.torn = c.torn /\ ~d.thrown
                              /\ d.deg = (c.deg - n) % Word
           /\ ~(n < c.towers) => d.thrown /\ d.deg = c.deg
  <1> DEFINE d == ModReduce(c, n)
  <1>0. /\ L \in Nat /\ c.towers \in 1..L /\ c.level \in Int /\ c.deg \in Nat
        /\ n \in Int
    BY LAssumption DEF Counted
  <1>1. CASE n < c.towers
    BY <1>1, ModReduceFits, Zenon
  <1>2. CASE ~(n < c.towers) /\ scheme = "BGV"
    <2>1. /\ DOMAIN d = Fields /\ d.towers = c.towers /\ d.level = c.level
          /\ d.torn = c.torn /\ d.thrown = TRUE /\ d.deg = c.deg
      BY SMTT(60), <1>2 DEF ModReduce, Do, Throw, Counted, Fields
    <2> HIDE DEF d
    <2>2. Counted(d)
      BY <2>1 DEF Counted
    <2>3. QED
      BY <1>2, <2>1, <2>2 DEF d
  <1>3. CASE ~(n < c.towers) /\ scheme # "BGV"
    <2> DEFINE drops == c.towers - 1
    <2>1. /\ DOMAIN d = Fields /\ d.towers = c.towers - drops /\ d.level = c.level
          /\ d.torn = (c.torn \/ drops > 0) /\ d.thrown = TRUE /\ d.deg = c.deg
      BY SMTT(90), <1>3 DEF ModReduce, Do, Throw, Counted, Fields
    <2>2. drops > 0 => manual
      BY <1>0, <1>3
    <2>3. scheme = "CKKS"
      BY <1>3, SchemesAssumption DEF Context
    <2> HIDE DEF d
    <2>4. Counted(d)
      <3>1. d.towers \in 1..L
        BY <1>0, <2>1
      <3>2. CASE drops > 0
        <4>1. d.torn = TRUE /\ manual
          BY <2>1, <2>2, <3>2
        <4>2. QED
          BY <1>0, <2>1, <2>3, <3>1, <4>1 DEF Counted
      <3>3. CASE ~(drops > 0)
        <4>1. d.torn = c.torn /\ d.towers = c.towers
          <5>1. drops > 0 <=> FALSE
            BY <3>3
          <5>2. d.torn = c.torn
            BY <2>1, <5>1, Zenon DEF Counted
          <5>3. QED
            BY <1>0, <2>1, <3>3, <5>2
        <4>2. QED
          BY <2>1, <4>1, Zenon DEF Counted
      <3>4. QED
        BY <3>2, <3>3
    <2>5. QED
      BY <1>3, <2>1, <2>4 DEF d
  <1>4. QED
    BY <1>1, <1>2, <1>3

LEMMA LevelReduceKeeps ==
    ASSUME NEW c, Counted(c), ~c.thrown, NEW n \in Nat
    PROVE  LET d == LevelReduce(c, n) IN
           /\ Counted(d) /\ d.deg = c.deg /\ d.torn = c.torn
           /\ n < c.towers => /\ d.towers = c.towers - n /\ d.level = c.level + n
                              /\ ~d.thrown
           /\ ~(n < c.towers) => d.thrown
  <1> DEFINE d == LevelReduce(c, n)
  <1>0. L \in Nat /\ c.towers \in 1..L /\ c.level \in Int /\ n \in Int
    BY LAssumption DEF Counted
  <1>1. CASE n < c.towers
    <2>1. /\ DOMAIN d = Fields /\ d.towers = c.towers - n /\ d.level = c.level + n
          /\ d.torn = c.torn /\ d.thrown = FALSE /\ d.deg = c.deg
      BY <1>1 DEF LevelReduce, Do, Counted, Fields
    <2> HIDE DEF d
    <2>2. d.towers \in 1..L /\ d.deg \in Nat
      BY <1>0, <1>1, <2>1 DEF Counted
    <2>3. Counted(d)
      BY <1>0, <2>1, <2>2, Shifted, Zenon
    <2>4. QED
      BY <1>1, <2>1, <2>3 DEF d
  <1>2. CASE ~(n < c.towers)
    <2>1. /\ DOMAIN d = Fields /\ d.towers = c.towers /\ d.level = c.level
          /\ d.torn = c.torn /\ d.thrown = TRUE /\ d.deg = c.deg
      BY <1>2 DEF LevelReduce, Do, Throw, Counted, Fields
    <2> HIDE DEF d
    <2>2. Counted(d)
      BY <2>1 DEF Counted
    <2>3. QED
      BY <1>2, <2>1, <2>2 DEF d
  <1>3. QED
    BY <1>1, <1>2
-----------------------------------------------------------------------------
(* The adjustment of two ciphertexts under an automatic technique.           *)

\* An intact ciphertext of t towers, level l and degree d.
At(c, t, l, d) ==
    /\ Counted(c)
    /\ c.towers = t /\ c.level = l /\ c.deg = d
    /\ c.torn = FALSE /\ c.thrown = FALSE

LEMMA SoundAt ==
    ASSUME NEW c, ~manual
    PROVE  /\ Sound(c) => At(c, L - c.level, c.level, c.deg) /\ c.deg \in {1, 2}
                          /\ c.level \in Int /\ L - c.level \in 1..L
           /\ \A t, l \in Int, d \in {1, 2} : At(c, t, l, d) => Sound(c)
  <1>1. Sound(c) => At(c, L - c.level, c.level, c.deg)
    BY Zenon DEF Sound, Kept, Counted, At
  <1>2. Sound(c) => /\ c.deg \in {1, 2} /\ c.level \in Int /\ L - c.level \in 1..L
    BY <1>1, Zenon DEF Sound, Kept, Counted, At
  <1>3. \A t, l \in Int, d \in {1, 2} : At(c, t, l, d) => Sound(c)
    BY Zenon DEF Sound, Kept, At
  <1>4. QED
    BY <1>1, <1>2, <1>3

LEMMA CorrectAt ==
    ASSUME NEW c, NEW t \in Int, NEW l \in Int, NEW d \in {1, 2}, At(c, t, l, d), NEW x
    PROVE  At(EvalMultCore(c, x), t, l, d + 1)
  <1> DEFINE e == EvalMultCore(c, x)
  <1>1. Counted(c) /\ c.thrown = FALSE /\ c.deg = d
    BY DEF At
  <1>2. /\ Counted(e) /\ e.towers = c.towers /\ e.level = c.level
        /\ e.torn = c.torn /\ e.thrown = c.thrown
        /\ ~c.thrown /\ c.deg \in {1, 2} => e.deg = c.deg + 1
    BY <1>1, EvalMultCoreKeeps, Zenon
  <1> HIDE DEF e
  <1>3. e.deg = d + 1
    BY <1>1, <1>2
  <1>4. At(e, t, l, d + 1)
    BY <1>2, <1>3, Zenon DEF At
  <1>5. QED
    BY <1>4 DEF e

LEMMA ReduceAt ==
    ASSUME Context, NEW c, NEW t \in Int, NEW l \in Int, NEW d \in 1..3,
           At(c, t, l, d), t > 1
    PROVE  At(ModReduce(c, 1), t - 1, l + 1, d - 1)
  <1> DEFINE e == ModReduce(c, 1)
  <1>1. Counted(c) /\ ~c.thrown /\ c.deg = d /\ c.towers = t /\ c.level = l /\ c.torn = FALSE
    BY DEF At
  <1>2. 1 \in Nat \ {0} /\ 1 < c.towers
    BY <1>1
  <1>3. /\ Counted(e) /\ e.towers = c.towers - 1 /\ e.level = c.level + 1
        /\ e.torn = c.torn /\ ~e.thrown /\ e.deg = (c.deg - 1) % Word
    BY <1>1, <1>2, ModReduceKeeps, Zenon
  <1> HIDE DEF e
  <1>4. (d - 1) % Word = d - 1
    BY Wraps
  <1>5. e.thrown = FALSE
    BY <1>3, Zenon DEF Counted
  <1>6. At(e, t - 1, l + 1, d - 1)
    BY <1>1, <1>3, <1>4, <1>5, Zenon DEF At
  <1>7. QED
    BY <1>6 DEF e

\* Levels are skipped when there are some to skip.
LEMMA SkipAt ==
    ASSUME NEW c, NEW t \in Int, NEW l \in Int, NEW d \in 1..3, At(c, t, l, d),
           NEW n \in Nat, n < t
    PROVE  At(IF n > 0 THEN LevelReduce(c, n) ELSE c, t - n, l + n, d)
  <1> DEFINE e == LevelReduce(c, n)
  <1>1. CASE n > 0
    <2>1. Counted(c) /\ ~c.thrown /\ c.deg = d /\ c.towers = t /\ c.level = l /\ c.torn = FALSE
      BY DEF At
    <2>2. n < c.towers
      BY <2>1
    <2>3. /\ Counted(e) /\ e.towers = c.towers - n /\ e.level = c.level + n
          /\ e.torn = c.torn /\ ~e.thrown /\ e.deg = c.deg
      BY <2>1, <2>2, LevelReduceKeeps, Zenon
    <2> HIDE DEF e
    <2>4. e.thrown = FALSE
      BY <2>3, Zenon DEF Counted
    <2>5. At(e, t - n, l + n, d)
      BY <2>1, <2>3, <2>4, Zenon DEF At
    <2>6. QED
      BY <1>1, <2>5 DEF e
  <1>2. CASE ~(n > 0)
    <2>1. t - n = t /\ l + n = l
      BY <1>2
    <2>2. QED
      BY <1>2, <2>1
  <1>3. QED
    BY <1>1, <1>2

\* The scale is taken over from the other operand.
LEMMA MatchAt ==
    ASSUME NEW c, NEW t \in Int, NEW l \in Int, NEW d \in 1..3, At(c, t, l, d),
           NEW s, NEW off, NEW other
    PROVE  At(Do(c, [c EXCEPT !.scale = s, !.off = @ \/ off \/ other]), t, l, d)
  <1> DEFINE e == [c EXCEPT !.scale = s, !.off = @ \/ off \/ other]
  <1>1. Counted(c) /\ c.thrown = FALSE /\ DOMAIN c = Fields
    BY DEF At, Counted
  <1>2. Do(c, e) = e
    BY <1>1 DEF Do
  <1>3. /\ DOMAIN e = Fields /\ e.towers = c.towers /\ e.level = c.level
        /\ e.torn = c.torn /\ e.thrown = c.thrown /\ e.deg = c.deg
    BY <1>1 DEF Fields
  <1> HIDE DEF e
  <1>4. At(e, t, l, d)
    BY <1>3, Zenon DEF At, Counted
  <1>5. QED
    BY <1>2, <1>4 DEF e

\* The operand of the lower level comes out at the level and degree of the
\* other; on the way it never runs out of towers.
LEMMA RaiseAt ==
    ASSUME Context, ~manual, NEW c, NEW o, Sound(c), Sound(o), c.level < o.level
    PROVE  At(Raise(c, o), L - o.level, o.level, o.deg)
  <1> DEFINE t == L - c.level
             l == c.level
             gap == o.level - c.level
             q == ModReduceFactor(c.towers - 1)
             big == ScalingFactorBig(o.level - 1)
             Correct(x) == EvalMultCore(c, Over(x, c.scale))
             Skip(d, n) == IF n > 0 THEN LevelReduce(d, n) ELSE d
             Match(d, off) == Do(d, [d EXCEPT !.scale = o.scale,
                                              !.off = @ \/ off \/ o.off])
  <1>1. /\ At(c, t, l, c.deg) /\ c.deg \in {1, 2} /\ l \in Int /\ t \in 1..L
        /\ o.deg \in {1, 2} /\ o.level \in Int /\ L - o.level \in 1..L
    BY SoundAt
  <1>2. L \in Nat
    BY LAssumption
  <1>3. /\ gap \in Nat /\ gap >= 1 /\ t = (L - o.level) + gap /\ t > gap
        /\ t - gap = L - o.level /\ l + gap = o.level /\ t \in Int
    BY <1>1, <1>2
  <1>4. \A x : At(Correct(x), t, l, c.deg + 1)
    BY <1>1, <1>3, CorrectAt
  <1>5. ASSUME NEW d, NEW off, NEW g \in {1, 2}, At(d, L - o.level, o.level, g)
         PROVE  At(Match(d, off), L - o.level, o.level, g)
    <2>1. L - o.level \in Int /\ o.level \in Int /\ g \in 1..3
      BY <1>1, <1>2
    <2>2. QED
      BY <1>5, <2>1, MatchAt, Zenon
  <1> HIDE DEF Match
  <1>6. CASE c.deg = 2 /\ o.deg = 2
    <2> DEFINE a == Correct(Times(o.scale, q))
               b == ModReduce(a, 1)
               d == Skip(b, gap - 1)
    <2>1. Raise(c, o) = Match(d, FALSE)
      BY <1>6 DEF Raise, Match
    <2>2. At(a, t, l, 3)
      BY <1>4, <1>6
    <2> HIDE DEF a
    <2>3. At(b, t - 1, l + 1, 2)
      <3>1. At(b, t - 1, l + 1, 3 - 1)
        BY <1>1, <1>3, <2>2, ReduceAt
      <3>2. QED
        BY <3>1
    <2> HIDE DEF b
    <2>4. At(d, (t - 1) - (gap - 1), (l + 1) + (gap - 1), 2)
      <3>1. gap - 1 \in Nat /\ gap - 1 < t - 1 /\ t - 1 \in Int /\ l + 1 \in Int
        BY <1>1, <1>3
      <3>2. QED
        BY <2>3, <3>1, SkipAt
    <2> HIDE DEF d
    <2>5. (t - 1) - (gap - 1) = L - o.level /\ (l + 1) + (gap - 1) = o.level
      BY <1>1, <1>2, <1>3
    <2>6. At(d, L - o.level, o.level, 2)
      BY <2>4, <2>5
    <2>7. At(Match(d, FALSE), L - o.level, o.level, 2)
      BY <1>5, <2>6
    <2>8. QED
      BY <1>6, <2>1, <2>7
  <1>7. CASE c.deg = 2 /\ o.deg = 1 /\ gap = 1
    <2>1. Raise(c, o) = ModReduce(c, 1)
      BY <1>7 DEF Raise
    <2>2. At(ModReduce(c, 1), t - 1, l + 1, 2 - 1)
      BY <1>1, <1>3, <1>7, ReduceAt
    <2>3. t - 1 = L - o.level /\ l + 1 = o.level /\ 2 - 1 = o.deg
      BY <1>3, <1>7
    <2>4. QED
      BY <2>1, <2>2, <2>3
  <1>8. CASE c.deg = 2 /\ o.deg = 1 /\ gap # 1
    <2> DEFINE a == Correct(Times(big, q))
               b == ModReduce(a, 1)
               d == Skip(b, gap - 2)
               e == ModReduce(d, 1)
    <2>1. Raise(c, o) = Match(e, FactorMissing)
      BY <1>8 DEF Raise, Match
    <2>2. At(a, t, l, 3)
      BY <1>4, <1>8
    <2> HIDE DEF a
    <2>3. At(b, t - 1, l + 1, 2)
      <3>1. At(b, t - 1, l + 1, 3 - 1)
        BY <1>1, <1>3, <2>2, ReduceAt
      <3>2. QED
        BY <3>1
    <2> HIDE DEF b
    <2>4. At(d, (t - 1) - (gap - 2), (l + 1) + (gap - 2), 2)
      <3>1. gap - 2 \in Nat /\ gap - 2 < t - 1 /\ t - 1 \in Int /\ l + 1 \in Int
        BY <1>1, <1>3, <1>8
      <3>2. QED
        BY <2>3, <3>1, SkipAt
    <2> HIDE DEF d
    <2>5. /\ (t - 1) - (gap - 2) = L - o.level + 1 /\ (l + 1) + (gap - 2) = o.level - 1
          /\ L - o.level + 1 \in Int /\ o.level - 1 \in Int /\ L - o.level + 1 > 1
          /\ (L - o.level + 1) - 1 = L - o.level /\ (o.level - 1) + 1 = o.level
      BY <1>1, <1>2, <1>3
    <2>6. At(d, L - o.level + 1, o.level - 1, 2)
      BY <2>4, <2>5
    <2>7. At(e, (L - o.level + 1) - 1, (o.level - 1) + 1, 2 - 1)
      BY <2>5, <2>6, ReduceAt
    <2> HIDE DEF e
    <2>8. At(e, L - o.level, o.level, 1)
      BY <2>5, <2>7
    <2>9. At(Match(e, FactorMissing), L - o.level, o.level, 1)
      BY <1>5, <2>8
    <2>10. QED
      BY <1>8, <2>1, <2>9
  <1>9. CASE c.deg = 1 /\ o.deg = 2
    <2> DEFINE a == Correct(o.scale)
               d == Skip(a, gap)
    <2>1. Raise(c, o) = Match(d, FALSE)
      BY <1>9 DEF Raise, Match
    <2>2. At(a, t, l, 2)
      BY <1>4, <1>9
    <2> HIDE DEF a
    <2>3. At(d, t - gap, l + gap, 2)
      BY <1>1, <1>3, <2>2, SkipAt
    <2> HIDE DEF d
    <2>4. At(d, L - o.level, o.level, 2)
      BY <1>3, <2>3
    <2>5. At(Match(d, FALSE), L - o.level, o.level, 2)
      BY <1>5, <2>4
    <2>6. QED
      BY <1>9, <2>1, <2>5
  <1>10. CASE c.deg = 1 /\ o.deg = 1
    <2> DEFINE a == Correct(big)
               d == Skip(a, gap - 1)
               e == ModReduce(d, 1)
    <2>1. Raise(c, o) = Match(e, FactorMissing)
      BY <1>10 DEF Raise, Match
    <2>2. At(a, t, l, 2)
      BY <1>4, <1>10
    <2> HIDE DEF a
    <2>3. At(d, t - (gap - 1), l + (gap - 1), 2)
      <3>1. gap - 1 \in Nat /\ gap - 1 < t /\ 2 \in 1..3 /\ l \in Int /\ t \in Int
        BY <1>1, <1>3
      <3>2. QED
        BY <1>1, <1>3, <2>2, <3>1, SkipAt, Zenon
    <2> HIDE DEF d
    <2>4. /\ t - (gap - 1) = L - o.level + 1 /\ l + (gap - 1) = o.level - 1
          /\ L - o.level + 1 \in Int /\ o.level - 1 \in Int /\ L - o.level + 1 > 1
          /\ (L - o.level + 1) - 1 = L - o.level /\ (o.level - 1) + 1 = o.level
      BY <1>1, <1>2, <1>3
    <2>5. At(d, L - o.level + 1, o.level - 1, 2)
      BY <2>3, <2>4
    <2>6. At(e, (L - o.level + 1) - 1, (o.level - 1) + 1, 2 - 1)
      BY <2>4, <2>5, ReduceAt
    <2> HIDE DEF e
    <2>7. At(e, L - o.level, o.level, 1)
      BY <2>4, <2>6
    <2>8. At(Match(e, FactorMissing), L - o.level, o.level, 1)
      BY <1>5, <2>7
    <2>9. QED
      BY <1>10, <2>1, <2>8
  <1>11. QED
    BY <1>1, <1>6, <1>7, <1>8, <1>9, <1>10

LEMMA RaiseDegreeAt ==
    ASSUME ~manual, NEW c, Sound(c), c.deg = 1
    PROVE  At(RaiseDegree(c), L - c.level, c.level, 2)
  <1>1. /\ At(c, L - c.level, c.level, c.deg) /\ c.level \in Int
        /\ L - c.level \in 1..L
    BY SoundAt
  <1>2. At(RaiseDegree(c), L - c.level, c.level, 1 + 1)
    BY <1>1, CorrectAt DEF RaiseDegree
  <1>3. QED
    BY <1>2

\* Both operands keep what their fields say and come out at one degree.
LEMMA DepthAdjusted ==
    ASSUME Context, ~manual, NEW a, NEW b, Sound(a), Sound(b)
    PROVE  LET p == AdjustLevelsAndDepth(a, b) IN
           /\ Sound(p[1]) /\ Sound(p[2])
           /\ p[1].deg = p[2].deg /\ p[1].level = p[2].level
  <1> DEFINE p == AdjustLevelsAndDepth(a, b)
  <1>1. /\ a.deg \in {1, 2} /\ a.level \in Int /\ L - a.level \in 1..L
        /\ b.deg \in {1, 2} /\ b.level \in Int /\ L - b.level \in 1..L
    BY SoundAt
  <1>2. \A c, t, l, d : t \in Int /\ l \in Int /\ d \in {1, 2} /\ At(c, t, l, d)
                           => Sound(c) /\ c.deg = d /\ c.level = l
    <2>1. \A c, t, l, d : At(c, t, l, d) => c.deg = d /\ c.level = l
      BY DEF At
    <2>2. QED
      BY <2>1, SoundAt, Zenon
  <1>3. CASE a.level < b.level
    <2>1. p = <<Raise(a, b), b>>
      BY <1>3 DEF AdjustLevelsAndDepth
    <2>2. At(Raise(a, b), L - b.level, b.level, b.deg)
      BY <1>3, RaiseAt
    <2>3. /\ Sound(Raise(a, b)) /\ Raise(a, b).deg = b.deg
          /\ Raise(a, b).level = b.level
      BY <1>1, <1>2, <2>2
    <2>4. QED
      BY <2>1, <2>3
  <1>4. CASE a.level > b.level
    <2>1. p = <<a, Raise(b, a)>> /\ b.level < a.level
      BY <1>1, <1>4 DEF AdjustLevelsAndDepth
    <2>2. At(Raise(b, a), L - a.level, a.level, a.deg)
      BY <2>1, RaiseAt
    <2>3. /\ Sound(Raise(b, a)) /\ Raise(b, a).deg = a.deg
          /\ Raise(b, a).level = a.level
      BY <1>1, <1>2, <2>2
    <2>4. QED
      BY <2>1, <2>3
  <1>5. CASE a.level = b.level /\ a.deg < b.deg
    <2>1. p = <<RaiseDegree(a), b>> /\ a.deg = 1 /\ b.deg = 2
      BY <1>1, <1>5 DEF AdjustLevelsAndDepth
    <2>2. At(RaiseDegree(a), L - a.level, a.level, 2)
      BY <2>1, RaiseDegreeAt
    <2>3. Sound(RaiseDegree(a)) /\ RaiseDegree(a).deg = 2 /\ RaiseDegree(a).level = a.level
      BY <1>1, <1>2, <2>2
    <2>4. QED
      BY <1>5, <2>1, <2>3
  <1>6. CASE a.level = b.level /\ b.deg < a.deg
    <2>1. p = <<a, RaiseDegree(b)>> /\ b.deg = 1 /\ a.deg = 2
      BY <1>1, <1>6 DEF AdjustLevelsAndDepth
    <2>2. At(RaiseDegree(b), L - b.level, b.level, 2)
      BY <2>1, RaiseDegreeAt
    <2>3. Sound(RaiseDegree(b)) /\ RaiseDegree(b).deg = 2 /\ RaiseDegree(b).level = b.level
      BY <1>1, <1>2, <2>2
    <2>4. QED
      BY <1>6, <2>1, <2>3
  <1>7. CASE a.level = b.level /\ a.deg = b.deg
    <2>1. p = <<a, b>>
      BY <1>1, <1>7 DEF AdjustLevelsAndDepth
    <2>2. QED
      BY <1>7, <2>1
  <1>8. QED
    BY <1>1, <1>3, <1>4, <1>5, <1>6, <1>7

\* Under FIXEDMANUAL the operand of more towers drops the difference.
LEMMA LevelsAdjusted ==
    ASSUME manual, NEW a, NEW b, Sound(a), Sound(b)
    PROVE  LET p == AdjustLevels(a, b) IN Sound(p[1]) /\ Sound(p[2])
  <1> DEFINE p == AdjustLevels(a, b)
  <1>1. \A c, n : Sound(c) /\ n \in Nat /\ n < c.towers => Sound(LevelReduce(c, n))
    BY LevelReduceKeeps, Zenon DEF Sound, Kept
  <1>2. a.towers \in 1..L /\ b.towers \in 1..L /\ L \in Nat
    BY LAssumption DEF Sound, Kept, Counted
  <1>3. CASE a.towers < b.towers
    <2>1. p = <<a, LevelReduce(b, b.towers - a.towers)>>
      BY <1>3 DEF AdjustLevels
    <2>2. b.towers - a.towers \in Nat /\ b.towers - a.towers < b.towers
      BY <1>2, <1>3
    <2>3. QED
      BY <1>1, <2>1, <2>2
  <1>4. CASE a.towers > b.towers
    <2>1. p = <<LevelReduce(a, a.towers - b.towers), b>>
      BY <1>2, <1>4 DEF AdjustLevels
    <2>2. a.towers - b.towers \in Nat /\ a.towers - b.towers < a.towers
      BY <1>2, <1>4
    <2>3. QED
      BY <1>1, <2>1, <2>2
  <1>5. CASE a.towers = b.towers
    <2>1. p = <<a, b>>
      BY <1>2, <1>5 DEF AdjustLevels
    <2>2. QED
      BY <2>1
  <1>6. QED
    BY <1>2, <1>3, <1>4, <1>5

LEMMA AdjustedForAdd ==
    ASSUME Context, NEW a, NEW b, Sound(a), Sound(b)
    PROVE  LET p == AdjustForAddOrSub(a, b) IN Sound(p[1]) /\ Sound(p[2])
  <1>1. CASE manual
    BY <1>1, LevelsAdjusted DEF AdjustForAddOrSub
  <1>2. CASE ~manual
    BY <1>2, DepthAdjusted DEF AdjustForAddOrSub
  <1>3. QED
    BY <1>1, <1>2

\* A rescaling by one level of a degree that is at least 1.
LEMMA RescaledOnce ==
    ASSUME Context, NEW c, Sound(c), c.deg = 2
    PROVE  LET d == ModReduce(c, 1) IN Kept(d) /\ (~d.thrown => d.deg = 1)
  <1> DEFINE d == ModReduce(c, 1)
  <1>1. Counted(c) /\ ~c.thrown /\ 1 \in Nat \ {0}
    BY DEF Sound, Kept
  <1>2. /\ Counted(d)
        /\ 1 < c.towers => d.deg = (c.deg - 1) % Word /\ ~d.thrown
        /\ ~(1 < c.towers) => d.thrown /\ d.deg = c.deg
    BY <1>1, ModReduceKeeps, Zenon
  <1> HIDE DEF d
  <1>3. (c.deg - 1) % Word = 1
    BY Wraps
  <1>4. d.deg \in {1, 2} /\ (~d.thrown => d.deg = 1)
    BY <1>2, <1>3
  <1>5. Kept(d)
    BY <1>2, <1>4 DEF Kept
  <1>6. QED
    BY <1>4, <1>5 DEF d

\* Two factors of an automatic technique have degree 1, or the call throws.
LEMMA AdjustedForMult ==
    ASSUME Context, NEW a, NEW b, Sound(a), Sound(b)
    PROVE  LET p == AdjustForMult(a, b) IN
           /\ Kept(p[1]) /\ Kept(p[2])
           /\ ~Thrown(p) /\ ~manual => p[1].deg = 1 /\ p[2].deg = 1
  <1>1. CASE manual
    <2>1. \A c : Sound(c) => Kept(c)
      BY DEF Sound
    <2>2. QED
      BY <1>1, <2>1, LevelsAdjusted DEF AdjustForMult
  <1>2. CASE ~manual
    <2> DEFINE p == AdjustLevelsAndDepth(a, b)
               r == ModReduce(p[1], 1)
               s == ModReduce(p[2], 1)
               o == AdjustLevelsAndDepthToOne(a, b)
    <2>1. Sound(p[1]) /\ Sound(p[2]) /\ p[1].deg = p[2].deg
      BY <1>2, DepthAdjusted
    <2>2. /\ p[1].deg # 2 => o = p
          /\ p[1].deg = 2 => o = <<r, IF r.thrown THEN p[2] ELSE s>>
      BY DEF AdjustLevelsAndDepthToOne
    <2>3. AdjustForMult(a, b) = o
      BY <1>2 DEF AdjustForMult
    <2> HIDE DEF p
    <2>4. Kept(p[1]) /\ Kept(p[2]) /\ p[1].deg \in {1, 2}
      BY <1>2, <2>1 DEF Sound, Kept
    <2>5. CASE p[1].deg # 2
      <3>1. o = p /\ p[1].deg = 1 /\ p[2].deg = 1
        BY <2>1, <2>2, <2>4, <2>5
      <3>2. QED
        BY <2>3, <2>4, <3>1
    <2>6. CASE p[1].deg = 2
      <3>1. /\ Kept(r) /\ (~r.thrown => r.deg = 1)
            /\ Kept(s) /\ (~s.thrown => s.deg = 1)
        BY <2>1, <2>6, RescaledOnce
      <3> HIDE DEF r, s, o
      <3>2. /\ o[1] = r /\ o[2] = (IF r.thrown THEN p[2] ELSE s)
        BY <2>2, <2>6
      <3>3. Kept(o[1]) /\ Kept(o[2])
        BY <2>4, <3>1, <3>2
      <3>4. ~Thrown(o) => o[1].deg = 1 /\ o[2].deg = 1
        BY <3>1, <3>2 DEF Thrown
      <3>5. QED
        BY <2>3, <3>3, <3>4
    <2>7. QED
      BY <2>5, <2>6
  <1>3. QED
    BY <1>1, <1>2
-----------------------------------------------------------------------------
(* What the operations compute.                                              *)

\* Only towers, level, degree, `torn' and `thrown' matter.
LEMMA KeptAlike ==
    ASSUME NEW c, NEW d, Kept(c), DOMAIN d = Fields, d.towers = c.towers,
           d.level = c.level, d.deg = c.deg, d.torn = c.torn, d.thrown \in BOOLEAN
    PROVE  Kept(d)
  <1>1. Counted(d)
    BY Zenon DEF Kept, Counted
  <1>2. ~manual => d.deg \in {1, 2}
    BY DEF Kept
  <1>3. QED
    BY <1>1, <1>2 DEF Kept

LEMMA CaughtSound ==
    ASSUME NEW c, Kept(c)
    PROVE  Sound(Caught(c))
  <1> DEFINE d == Caught(c)
  <1>1. /\ DOMAIN d = Fields /\ d.towers = c.towers /\ d.level = c.level
        /\ d.deg = c.deg /\ d.torn = c.torn /\ d.thrown = FALSE
    BY DEF Caught, Kept, Counted, Fields
  <1> HIDE DEF d
  <1>2. Kept(d)
    BY <1>1, KeptAlike, Zenon
  <1>3. Sound(d)
    BY <1>1, <1>2 DEF Sound
  <1>4. QED
    BY <1>3 DEF d

LEMMA SumKept ==
    ASSUME NEW a, NEW b, Sound(a), Sound(b)
    PROVE  Kept(Sum(a, b))
  <1> DEFINE d == Sum(a, b)
  <1>1. /\ DOMAIN d = Fields /\ d.towers = a.towers /\ d.level = a.level
        /\ d.deg = a.deg /\ d.torn = (a.torn \/ b.torn) /\ d.thrown = a.thrown
    BY DEF Sum, Sound, Kept, Counted, Fields
  <1> HIDE DEF d
  <1>2. Kept(d)
    BY <1>1, Zenon DEF Sound, Kept, Counted
  <1>3. QED
    BY <1>2 DEF d

LEMMA ProductKept ==
    ASSUME NEW a, NEW b, Kept(a), Kept(b), ~manual => a.deg = 1 /\ b.deg = 1
    PROVE  Kept(Product(a, b))
  <1> DEFINE d == Product(a, b)
  <1>1. /\ DOMAIN d = Fields /\ d.towers = a.towers /\ d.level = a.level
        /\ d.deg = a.deg + b.deg /\ d.torn = (a.torn \/ b.torn)
        /\ d.thrown = a.thrown
    BY DEF Product, Kept, Counted, Fields
  <1>2. a.deg \in Nat /\ b.deg \in Nat
    BY DEF Kept, Counted
  <1> HIDE DEF d
  <1>3. d.deg \in Nat /\ (~manual => d.deg \in {1, 2})
    BY <1>1, <1>2
  <1>4. Kept(d)
    BY <1>1, <1>3, Zenon DEF Kept, Counted
  <1>5. QED
    BY <1>4 DEF d

LEMMA SquareKept ==
    ASSUME Context, NEW c, Sound(c)
    PROVE  LET d == BeforeSquare(c) IN
           Kept(d) /\ (~d.thrown /\ ~manual => d.deg = 1)
  <1> DEFINE d == BeforeSquare(c)
  <1>1. CASE manual \/ c.deg = 1
    <2>1. d = c
      BY <1>1 DEF BeforeSquare
    <2>2. QED
      BY <1>1, <2>1 DEF Sound
  <1>2. CASE ~(manual \/ c.deg = 1)
    <2>1. d = ModReduce(c, 1) /\ c.deg = 2
      BY <1>2 DEF BeforeSquare, Sound, Kept
    <2>2. QED
      BY <2>1, RescaledOnce
  <1>3. QED
    BY <1>1, <1>2

LEMMA MultConstKept ==
    ASSUME Context, NEW c, Sound(c), ~MultConst(c).thrown
    PROVE  Kept(MultConst(c))
  <1> DEFINE d == IF ~manual /\ c.deg = 2 THEN ModReduce(c, 1) ELSE c
             e == EvalMultCore(d, ScalingFactor(d.level))
  <1>1. MultConst(c) = e
    BY DEF MultConst
  <1>2. Kept(d) /\ (~d.thrown /\ ~manual => d.deg = 1)
    <2>1. CASE ~manual /\ c.deg = 2
      BY <2>1, RescaledOnce
    <2>2. CASE ~(~manual /\ c.deg = 2)
      <3>1. d = c /\ (~manual => c.deg = 1)
        BY <2>2 DEF Sound, Kept
      <3>2. QED
        BY <3>1 DEF Sound
    <2>3. QED
      BY <2>1, <2>2
  <1> HIDE DEF d
  <1>3. /\ Counted(e) /\ e.thrown = d.thrown
        /\ ~d.thrown /\ d.deg \in {1, 2} => e.deg = d.deg + 1
    BY <1>2, EvalMultCoreKeeps, Zenon DEF Kept
  <1> HIDE DEF e
  <1>4. ~e.thrown
    BY <1>1
  <1>5. ~manual => e.deg \in {1, 2}
    BY <1>2, <1>3, <1>4
  <1>6. QED
    BY <1>1, <1>3, <1>5 DEF Kept

LEMMA CompressedKept ==
    ASSUME Context, NEW c, Sound(c), NEW left \in 0..L, ~Compressed(c, left).thrown
    PROVE  Kept(Compressed(c, left))
  <1> DEFINE d == IF c.deg > 1 THEN ModReduce(c, c.deg - 1) ELSE c
             e == LevelReduce(d, d.towers - left)
             f == [e EXCEPT !.off = @ \/ flexible]
  <1>1. Compressed(c, left) = IF d.thrown \/ left >= d.towers THEN d ELSE f
    BY DEF Compressed
  <1>2. Kept(d)
    <2>1. CASE c.deg > 1
      <3>1. Counted(c) /\ ~c.thrown /\ c.deg \in Nat /\ (~manual => c.deg \in {1, 2})
        BY DEF Sound, Kept, Counted
      <3>2. c.deg - 1 \in Nat \ {0} /\ (manual \/ c.deg - 1 = 1)
        BY <2>1, <3>1
      <3> DEFINE n == c.deg - 1
                 g == ModReduce(c, n)
      <3>3. /\ Counted(g)
            /\ n < c.towers => g.deg = (c.deg - n) % Word
            /\ ~(n < c.towers) => g.deg = c.deg
        <4> HIDE DEF n
        <4>1. n \in Nat \ {0} /\ (manual \/ n = 1)
          BY <3>2 DEF n
        <4>2. QED
          BY <3>1, <4>1, ModReduceKeeps, Zenon
      <3>4. c.deg - n = 1 /\ 1 % Word = 1
        BY <3>1, Wraps
      <3> HIDE DEF g
      <3>5. ~manual => g.deg \in {1, 2}
        BY <3>1, <3>3, <3>4
      <3>6. Kept(g)
        BY <3>3, <3>5 DEF Kept
      <3>7. QED
        BY <2>1, <3>6 DEF g
    <2>2. CASE ~(c.deg > 1)
      BY <2>2 DEF Sound
    <2>3. QED
      BY <2>1, <2>2
  <1> HIDE DEF d
  <1>3. CASE d.thrown \/ left >= d.towers
    BY <1>1, <1>2, <1>3
  <1>4. CASE ~(d.thrown \/ left >= d.towers)
    <2>1. Counted(d) /\ ~d.thrown /\ d.towers \in 1..L /\ L \in Nat
      BY <1>2, <1>4, LAssumption DEF Kept, Counted
    <2>2. d.towers - left \in Nat
      BY <1>4, <2>1
    <2>3. Counted(e) /\ e.deg = d.deg
      BY <2>1, <2>2, LevelReduceKeeps, Zenon
    <2> HIDE DEF e
    <2>4. Kept(e)
      BY <1>2, <2>3 DEF Kept
    <2>5. /\ DOMAIN f = Fields /\ f.towers = e.towers /\ f.level = e.level
          /\ f.deg = e.deg /\ f.torn = e.torn /\ f.thrown = e.thrown
          /\ e.thrown \in BOOLEAN
      BY <2>3 DEF Counted, Fields
    <2> HIDE DEF f
    <2>6. Kept(f)
      BY <2>4, <2>5, KeptAlike, Zenon
    <2>7. QED
      BY <1>1, <1>4, <2>6
  <1>5. QED
    BY <1>3, <1>4
-----------------------------------------------------------------------------
(* The towers of any ciphertext stay accounted for, whatever its degree: what *)
(* is left of the above for one that is spoilt.                              *)

LEMMA OneCounts ==
    ASSUME Context, NEW c, Counted(c)
    PROVE  /\ \A x : Counted(EvalMultCore(c, x))
           /\ Counted(ModReduce(c, 1))
           /\ \A n \in Nat : Counted(LevelReduce(c, n))
  <1>1. \A x : Counted(EvalMultCore(c, x))
    BY EvalMultCoreKeeps, Zenon
  <1>2. CASE c.thrown
    <2>1. ModReduce(c, 1) = c
      BY <1>2, SMTT(60) DEF ModReduce, Do
    <2>2. \A n \in Nat : LevelReduce(c, n) = c
      BY <1>2, SMTT(60) DEF LevelReduce, Do
    <2>3. QED
      BY <1>1, <2>1, <2>2
  <1>3. CASE ~c.thrown
    <2>1. 1 \in Nat \ {0}
      OBVIOUS
    <2>2. Counted(ModReduce(c, 1))
      BY <1>3, <2>1, ModReduceKeeps, Zenon
    <2>3. \A n \in Nat : Counted(LevelReduce(c, n))
      BY <1>3, LevelReduceKeeps, Zenon
    <2>4. QED
      BY <1>1, <2>2, <2>3
  <1>4. QED
    BY <1>2, <1>3

LEMMA MatchCounts ==
    ASSUME NEW c, Counted(c), NEW s, NEW off, NEW other
    PROVE  Counted(Do(c, [c EXCEPT !.scale = s, !.off = @ \/ off \/ other]))
  <1> DEFINE e == [c EXCEPT !.scale = s, !.off = @ \/ off \/ other]
  <1>1. /\ DOMAIN e = Fields /\ e.towers = c.towers /\ e.level = c.level
        /\ e.torn = c.torn /\ e.thrown = c.thrown /\ e.deg = c.deg
    BY DEF Counted, Fields
  <1>2. Do(c, e) = c \/ Do(c, e) = e
    BY DEF Do
  <1> HIDE DEF e
  <1>3. Counted(e)
    BY <1>1, Zenon DEF Counted
  <1>4. QED
    BY <1>2, <1>3 DEF e

LEMMA RaiseCounts ==
    ASSUME Context, NEW c, NEW o, Counted(c), Counted(o), c.level < o.level
    PROVE  Counted(Raise(c, o))
  <1> DEFINE gap == o.level - c.level
             q == ModReduceFactor(c.towers - 1)
             big == ScalingFactorBig(o.level - 1)
             Correct(x) == EvalMultCore(c, Over(x, c.scale))
             Skip(d, n) == IF n > 0 THEN LevelReduce(d, n) ELSE d
             Match(d, off) == Do(d, [d EXCEPT !.scale = o.scale,
                                              !.off = @ \/ off \/ o.off])
  <1>1. gap \in Int
    BY DEF Counted
  <1>2. \A x : Counted(Correct(x))
    BY OneCounts, Zenon
  <1>3. \A d, n : Counted(d) /\ n \in Int => Counted(Skip(d, n))
    <2>1. \A n \in Int : n > 0 => n \in Nat
      OBVIOUS
    <2>2. QED
      BY <2>1, OneCounts
  <1>4. \A d : Counted(d) => Counted(ModReduce(d, 1))
    BY OneCounts
  <1>5. \A d, off : Counted(d) => Counted(Match(d, off))
    BY MatchCounts
  <1> DEFINE a == Match(Skip(ModReduce(Correct(Times(o.scale, q)), 1), gap - 1), FALSE)
             b == Match(ModReduce(Skip(ModReduce(Correct(Times(big, q)), 1), gap - 2), 1),
                        FactorMissing)
             d == Match(Skip(Correct(o.scale), gap), FALSE)
             e == Match(ModReduce(Skip(Correct(big), gap - 1), 1), FactorMissing)
  <1>6. Raise(c, o) \in {a, b, d, e, ModReduce(c, 1)}
    BY DEF Raise
  <1>7. gap - 1 \in Int /\ gap - 2 \in Int
    BY <1>1
  <1> HIDE DEF gap, q, big, Correct, Skip, Match
  <1>8. Counted(a) /\ Counted(b) /\ Counted(d) /\ Counted(e)
    <2>1. Counted(a)
      BY <1>2, <1>3, <1>4, <1>5, <1>7
    <2>2. Counted(b)
      BY <1>2, <1>3, <1>4, <1>5, <1>7
    <2>3. Counted(d)
      BY <1>1, <1>2, <1>3, <1>5
    <2>4. Counted(e)
      BY <1>2, <1>3, <1>4, <1>5, <1>7
    <2>5. QED
      BY <2>1, <2>2, <2>3, <2>4
  <1> HIDE DEF a, b, d, e
  <1>9. QED
    BY <1>4, <1>6, <1>8

LEMMA DepthCounts ==
    ASSUME Context, NEW a, NEW b, Counted(a), Counted(b)
    PROVE  LET p == AdjustLevelsAndDepth(a, b) IN Counted(p[1]) /\ Counted(p[2])
  <1>1. \A c : Counted(c) => Counted(RaiseDegree(c))
    BY OneCounts DEF RaiseDegree
  <1>2. a.level < b.level => Counted(Raise(a, b))
    BY RaiseCounts
  <1>3. a.level > b.level => Counted(Raise(b, a))
    <2>1. a.level > b.level => b.level < a.level
      BY DEF Counted
    <2>2. QED
      BY <2>1, RaiseCounts
  <1>4. QED
    BY <1>1, <1>2, <1>3 DEF AdjustLevelsAndDepth

LEMMA LevelsCount ==
    ASSUME Context, NEW a, NEW b, Counted(a), Counted(b)
    PROVE  LET p == AdjustLevels(a, b) IN Counted(p[1]) /\ Counted(p[2])
  <1>1. /\ a.towers < b.towers => b.towers - a.towers \in Nat
        /\ a.towers > b.towers => a.towers - b.towers \in Nat
    BY LAssumption DEF Counted
  <1>2. QED
    BY <1>1, OneCounts DEF AdjustLevels

LEMMA AddCounts ==
    ASSUME Context, NEW a, NEW b, Ready(a), Ready(b)
    PROVE  LET p == AdjustForAddOrSub(a, b) IN Counted(p[1]) /\ Counted(p[2])
  <1>1. QED
    BY DepthCounts, LevelsCount DEF AdjustForAddOrSub, Ready

LEMMA MultCounts ==
    ASSUME Context, NEW a, NEW b, Ready(a), Ready(b)
    PROVE  LET p == AdjustForMult(a, b) IN Counted(p[1]) /\ Counted(p[2])
  <1>1. CASE manual
    BY <1>1, LevelsCount DEF AdjustForMult, Ready
  <1>2. CASE ~manual
    <2> DEFINE p == AdjustLevelsAndDepth(a, b)
               r == ModReduce(p[1], 1)
               u == ModReduce(p[2], 1)
    <2>1. AdjustForMult(a, b) = IF p[1].deg # 2 THEN p
                                ELSE <<r, IF r.thrown THEN p[2] ELSE u>>
      BY <1>2 DEF AdjustForMult, AdjustLevelsAndDepthToOne
    <2>2. Counted(p[1]) /\ Counted(p[2])
      BY DepthCounts DEF Ready
    <2>3. Counted(r) /\ Counted(u)
      BY <2>2, OneCounts
    <2> HIDE DEF p, r, u
    <2>4. QED
      BY <2>1, <2>2, <2>3
  <1>3. QED
    BY <1>1, <1>2

LEMMA SumCounts ==
    ASSUME NEW a, NEW b, Counted(a), Counted(b)
    PROVE  Counted(Sum(a, b))
  <1> DEFINE d == Sum(a, b)
  <1>1. /\ DOMAIN d = Fields /\ d.towers = a.towers /\ d.level = a.level
        /\ d.deg = a.deg /\ d.torn = (a.torn \/ b.torn) /\ d.thrown = a.thrown
    BY DEF Sum, Counted, Fields
  <1> HIDE DEF d
  <1>2. Counted(d)
    BY <1>1, Zenon DEF Counted
  <1>3. QED
    BY <1>2 DEF d

LEMMA ProductCounts ==
    ASSUME NEW a, NEW b, Counted(a), Counted(b)
    PROVE  Counted(Product(a, b))
  <1> DEFINE d == Product(a, b)
  <1>1. /\ DOMAIN d = Fields /\ d.towers = a.towers /\ d.level = a.level
        /\ d.deg = a.deg + b.deg /\ d.torn = (a.torn \/ b.torn)
        /\ d.thrown = a.thrown
    BY DEF Product, Counted, Fields
  <1> HIDE DEF d
  <1>2. d.deg \in Nat
    BY <1>1 DEF Counted
  <1>3. Counted(d)
    BY <1>1, <1>2, Zenon DEF Counted
  <1>4. QED
    BY <1>3 DEF d

LEMMA SelfCounts ==
    ASSUME Context, NEW c, Ready(c)
    PROVE  Counted(AdjustSelfForMult(c))
  <1>1. Counted(ModReduce(ModReduce(c, 1), 1))
    BY OneCounts DEF Ready
  <1>2. QED
    BY <1>1 DEF AdjustSelfForMult, RescaledTwice, Ready

\* An exception may come after the first of the two rescalings.
LEMMA SelfKept ==
    ASSUME Context, NEW c, Sound(c)
    PROVE  LET d == AdjustSelfForMult(c) IN
           /\ d.thrown => Kept(d)
           /\ manual \/ c.deg # 2 => d = c
  <1>1. CASE manual \/ c.deg # 2
    BY <1>1 DEF AdjustSelfForMult, RescaledTwice, Sound
  <1>2. CASE ~(manual \/ c.deg # 2)
    <2> DEFINE e == ModReduce(c, 1)
               d == ModReduce(e, 1)
    <2>1. AdjustSelfForMult(c) = d
      BY <1>2 DEF AdjustSelfForMult, RescaledTwice
    <2>2. Kept(e) /\ (~e.thrown => e.deg = 1)
      BY <1>2, RescaledOnce
    <2> HIDE DEF e
    <2>3. CASE e.thrown
      <3>1. d = e
        BY <2>3 DEF ModReduce, Do
      <3>2. QED
        BY <1>2, <2>1, <2>2, <3>1
    <2>4. CASE ~e.thrown
      <3>1. Counted(e) /\ 1 \in Nat \ {0}
        BY <2>2 DEF Kept
      <3>2. /\ Counted(d)
            /\ 1 < e.towers => ~d.thrown
            /\ ~(1 < e.towers) => d.deg = e.deg
        BY <2>4, <3>1, ModReduceKeeps, Zenon
      <3> HIDE DEF d
      <3>3. d.thrown => Kept(d)
        BY <2>2, <2>4, <3>2 DEF Kept
      <3>4. QED
        BY <1>2, <2>1, <3>3
    <2>5. QED
      BY <2>3, <2>4
  <1>3. QED
    BY <1>1, <1>2

LEMMA SquareCounts ==
    ASSUME Context, NEW c, Ready(c)
    PROVE  Counted(BeforeSquare(c)) /\ Counted(BeforeSquareMutable(c))
  <1>1. QED
    BY OneCounts DEF Ready, BeforeSquare, BeforeSquareMutable

\* The two forms of a square ask for the degree differently.
LEMMA SquaresAgree ==
    ASSUME NEW c, Sound(c)
    PROVE  BeforeSquareMutable(c) = BeforeSquare(c)
  <1>1. manual \/ c.deg = 1 \/ c.deg = 2
    BY DEF Sound, Kept
  <1>2. QED
    BY <1>1 DEF BeforeSquare, BeforeSquareMutable

LEMMA MultConstCounts ==
    ASSUME Context, NEW c, Ready(c)
    PROVE  Counted(MultConst(c))
  <1> DEFINE d == IF ~manual /\ c.deg = 2 THEN ModReduce(c, 1) ELSE c
  <1>1. Counted(d)
    BY OneCounts DEF Ready
  <1> HIDE DEF d
  <1>2. Counted(EvalMultCore(d, ScalingFactor(d.level)))
    BY <1>1, OneCounts
  <1>3. QED
    BY <1>2 DEF MultConst, d

\* Many levels at once: there are towers enough, or the clone is thrown away.
LEMMA CompressedCounts ==
    ASSUME Context, NEW c, Ready(c), NEW left \in 0..L, ~Compressed(c, left).thrown
    PROVE  Counted(Compressed(c, left))
  <1> DEFINE d == IF c.deg > 1 THEN ModReduce(c, c.deg - 1) ELSE c
             e == LevelReduce(d, d.towers - left)
             f == [e EXCEPT !.off = @ \/ flexible]
  <1>1. Compressed(c, left) = IF d.thrown \/ left >= d.towers THEN d ELSE f
    BY DEF Compressed
  <1>2. Counted(c) /\ ~c.thrown /\ c.deg \in Nat /\ c.towers \in Nat
    BY LAssumption DEF Ready, Counted
  <1>3. Counted(d) \/ d.thrown
    <2>1. CASE c.deg > 1
      <3> DEFINE n == c.deg - 1
      <3>1. n \in Nat \ {0} /\ d = ModReduce(c, n)
        BY <1>2, <2>1
      <3> HIDE DEF n, d
      <3>2. CASE n < c.towers
        BY <1>2, <3>1, <3>2, ModReduceFits, Zenon
      <3>3. CASE ~(n < c.towers)
        BY <1>2, <3>1, <3>3, ModReduceThrows, Zenon
      <3>4. QED
        BY <3>2, <3>3
    <2>2. CASE ~(c.deg > 1)
      BY <1>2, <2>2
    <2>3. QED
      BY <2>1, <2>2
  <1> HIDE DEF d
  <1>4. Counted(d) /\ ~d.thrown
    <2>1. d.thrown => Compressed(c, left) = d
      BY <1>1
    <2>2. QED
      BY <1>3, <2>1
  <1>5. CASE left >= d.towers
    BY <1>1, <1>4, <1>5
  <1>6. CASE ~(left >= d.towers)
    <2>1. d.towers - left \in Nat
      BY <1>4, <1>6, LAssumption DEF Counted
    <2>2. Counted(e)
      BY <1>4, <2>1, OneCounts
    <2> HIDE DEF e
    <2>3. /\ DOMAIN f = Fields /\ f.towers = e.towers /\ f.level = e.level
          /\ f.deg = e.deg /\ f.torn = e.torn /\ f.thrown = e.thrown
      BY <2>2 DEF Counted, Fields
    <2> HIDE DEF f
    <2>4. Counted(f)
      BY <2>2, <2>3, Zenon DEF Counted
    <2>5. QED
      BY <1>1, <1>4, <1>6, <2>4
  <1>7. QED
    BY <1>5, <1>6

LEMMA CaughtReady ==
    ASSUME NEW c, Counted(c)
    PROVE  Ready(Caught(c))
  <1> DEFINE d == Caught(c)
  <1>1. /\ DOMAIN d = Fields /\ d.towers = c.towers /\ d.level = c.level
        /\ d.deg = c.deg /\ d.torn = c.torn /\ d.thrown = FALSE
    BY DEF Caught, Counted, Fields
  <1> HIDE DEF d
  <1>2. d.thrown \in BOOLEAN /\ ~d.thrown
    BY <1>1
  <1>3. Counted(d)
    BY <1>1, <1>2, Zenon DEF Counted
  <1>4. QED
    BY <1>2, <1>3 DEF Ready, d
-----------------------------------------------------------------------------
(* The steps.                                                                *)

LEMMA InitHolds == Init => IInv
  <1> SUFFICES ASSUME Init PROVE IInv
    OBVIOUS
  <1>1. Context
    BY DEF Init, Context
  <1>2. reg = [r \in Regs |-> Fresh(0, 1)]
    BY DEF Init
  <1>3. Sound(Fresh(0, 1)) /\ Ready(Fresh(0, 1))
    BY <1>1, FreshSound DEF Sound, Kept, Ready
  <1>4. QED
    BY <1>1, <1>2, <1>3 DEF IInv

\* Every register that is written is counted, and sound unless it is spoilt;
\* and none is cleared of being spoilt that is not written.
LEMMA WriteKeeps ==
    ASSUME IInv, NEW f, Write(f), \A r \in DOMAIN f : Counted(f[r]),
           \A r \in DOMAIN f : r \notin spoilt' => Kept(f[r]),
           \A r \in Regs : r \notin DOMAIN f /\ r \in spoilt => r \in spoilt'
    PROVE  IInv'
  <1>1. /\ reg' = [r \in Regs |-> IF r \in DOMAIN f THEN Caught(f[r]) ELSE reg[r]]
        /\ scheme' = scheme /\ technique' = technique
    BY DEF Write
  <1>2. \A r \in Regs : Ready(reg'[r])
    BY <1>1, CaughtReady DEF IInv
  <1>3. \A r \in Regs \ spoilt' : Sound(reg'[r])
    BY <1>1, CaughtSound DEF IInv
  <1>4. Context'
    BY <1>1 DEF IInv, Context
  <1>5. DOMAIN reg' = Regs
    BY <1>1
  <1>6. ASSUME NEW r \in Regs PROVE Ready(reg[r])'
    BY <1>1, <1>2, Zenon DEF Ready, Counted, manual
  <1>7. ASSUME NEW r \in Regs \ spoilt' PROVE Sound(reg[r])'
    BY <1>1, <1>3, Zenon DEF Sound, Kept, Counted, manual
  <1>8. QED
    BY <1>4, <1>5, <1>6, <1>7 DEF IInv

\* What an operation that reads the registers `from' may leave.
Left(c, from) == Counted(c) /\ (from \cap spoilt = {} => Kept(c))

LEMMA StoreKeeps ==
    ASSUME IInv, NEW f, NEW from, Store(f, from), \A r \in DOMAIN f : Left(f[r], from)
    PROVE  IInv'
  <1>1. /\ Write(f)
        /\ spoilt' = IF from \cap spoilt = {} THEN spoilt \ DOMAIN f
                                              ELSE spoilt \union DOMAIN f
    BY DEF Store
  <1>2. \A r \in DOMAIN f : Counted(f[r])
    BY DEF Left
  <1>3. \A r \in DOMAIN f : r \notin spoilt' => Kept(f[r])
    BY <1>1 DEF Left
  <1>4. \A r \in Regs : r \notin DOMAIN f /\ r \in spoilt => r \in spoilt'
    BY <1>1
  <1>5. QED
    BY <1>1, <1>2, <1>3, <1>4, WriteKeeps

LEMMA PutKeeps ==
    ASSUME IInv, NEW r, NEW c, NEW from, Left(c, from), Put(r, c, from)
    PROVE  IInv'
  <1>1. \A y \in DOMAIN [x \in {r} |-> c] : Left([x \in {r} |-> c][y], from)
    OBVIOUS
  <1>2. QED
    BY <1>1, StoreKeeps DEF Put

LEMMA PutPairKeeps ==
    ASSUME IInv, NEW r, NEW s, NEW p, Left(p[1], {r, s}), Left(p[2], {r, s}),
           PutPair(r, s, p)
    PROVE  IInv'
  <1> DEFINE f == [x \in {r, s} |-> IF x = r THEN p[1] ELSE p[2]]
  <1>1. \A y \in DOMAIN f : Left(f[y], {r, s})
    OBVIOUS
  <1>2. Store(f, {r, s})
    BY DEF PutPair
  <1> HIDE DEF f
  <1>3. QED
    BY <1>1, <1>2, StoreKeeps

LEMMA PutThreeKeeps ==
    ASSUME IInv, NEW d, NEW c, NEW r, NEW s, NEW p, Left(c, {r, s}),
           Left(p[1], {r, s}), Left(p[2], {r, s}), PutThree(d, c, r, s, p)
    PROVE  IInv'
  <1> DEFINE f == [x \in {d, r, s} |-> IF x = d THEN c
                                        ELSE IF x = r THEN p[1] ELSE p[2]]
  <1>1. \A y \in DOMAIN f : Left(f[y], {r, s})
    OBVIOUS
  <1>2. Store(f, {r, s})
    BY DEF PutThree
  <1> HIDE DEF f
  <1>3. QED
    BY <1>1, <1>2, StoreKeeps

LEMMA PutResultKeeps ==
    ASSUME IInv, NEW d, NEW c, NEW r, NEW s, NEW p, Left(c, {r, s}),
           Left(p[1], {r, s}), PutResult(d, c, r, s, p)
    PROVE  IInv'
  <1> DEFINE f == [x \in {d, r} |-> IF x = d THEN c ELSE p[1]]
  <1>1. \A y \in DOMAIN f : Left(f[y], {r, s})
    OBVIOUS
  <1>2. Store(f, {r, s})
    BY DEF PutResult
  <1> HIDE DEF f
  <1>3. QED
    BY <1>1, <1>2, StoreKeeps

\* The operands are sound where it matters.
LEMMA OperandsSound ==
    ASSUME IInv, NEW r \in Regs, NEW s \in Regs
    PROVE  /\ Context /\ Ready(reg[r]) /\ Ready(reg[s])
           /\ {r, s} \cap spoilt = {} => /\ r \in Regs \ spoilt /\ s \in Regs \ spoilt
                                         /\ Sound(reg[r]) /\ Sound(reg[s])
  <1>1. QED
    BY DEF IInv

LEMMA AddKeeps ==
    ASSUME IInv, NEW r \in Regs, NEW s \in Regs, NEW d,
           Add(r, s) \/ AddMutable(d, r, s) \/ AddPlainMutable(d, r, s)
    PROVE  IInv'
  <1> DEFINE p == AdjustForAddOrSub(reg[r], reg[s])
             c == Sum(p[1], p[2])
  <1>1. Counted(p[1]) /\ Counted(p[2]) /\ Counted(c)
    BY OperandsSound, AddCounts, SumCounts, Zenon
  <1>2. ASSUME {r, s} \cap spoilt = {} PROVE Kept(p[1]) /\ Kept(p[2]) /\ Kept(c)
    <2>1. Sound(p[1]) /\ Sound(p[2])
      BY <1>2, OperandsSound, AdjustedForAdd
    <2>2. QED
      BY <2>1, SumKept DEF Sound
  <1> HIDE DEF p, c
  <1>0. Left(p[1], {r, s}) /\ Left(p[2], {r, s}) /\ Left(c, {r, s})
    BY <1>1, <1>2 DEF Left
  <1>3. CASE Add(r, s)
    <2>1. Put(r, IF Thrown(p) THEN p[1] ELSE c, {r, s})
      BY <1>3 DEF Add, p, c
    <2>2. QED
      BY <1>0, <2>1, PutKeeps
  <1>4. CASE AddMutable(d, r, s) /\ Thrown(p)
    <2>1. PutPair(r, s, p)
      BY <1>4 DEF AddMutable, p
    <2>2. QED
      BY <1>0, <2>1, PutPairKeeps
  <1>5. CASE AddMutable(d, r, s) /\ ~Thrown(p)
    <2>1. PutThree(d, c, r, s, p)
      BY <1>5 DEF AddMutable, p, c
    <2>2. QED
      BY <1>0, <2>1, PutThreeKeeps
  <1>6. CASE AddPlainMutable(d, r, s)
    <2>1. Put(r, p[1], {r, s}) \/ PutResult(d, c, r, s, p)
      BY <1>6 DEF AddPlainMutable, p, c
    <2>2. QED
      BY <1>0, <2>1, PutKeeps, PutResultKeeps
  <1>7. QED
    BY <1>3, <1>4, <1>5, <1>6

LEMMA MultKeeps ==
    ASSUME IInv, NEW r \in Regs, NEW s \in Regs, NEW d,
           \/ Mult(d, r, s) \/ MultPlain(r, s)
           \/ MultMutable(d, r, s) \/ MultPlainMutable(d, r, s)
    PROVE  IInv'
  <1> DEFINE p == AdjustForMult(reg[r], reg[s])
             c == Product(p[1], p[2])
  <1>1. Counted(p[1]) /\ Counted(p[2]) /\ Counted(c)
    BY OperandsSound, MultCounts, ProductCounts, Zenon
  <1>2. ASSUME {r, s} \cap spoilt = {}
        PROVE  Kept(p[1]) /\ Kept(p[2]) /\ (~Thrown(p) => Kept(c))
    <2>1. /\ Kept(p[1]) /\ Kept(p[2])
          /\ ~Thrown(p) /\ ~manual => p[1].deg = 1 /\ p[2].deg = 1
      BY <1>2, OperandsSound, AdjustedForMult
    <2> HIDE DEF p
    <2>2. QED
      BY <2>1, ProductKept
  <1> HIDE DEF p, c
  <1>3. /\ Left(p[1], {r, s}) /\ Left(p[2], {r, s})
        /\ ~Thrown(p) => Left(c, {r, s})
    BY <1>1, <1>2 DEF Left
  <1>4. CASE Mult(d, r, s)
    <2>1. ~Thrown(p) /\ Put(d, c, {r, s})
      BY <1>4 DEF Mult, p, c
    <2>2. QED
      BY <1>3, <2>1, PutKeeps
  <1>5. CASE MultPlain(r, s)
    <2>1. \/ Put(r, p[1], {r, s})
          \/ ~Thrown(p) /\ Put(r, c, {r, s})
      BY <1>5 DEF MultPlain, p, c
    <2>2. QED
      BY <1>3, <2>1, PutKeeps
  <1>6. CASE MultMutable(d, r, s)
    <2>1. \/ PutPair(r, s, p)
          \/ ~Thrown(p) /\ PutThree(d, c, r, s, p)
      BY <1>6 DEF MultMutable, p, c
    <2>2. QED
      BY <1>3, <2>1, PutPairKeeps, PutThreeKeeps
  <1>7. CASE MultPlainMutable(d, r, s)
    <2>1. \/ Put(r, p[1], {r, s})
          \/ ~Thrown(p) /\ PutResult(d, c, r, s, p)
      BY <1>7 DEF MultPlainMutable, p, c
    <2>2. QED
      BY <1>3, <2>1, PutKeeps, PutResultKeeps
  <1>8. QED
    BY <1>4, <1>5, <1>6, <1>7

\* One object as both operands: it is spoilt if it was rescaled twice, and as
\* sound as it was if it was not or an exception came first.
LEMMA SelfKeeps ==
    ASSUME IInv, NEW d, NEW r \in Regs, MultMutableSelf(d, r)
    PROVE  IInv'
  <1> DEFINE c == AdjustSelfForMult(reg[r])
             g == Product(c, c)
             f == [x \in {d, r} |-> IF x = d THEN g ELSE c]
  <1>1. Context /\ Ready(reg[r]) /\ (r \notin spoilt => Sound(reg[r]))
    BY DEF IInv
  <1>2. Counted(c) /\ Counted(g)
    BY <1>1, SelfCounts, ProductCounts
  <1>3. r \notin spoilt => /\ c.thrown => Kept(c)
                           /\ manual \/ reg[r].deg # 2 => c = reg[r]
    BY <1>1, SelfKept
  <1>4. \/ c.thrown /\ Put(r, c, {r})
        \/ /\ Write(f)
           /\ spoilt' = IF r \in spoilt \/ (~manual /\ reg[r].deg = 2)
                        THEN spoilt \union {d, r} ELSE spoilt \ {d}
    BY DEF MultMutableSelf
  <1> HIDE DEF c
  <1>5. CASE c.thrown /\ Put(r, c, {r})
    <2>1. Left(c, {r})
      BY <1>2, <1>3, <1>5 DEF Left
    <2>2. QED
      BY <1>5, <2>1, PutKeeps
  <1>6. CASE /\ Write(f)
             /\ spoilt' = IF r \in spoilt \/ (~manual /\ reg[r].deg = 2)
                          THEN spoilt \union {d, r} ELSE spoilt \ {d}
    <2>1. ASSUME r \notin spoilt, ~(~manual /\ reg[r].deg = 2)
          PROVE  Kept(c) /\ Kept(g)
      <3>1. c = reg[r] /\ Kept(c) /\ (~manual => c.deg = 1)
        BY <1>1, <1>3, <2>1 DEF Sound, Kept
      <3>2. QED
        BY <3>1, ProductKept
    <2> HIDE DEF g
    <2>2. DOMAIN f = {d, r}
      OBVIOUS
    <2>3. \A y \in DOMAIN f : Counted(f[y])
      BY <1>2
    <2>4. \A y \in DOMAIN f : y \notin spoilt' => Kept(f[y])
      BY <1>6, <2>1
    <2>5. \A y \in Regs : y \notin DOMAIN f /\ y \in spoilt => y \in spoilt'
      BY <1>6, <2>2
    <2>6. Write(f)
      BY <1>6
    <2> HIDE DEF f
    <2>7. QED
      BY <2>3, <2>4, <2>5, <2>6, WriteKeeps
  <1>7. QED
    BY <1>4, <1>5, <1>6

LEMMA SquareKeeps ==
    ASSUME IInv, NEW d, NEW r \in Regs, Square(d, r) \/ SquareMutable(d, r)
    PROVE  IInv'
  <1> DEFINE Leaves(c) ==
               /\ Counted(c) /\ Counted(Product(c, c))
               /\ r \notin spoilt /\ ~c.thrown => Kept(c) /\ Kept(Product(c, c))
             F(c) == [x \in {d, r} |-> IF x = d THEN Product(c, c) ELSE c]
  <1>1. Context /\ Ready(reg[r]) /\ (r \notin spoilt => Sound(reg[r]))
    BY DEF IInv
  <1>2. ASSUME NEW c, c = BeforeSquare(reg[r]) \/ c = BeforeSquareMutable(reg[r])
        PROVE  Leaves(c)
    <2>1. Counted(c) /\ Counted(Product(c, c))
      BY <1>1, <1>2, SquareCounts, ProductCounts
    <2>2. ASSUME r \notin spoilt, ~c.thrown PROVE Kept(c) /\ Kept(Product(c, c))
      <3>1. BeforeSquareMutable(reg[r]) = BeforeSquare(reg[r])
        BY <1>1, <2>2, SquaresAgree
      <3>2. Kept(c) /\ (~manual => c.deg = 1)
        BY <1>1, <1>2, <2>2, <3>1, SquareKept
      <3>3. QED
        BY <3>2, ProductKept
    <2>3. QED
      BY <2>1, <2>2
  <1>3. CASE Square(d, r)
    <2>1. PICK c : /\ c = BeforeSquare(reg[r]) /\ ~c.thrown
                   /\ Put(d, Product(c, c), {r})
      BY <1>3 DEF Square
    <2>2. Left(Product(c, c), {r})
      BY <1>2, <2>1 DEF Left
    <2>3. QED
      BY <2>1, <2>2, PutKeeps
  <1>4. CASE SquareMutable(d, r)
    <2>1. PICK c : c = BeforeSquareMutable(reg[r]) /\ ~c.thrown /\ Store(F(c), {r})
      BY <1>4 DEF SquareMutable
    <2>2. Left(c, {r}) /\ Left(Product(c, c), {r})
      BY <1>2, <2>1 DEF Left
    <2> DEFINE f == F(c)
    <2>3. \A y \in DOMAIN f : Left(f[y], {r})
      BY <2>2
    <2>4. Store(f, {r})
      BY <2>1
    <2> HIDE DEF f
    <2>5. QED
      BY <2>3, <2>4, StoreKeeps
  <1>5. QED
    BY <1>3, <1>4

\* The operations that act on one ciphertext.
LEMMA UnaryKeeps ==
    ASSUME IInv, NEW r \in Regs, NEW d,
           \/ \E l \in EncodeLevels[scheme], g \in {1, 2} : Encode(r, l, g)
           \/ MultConstant(d, r)
           \/ \E left \in 0..L : Compress(d, r, left)
           \/ \E n \in 1..L : Rescale(r, n) \/ DropLevels(r, n)
    PROVE  IInv'
  <1>1. Context /\ Ready(reg[r]) /\ (r \notin spoilt => Sound(reg[r]))
    BY DEF IInv
  <1>2. Counted(reg[r]) /\ ~reg[r].thrown
    BY <1>1 DEF Ready
  <1>3. ASSUME NEW l \in EncodeLevels[scheme], NEW g \in {1, 2}, Encode(r, l, g)
        PROVE  IInv'
    <2>1. Left(Fresh(l, g), {})
      BY <1>1, FreshSound DEF Sound, Kept, Left
    <2>2. QED
      BY <1>3, <2>1, PutKeeps DEF Encode
  <1>4. CASE MultConstant(d, r)
    <2>1. ~MultConst(reg[r]).thrown /\ Put(d, MultConst(reg[r]), {r})
      BY <1>4 DEF MultConstant
    <2>2. Left(MultConst(reg[r]), {r})
      BY <1>1, <2>1, MultConstCounts, MultConstKept DEF Left
    <2>3. QED
      BY <2>1, <2>2, PutKeeps
  <1>5. ASSUME NEW left \in 0..L, Compress(d, r, left)
        PROVE  IInv'
    <2>1. ~Compressed(reg[r], left).thrown /\ Put(d, Compressed(reg[r], left), {r})
      BY <1>5 DEF Compress
    <2>2. Left(Compressed(reg[r], left), {r})
      BY <1>1, <2>1, CompressedCounts, CompressedKept DEF Left
    <2>3. QED
      BY <2>1, <2>2, PutKeeps
  <1>6. ASSUME NEW n \in 1..L, Rescale(r, n)
        PROVE  IInv'
    <2>1. manual /\ n \in Nat \ {0} /\ Put(r, ModReduce(reg[r], n), {r})
      BY <1>6, LAssumption DEF Rescale
    <2>2. Counted(ModReduce(reg[r], n))
      BY <1>1, <1>2, <2>1, ModReduceKeeps, Zenon
    <2>3. Left(ModReduce(reg[r], n), {r})
      BY <2>1, <2>2 DEF Kept, Left
    <2>4. QED
      BY <2>1, <2>3, PutKeeps
  <1>7. ASSUME NEW n \in 1..L, DropLevels(r, n)
        PROVE  IInv'
    <2>1. manual /\ n \in Nat /\ Put(r, LevelReduce(reg[r], n), {r})
      BY <1>7, LAssumption DEF DropLevels
    <2>2. Counted(LevelReduce(reg[r], n))
      BY <1>2, <2>1, LevelReduceKeeps, Zenon
    <2>3. Left(LevelReduce(reg[r], n), {r})
      BY <2>1, <2>2 DEF Kept, Left
    <2>4. QED
      BY <2>1, <2>3, PutKeeps
  <1>8. QED
    BY <1>3, <1>4, <1>5, <1>6, <1>7

LEMMA StepKeeps == IInv /\ [Next]_vars => IInv'
  <1> SUFFICES ASSUME IInv, [Next]_vars PROVE IInv'
    OBVIOUS
  <1>1. CASE UNCHANGED vars
    BY <1>1 DEF vars, IInv, Context, Ready, Sound, Kept, Counted, manual
  <1>2. CASE Next
    BY <1>2, AddKeeps, MultKeeps, SelfKeeps, SquareKeeps, UnaryKeeps DEF Next
  <1>3. QED
    BY <1>1, <1>2

\* Every operation keeps each ciphertext's fields in step with its towers.
THEOREM InvariantHolds == Spec => []IInv
  <1>1. QED
    BY InitHolds, StepKeeps, PTL DEF Spec

\* The level of a ciphertext counts the towers that were dropped, whatever was
\* added, multiplied, rescaled, compressed or refused (LeveledSHERNS).
THEOREM TowersMatchLevelHolds == Spec => []TowersMatchLevel
  <1>1. IInv => TowersMatchLevel
    BY Zenon DEF IInv, Ready, Counted, TowersMatchLevel
  <1>2. QED
    BY <1>1, InvariantHolds, PTL

\* The half of OperandsAlign that is not about scales.
OperandsMeet ==
    ~manual => \A r, s \in Regs \ spoilt :
        LET p == AdjustForAddOrSub(reg[r], reg[s]) IN
        /\ ~Thrown(p)
        /\ p[1].towers = p[2].towers
        /\ p[1].level = p[2].level
        /\ p[1].deg = p[2].deg

\* Under an automatic technique any two ciphertexts a program can have, unless
\* one comes from an object that EvalMultMutable rescaled twice, are brought to
\* equal towers, level and degree, and never run out of towers on the way
\* (AdjustLevelsAndDepthInPlace of both schemes).
THEOREM OperandsMeetHolds == Spec => []OperandsMeet
  <1>1. IInv => OperandsMeet
    <2> SUFFICES ASSUME IInv, ~manual, NEW r \in Regs \ spoilt,
                        NEW s \in Regs \ spoilt
                 PROVE  LET p == AdjustForAddOrSub(reg[r], reg[s]) IN
                        /\ ~Thrown(p) /\ p[1].towers = p[2].towers
                        /\ p[1].level = p[2].level /\ p[1].deg = p[2].deg
      BY DEF OperandsMeet
    <2> DEFINE p == AdjustLevelsAndDepth(reg[r], reg[s])
    <2>1. /\ Sound(p[1]) /\ Sound(p[2])
          /\ p[1].deg = p[2].deg /\ p[1].level = p[2].level
      BY DepthAdjusted DEF IInv
    <2>2. AdjustForAddOrSub(reg[r], reg[s]) = p
      BY DEF AdjustForAddOrSub
    <2> HIDE DEF p
    <2>3. /\ p[1].towers = L - p[1].level /\ p[2].towers = L - p[2].level
          /\ ~p[1].thrown /\ ~p[2].thrown
      BY <2>1, Zenon DEF Sound, Kept, Counted
    <2>4. QED
      BY <2>1, <2>2, <2>3 DEF Thrown
  <1>2. QED
    BY <1>1, InvariantHolds, PTL
-----------------------------------------------------------------------------
(* The table of factors: FlexibleTable is the function its definition says   *)
(* it is.                                                                    *)

Scales == [Factors -> Int]

LEMMA LevelsAreFactors ==
    /\ L \in Nat /\ L > 2
    /\ Factors \subseteq Nat
    /\ 0 \in Factors /\ 1 \in Factors /\ L - 1 \in Factors /\ L - 2 \in Factors
    /\ \A k \in Factors : k # 0 => k - 1 \in Factors /\ L - k \in Factors
  <1>1. L \in Nat /\ L > 2
    BY LAssumption
  <1>2. QED
    BY <1>1 DEF Factors

\* The vectors of exponents are closed under the operations and obey the laws
\* of multiplication.
LEMMA ScaleAlgebra ==
    /\ One \in Scales
    /\ \A k : Modulus(k) \in Scales
    /\ \A s, u \in Scales : Times(s, u) \in Scales /\ Over(s, u) \in Scales
    /\ \A s \in Scales, d \in Int : Power(s, d) \in Scales
    /\ \A s, u \in Scales : Times(s, Over(u, s)) = u /\ Over(Times(u, s), s) = u
    /\ \A s \in Scales : Times(s, s) = Power(s, 2) /\ Power(s, 1) = s
    /\ \A s \in Scales : Over(s, One) = s /\ Power(s, 0) = One
  <1>1. One \in Scales /\ \A k : Modulus(k) \in Scales
    <2>1. One \in [Factors -> Int]
      BY DEF One
    <2>2. ASSUME NEW k PROVE Modulus(k) \in Scales
      <3>1. Modulus(k) = [i \in Factors |-> IF i = k THEN 1 ELSE 0]
        BY DEF Modulus, One
      <3>2. [i \in Factors |-> IF i = k THEN 1 ELSE 0] \in Scales
        BY DEF Scales
      <3>3. QED
        BY <3>1, <3>2
    <2>3. QED
      BY <2>1, <2>2 DEF Scales
  <1>2. \A s, u \in Scales : Times(s, u) \in Scales /\ Over(s, u) \in Scales
    BY DEF Times, Over, Scales
  <1>3. \A s \in Scales, d \in Int : Power(s, d) \in Scales
    BY DEF Power, Scales
  <1>4. \A s, u \in Scales : Times(s, Over(u, s)) = u /\ Over(Times(u, s), s) = u
    BY DEF Times, Over, Scales
  <1>5. \A s \in Scales : Times(s, s) = Power(s, 2) /\ Power(s, 1) = s
    BY DEF Times, Power, Scales
  <1>6. \A s \in Scales : Over(s, One) = s /\ Power(s, 0) = One
    BY DEF Over, Power, One, Scales
  <1>7. QED
    BY <1>1, <1>2, <1>3, <1>4, <1>5, <1>6

LEMMA PowersAdd ==
    ASSUME NEW s \in Scales, NEW d \in Int, NEW e \in Int
    PROVE  /\ Times(Power(s, d), Power(s, e)) = Power(s, d + e)
           /\ Over(Power(s, d), Power(s, e)) = Power(s, d - e)
  <1>1. ASSUME NEW i \in Factors
        PROVE  d * s[i] + e * s[i] = (d + e) * s[i] /\ d * s[i] - e * s[i] = (d - e) * s[i]
    <2>1. PICK v \in Int : v = s[i]
      BY DEF Scales
    <2>2. d * v + e * v = (d + e) * v /\ d * v - e * v = (d - e) * v
      OBVIOUS
    <2>3. QED
      BY <2>1, <2>2
  <1>2. QED
    BY <1>1 DEF Times, Over, Power

\* What the table says of level k, from the level before.
NextFactor(k, before) ==
    IF k = 0 THEN Modulus(L-1)
    ELSE IF k = 1 /\ extended THEN Modulus(L-2)
    ELSE Over(Power(before, 2), Modulus(L-k))

\* The first m + 1 levels of the table.
FirstFactors(m) ==
    {g \in [0..m -> Scales] : \A k \in 0..m : g[k] = NextFactor(k, g[k - 1])}

LEMMA LeastFactor ==
    ASSUME NEW S \in SUBSET Factors, S # {}
    PROVE  \E m \in S : \A t \in S : m <= t
  <1> DEFINE LessThan == {pair \in Nat \X Nat : pair[1] < pair[2]}
  <1>1. IsWellFoundedOn(LessThan, Nat)
    <2>1. LessThan = OpToRel(<, Nat)
      BY Zenon DEF OpToRel, LessThan
    <2> QED
      BY <2>1, NatLessThanWellFounded, Zenon
  <1>2. S \in SUBSET Nat
    BY LevelsAreFactors
  <1>3. \A a, b \in Nat : <<a, b>> \in LessThan <=> a < b
    BY DEF LessThan
  <1> HIDE DEF LessThan
  <1>4. PICK m \in S : \A t \in S : <<t, m>> \notin LessThan
    BY <1>1, <1>2, WFMin, Zenon
  <1>5. \A t \in S : ~(t < m)
    BY <1>2, <1>3, <1>4, Zenon
  <1> QED
    BY <1>2, <1>5

LEMMA NextFactorScale ==
    ASSUME NEW k, NEW s \in Scales
    PROVE  NextFactor(k, s) \in Scales
  <1>1. Power(s, 2) \in Scales
    BY ScaleAlgebra
  <1>2. QED
    BY <1>1, ScaleAlgebra DEF NextFactor

LEMMA FirstFactorsExist == \A m \in Factors : FirstFactors(m) # {}
  <1> DEFINE Bad == {m \in Factors : FirstFactors(m) = {}}
  <1> SUFFICES ASSUME Bad # {} PROVE FALSE
    OBVIOUS
  <1>1. PICK m \in Bad : \A n \in Bad : m <= n
    BY LeastFactor
  <1>2. m \in Nat /\ (m # 0 => m - 1 \in Factors)
    BY <1>1, LevelsAreFactors
  <1>3. CASE m = 0
    <2> DEFINE g == [k \in 0..m |-> Modulus(L-1)]
    <2>1. g \in [0..m -> Scales]
      BY ScaleAlgebra
    <2>2. \A k \in 0..m : g[k] = NextFactor(k, g[k - 1])
      BY <1>3 DEF NextFactor
    <2> HIDE DEF g
    <2>3. g \in FirstFactors(m)
      BY <2>1, <2>2 DEF FirstFactors
    <2> QED
      BY <1>1, <2>3
  <1>4. CASE m # 0
    <2>1. m - 1 \in Nat /\ m - 1 \notin Bad /\ m - 1 \in Factors
      BY <1>1, <1>2, <1>4, LevelsAreFactors
    <2>2. PICK g : g \in FirstFactors(m - 1)
      BY <2>1
    <2>3. /\ g \in [0..(m - 1) -> Scales]
          /\ \A k \in 0..(m - 1) : g[k] = NextFactor(k, g[k - 1])
      BY <2>2 DEF FirstFactors
    <2> DEFINE h == [k \in 0..m |-> IF k = m THEN NextFactor(m, g[m - 1]) ELSE g[k]]
    <2>4. NextFactor(m, g[m - 1]) \in Scales
      BY <2>1, <2>3, NextFactorScale
    <2>5. h \in [0..m -> Scales]
      <3>1. \A k \in 0..m : k = m \/ k \in 0..(m - 1)
        BY <1>2
      <3>2. \A k \in 0..m : h[k] \in Scales
        BY <2>3, <2>4, <3>1
      <3> QED
        BY <3>2
    <2>6. ASSUME NEW k \in 0..m PROVE h[k] = NextFactor(k, h[k - 1])
      <3>1. CASE k = m
        BY <1>2, <2>1, <3>1
      <3>2. CASE k # m /\ k # 0
        BY <1>2, <2>1, <2>3, <3>2
      <3>3. CASE k = 0
        <4>1. h[k] = g[k] /\ g[k] = NextFactor(k, g[k - 1])
          BY <1>2, <1>4, <2>1, <2>3, <3>3
        <4>2. \A a, b : NextFactor(0, a) = NextFactor(0, b)
          BY DEF NextFactor
        <4> QED
          BY <3>3, <4>1, <4>2
      <3> QED
        BY <3>1, <3>2, <3>3
    <2> HIDE DEF h
    <2>7. h \in FirstFactors(m)
      BY <2>5, <2>6 DEF FirstFactors
    <2> QED
      BY <1>1, <2>7
  <1> QED
    BY <1>3, <1>4

LEMMA FirstFactorsAgree ==
    ASSUME NEW m \in Factors, NEW n \in Factors, NEW g \in FirstFactors(m),
           NEW h \in FirstFactors(n)
    PROVE  \A k \in Factors : k <= m /\ k <= n => g[k] = h[k]
  <1> DEFINE Bad == {k \in Factors : k <= m /\ k <= n /\ g[k] # h[k]}
  <1> SUFFICES ASSUME Bad # {} PROVE FALSE
    OBVIOUS
  <1>1. PICK k \in Bad : \A j \in Bad : k <= j
    BY LeastFactor
  <1>2. /\ m \in Nat /\ n \in Nat /\ k \in Nat /\ k <= m /\ k <= n
        /\ k # 0 => k - 1 \in Factors
    BY <1>1, LevelsAreFactors
  <1>3. g[k] = NextFactor(k, g[k - 1]) /\ h[k] = NextFactor(k, h[k - 1])
    BY <1>2 DEF FirstFactors
  <1>4. CASE k = 0
    <2>1. \A a, b : NextFactor(0, a) = NextFactor(0, b)
      BY DEF NextFactor
    <2> QED
      BY <1>1, <1>3, <1>4, <2>1
  <1>5. CASE k # 0
    <2>1. k - 1 \in Factors /\ k - 1 \notin Bad /\ k - 1 <= m /\ k - 1 <= n
      BY <1>1, <1>2, <1>5
    <2>2. g[k - 1] = h[k - 1]
      BY <2>1
    <2> QED
      BY <1>1, <1>3, <2>2
  <1> QED
    BY <1>4, <1>5

LEMMA TableUnfolds ==
    FlexibleTable = [k \in 0..(L-1) |->
        IF k = 0 THEN Modulus(L-1)
        ELSE IF k = 1 /\ extended THEN Modulus(L-2)
        ELSE Over(Power(FlexibleTable[k-1], 2), Modulus(L-k))]
  <1> DEFINE G(k) == CHOOSE g : g \in FirstFactors(k)
             F == [k \in 0..(L-1) |-> G(k)[k]]
  <1>0. Factors = 0..(L-1)
    BY DEF Factors
  <1>1. \A k \in Factors : G(k) \in FirstFactors(k)
    BY FirstFactorsExist
  <1> HIDE DEF G
  <1>2. ASSUME NEW k \in 0..(L-1) PROVE F[k] = NextFactor(k, F[k - 1])
    <2>0. k \in Factors /\ k \in Nat
      BY <1>0, LevelsAreFactors
    <2>1. G(k)[k] = NextFactor(k, G(k)[k - 1])
      BY <1>1, <2>0 DEF FirstFactors
    <2>2. CASE k # 0
      <3>1. /\ k - 1 \in Factors /\ G(k) \in FirstFactors(k)
            /\ G(k - 1) \in FirstFactors(k - 1)
        BY <1>1, <2>0, <2>2, LevelsAreFactors
      <3>2. G(k)[k - 1] = G(k - 1)[k - 1]
        BY <2>0, <3>1, FirstFactorsAgree
      <3> QED
        BY <1>0, <2>0, <2>1, <3>1, <3>2
    <2>3. CASE k = 0
      <3>1. \A a, b : NextFactor(0, a) = NextFactor(0, b)
        BY DEF NextFactor
      <3> QED
        BY <1>0, <2>0, <2>1, <2>3, <3>1
    <2> QED
      BY <2>2, <2>3
  <1>3. F = [k \in 0..(L-1) |-> NextFactor(k, F[k - 1])]
    BY <1>2
  <1> HIDE DEF F
  <1> QED
    BY <1>3 DEF FlexibleTable, NextFactor

LEMMA TableRange == \A k \in Factors : FlexibleTable[k] \in Scales
  <1> DEFINE Bad == {k \in Factors : FlexibleTable[k] \notin Scales}
  <1> SUFFICES ASSUME Bad # {} PROVE FALSE
    OBVIOUS
  <1>1. PICK k \in Bad : \A j \in Bad : k <= j
    BY LeastFactor
  <1>2. FlexibleTable[k] = NextFactor(k, FlexibleTable[k - 1])
    BY <1>1, TableUnfolds DEF NextFactor, Factors
  <1>3. CASE k = 0
    BY <1>1, <1>2, <1>3, ScaleAlgebra DEF NextFactor
  <1>4. CASE k # 0
    <2>1. k - 1 \in Factors /\ k - 1 \notin Bad /\ k \in Nat
      BY <1>1, <1>4, LevelsAreFactors
    <2>2. FlexibleTable[k - 1] \in Scales
      BY <2>1
    <2> QED
      BY <1>1, <1>2, <2>2, NextFactorScale
  <1> QED
    BY <1>3, <1>4
-----------------------------------------------------------------------------
(* The scales of the levels.                                                 *)

\* The scale a ciphertext of level l and degree d should have.
Nominal(l, d) ==
    IF extended /\ l = 0 THEN ScalingFactorBig(0) ELSE Power(ScalingFactor(l), d)

LEMMA FixedFactors ==
    ASSUME ~flexible, NEW l
    PROVE  /\ ScalingFactor(l) = ScalingFactor(0)
           /\ ScalingFactorBig(l) = ScalingFactor(0)
  <1>1. QED
    BY DEF ScalingFactor, ScalingFactorBig

LEMMA FactorScales ==
    ASSUME NEW l \in Factors
    PROVE  /\ ScalingFactor(l) \in Scales /\ ScalingFactorBig(l) \in Scales
           /\ \A d \in Int : Nominal(l, d) \in Scales
  <1>1. \A k \in Factors : ScalingFactor(k) \in Scales
    BY TableRange, ScaleAlgebra DEF ScalingFactor
  <1>2. ScalingFactor(0) \in Scales /\ ScalingFactor(1) \in Scales
    BY <1>1, LevelsAreFactors
  <1>3. Power(ScalingFactor(l), 2) \in Scales
    BY <1>1, ScaleAlgebra
  <1>4. Times(ScalingFactor(0), ScalingFactor(1)) \in Scales
    BY <1>2, ScaleAlgebra
  <1>5. \A k \in Factors : ScalingFactorBig(k) \in Scales
    <2>1. \A k \in Factors : Power(ScalingFactor(k), 2) \in Scales
      BY <1>1, ScaleAlgebra
    <2>2. QED
      BY <1>1, <1>4, <2>1 DEF ScalingFactorBig
  <1>6. \A d \in Int : Power(ScalingFactor(l), d) \in Scales
    BY <1>1, ScaleAlgebra
  <1>7. QED
    BY <1>1, <1>5, <1>6, LevelsAreFactors DEF Nominal

LEMMA DroppedOne ==
    ASSUME NEW t \in 1..L
    PROVE  /\ DroppedFactors(t, 1) = ModReduceFactor(t - 1)
           /\ DroppedFactors(t, 1) \in Scales
  <1>0. t - 1 \in Factors /\ t \in Int
    BY LevelsAreFactors DEF Factors
  <1>1. CASE flexible
    <2>1. \A i \in Factors : i \in (t - 1)..(t - 1) <=> i = t - 1
      BY <1>0, LevelsAreFactors
    <2>2. DroppedFactors(t, 1) = [i \in Factors |-> IF i = t - 1 THEN 1 ELSE 0]
      BY <1>1, <2>1 DEF DroppedFactors
    <2>3. Modulus(t - 1) = [i \in Factors |-> IF i = t - 1 THEN 1 ELSE 0]
      BY DEF Modulus, One
    <2>4. ModReduceFactor(t - 1) = Modulus(t - 1) /\ Modulus(t - 1) \in Scales
      BY <1>1, ScaleAlgebra DEF ModReduceFactor
    <2>5. QED
      BY <2>2, <2>3, <2>4
  <1>2. CASE ~flexible
    <2>1. DroppedFactors(t, 1) = Power(ScalingFactor(0), 1)
      BY <1>2 DEF DroppedFactors
    <2>2. ScalingFactor(0) \in Scales
      BY FactorScales, LevelsAreFactors
    <2>3. QED
      BY <1>2, <2>1, <2>2, ScaleAlgebra DEF ModReduceFactor
  <1>3. QED
    BY <1>1, <1>2

LEMMA DroppedNone ==
    ASSUME NEW t \in Int
    PROVE  DroppedFactors(t, 0) = One
  <1>1. CASE flexible
    <2>1. \A i \in Factors : i \notin (t - 0)..(t - 1)
      BY LevelsAreFactors
    <2>2. QED
      BY <1>1, <2>1 DEF DroppedFactors, One
  <1>2. CASE ~flexible
    <2>1. ScalingFactor(0) \in Scales
      BY FactorScales, LevelsAreFactors
    <2>2. QED
      BY <1>2, <2>1, ScaleAlgebra DEF DroppedFactors
  <1>3. QED
    BY <1>1, <1>2

\* One rescaling of a product of a level leaves the factor of the next one.
LEMMA RescaledProduct ==
    ASSUME flexible \/ scheme # "CKKS", Context, NEW l \in 0..(L-2)
    PROVE  Over(ScalingFactorBig(l), DroppedFactors(L - l, 1)) = Nominal(l + 1, 1)
  <1>0. /\ l \in Factors /\ l + 1 \in Factors /\ l + 1 # 0 /\ (l + 1) - 1 = l
        /\ (l + 1 = 1 <=> l = 0) /\ L - l \in 1..L /\ (L - l) - 1 = L - (l + 1)
        /\ (l = 0 => (L - l) - 1 = L - 1 /\ l + 1 = 1)
    BY LevelsAreFactors DEF Factors
  <1>1. ScalingFactor(l + 1) \in Scales /\ ScalingFactor(l) \in Scales
    BY <1>0, FactorScales
  <1>2. Nominal(l + 1, 1) = ScalingFactor(l + 1)
    BY <1>0, <1>1, ScaleAlgebra DEF Nominal
  <1>3. DroppedFactors(L - l, 1) = ModReduceFactor((L - l) - 1)
    BY <1>0, DroppedOne
  <1>4. CASE flexible
    <2>1. DroppedFactors(L - l, 1) = Modulus(L - (l + 1))
      BY <1>0, <1>3, <1>4 DEF ModReduceFactor
    <2>2. /\ ScalingFactor(l) = FlexibleTable[l]
          /\ ScalingFactor(l + 1) = FlexibleTable[l + 1]
      BY <1>4 DEF ScalingFactor
    <2>3. FlexibleTable[l + 1] = IF l + 1 = 1 /\ extended THEN Modulus(L-2)
                                 ELSE Over(Power(FlexibleTable[l], 2), Modulus(L - (l + 1)))
      BY <1>0, TableUnfolds DEF Factors
    <2>4. CASE ~(l = 0 /\ extended)
      BY <1>0, <1>2, <1>4, <2>1, <2>2, <2>3, <2>4 DEF ScalingFactorBig
    <2>5. CASE l = 0 /\ extended
      <3>1. ScalingFactorBig(l) = Times(ScalingFactor(0), ScalingFactor(1))
        BY <1>4, <2>5 DEF ScalingFactorBig
      <3>2. ScalingFactor(0) = Modulus(L - 1)
        BY <1>0, <2>2, <2>5, TableUnfolds
      <3>3. Modulus(L - (l + 1)) = ScalingFactor(0)
        BY <1>0, <2>5, <3>2
      <3>4. Over(Times(ScalingFactor(0), ScalingFactor(1)), ScalingFactor(0)) = ScalingFactor(1)
        <4>1. Times(ScalingFactor(0), ScalingFactor(1)) = Times(ScalingFactor(1), ScalingFactor(0))
          <5>1. ScalingFactor(0) \in [Factors -> Int] /\ ScalingFactor(1) \in [Factors -> Int]
            BY <1>1, <2>5, <1>0 DEF Scales
          <5>2. PICK u \in [Factors -> Int], v \in [Factors -> Int] :
                   u = ScalingFactor(0) /\ v = ScalingFactor(1)
            BY <5>1
          <5>3. Times(u, v) = Times(v, u)
            BY DEF Times
          <5>4. QED
            BY <5>2, <5>3
        <4>2. ScalingFactor(0) \in Scales /\ ScalingFactor(1) \in Scales
          BY <1>0, <1>1, <2>5
        <4>3. QED
          BY <4>1, <4>2, ScaleAlgebra
      <3>5. QED
        BY <1>0, <1>2, <2>1, <2>5, <3>1, <3>3, <3>4
    <2>6. QED
      BY <2>4, <2>5
  <1>5. CASE ~flexible
    <2>1. \A k : ScalingFactor(k) = One
      BY <1>5 DEF ScalingFactor
    <2>2. /\ ScalingFactorBig(l) = One /\ DroppedFactors(L - l, 1) = One
          /\ Nominal(l + 1, 1) = One
      BY <1>2, <1>3, <1>5, <2>1 DEF ScalingFactorBig, ModReduceFactor
    <2>3. QED
      BY <2>2, ScaleAlgebra
  <1>6. QED
    BY <1>4, <1>5

\* So does a rescaling of a ciphertext of degree 2 with the scale it should
\* have, under any automatic technique.
LEMMA RescaledNominal ==
    ASSUME Context, NEW l \in 0..(L-2)
    PROVE  Over(Nominal(l, 2), DroppedFactors(L - l, 1)) = Nominal(l + 1, 1)
  <1>1. CASE flexible
    <2>1. Nominal(l, 2) = ScalingFactorBig(l)
      BY <1>1 DEF Nominal, ScalingFactorBig
    <2>2. QED
      BY <1>1, <2>1, RescaledProduct
  <1>2. CASE ~flexible
    <2>1. ~extended /\ L - l \in 1..L
      BY <1>2, LevelsAreFactors DEF flexible, extended
    <2>2. DroppedFactors(L - l, 1) = Power(ScalingFactor(0), 1)
      BY <1>2 DEF DroppedFactors
    <2>3. /\ Nominal(l, 2) = Power(ScalingFactor(0), 2)
          /\ Nominal(l + 1, 1) = Power(ScalingFactor(0), 1)
      <3>1. ScalingFactor(l) = ScalingFactor(0) /\ ScalingFactor(l + 1) = ScalingFactor(0)
        BY <1>2, FixedFactors
      <3>2. QED
        BY <2>1, <3>1 DEF Nominal
    <2>4. ScalingFactor(0) \in Scales
      BY FactorScales, LevelsAreFactors
    <2>5. Over(Power(ScalingFactor(0), 2), Power(ScalingFactor(0), 1))
            = Power(ScalingFactor(0), 2 - 1)
      BY <2>4, PowersAdd
    <2>6. QED
      BY <2>2, <2>3, <2>5
  <1>3. QED
    BY <1>1, <1>2
-----------------------------------------------------------------------------
(* What the operations on one ciphertext do to its scales.                   *)

LEMMA EvalMultCoreScales ==
    ASSUME NEW c, NEW x, Counted(c), ~c.thrown
    PROVE  LET d == EvalMultCore(c, x) IN
           /\ d.true = Times(c.true, x)
           /\ d.scale = IF scheme = "CKKS" THEN Times(c.scale, ScalingFactor(c.level))
                                           ELSE Times(c.scale, x)
           /\ d.off = c.off
  <1>1. EvalMultCore(c, x) =
          [c EXCEPT !.true = Times(@, x),
                    !.scale = IF scheme = "CKKS" THEN Times(@, ScalingFactor(c.level))
                                                 ELSE Times(@, x),
                    !.deg = (@ + 1) % Word]
    BY DEF EvalMultCore, Do
  <1>2. QED
    BY <1>1 DEF Counted, Fields

LEMMA ModReduceScales ==
    ASSUME NEW c, Counted(c), ~c.thrown, NEW n \in Nat \ {0}
    PROVE  LET d == ModReduce(c, n) IN
           /\ d.off = c.off
           /\ n < c.towers =>
                /\ d.true = Over(c.true, DroppedFactors(c.towers, n))
                /\ d.scale = Over(c.scale, DroppedFactors(c.towers, n))
           /\ ~(n < c.towers) =>
                /\ d.scale = c.scale /\ d.level = c.level /\ d.deg = c.deg
                /\ \/ d.true = c.true /\ d.torn = c.torn
                   \/ /\ d.true = Over(c.true, DroppedFactors(c.towers, c.towers - 1))
                      /\ d.torn = (c.torn \/ c.towers - 1 > 0)
  <1> DEFINE d == ModReduce(c, n)
  <1>1. CASE n < c.towers
    <2>1. d = [c EXCEPT !.towers = @ - n,
                        !.true = Over(@, DroppedFactors(c.towers, n)),
                        !.scale = Over(@, DroppedFactors(c.towers, n)),
                        !.level = @ + n,
                        !.deg = (@ - n) % Word]
      BY SMTT(90), <1>1 DEF ModReduce, Do, Counted, Fields
    <2>2. QED
      BY <1>1, <2>1 DEF Counted, Fields
  <1>2. CASE ~(n < c.towers) /\ scheme = "BGV"
    <2>1. d = [c EXCEPT !.thrown = TRUE]
      BY <1>2 DEF ModReduce, Do, Throw
    <2>2. QED
      BY <1>2, <2>1 DEF Counted, Fields
  <1>3. CASE ~(n < c.towers) /\ scheme # "BGV"
    <2> DEFINE drops == c.towers - 1
    <2>1. /\ d.off = c.off /\ d.scale = c.scale /\ d.level = c.level /\ d.deg = c.deg
          /\ d.true = Over(c.true, DroppedFactors(c.towers, drops))
          /\ d.torn = (c.torn \/ drops > 0)
      BY SMTT(90), <1>3 DEF ModReduce, Do, Throw, Counted, Fields
    <2>2. QED
      BY <1>3, <2>1
  <1>4. QED
    BY <1>1, <1>2, <1>3

LEMMA LevelReduceScales ==
    ASSUME NEW c, Counted(c), ~c.thrown, NEW n \in Nat
    PROVE  LET d == LevelReduce(c, n) IN
           /\ d.off = c.off /\ d.true = c.true /\ d.scale = c.scale
           /\ d.level = c.level \/ d.level = c.level + n
  <1>1. QED
    BY DEF LevelReduce, Do, Throw, Counted, Fields
-----------------------------------------------------------------------------
(* The true scale of an operand that is brought to the level of another.     *)

\* An intact ciphertext with its true scale and its mark.
Valued(c, t, l, d, v, f) == At(c, t, l, d) /\ c.true = v /\ c.off = f

LEMMA CorrectValued ==
    ASSUME NEW c, NEW t \in Int, NEW l \in Int, NEW d \in {1, 2}, NEW v, NEW f,
           Valued(c, t, l, d, v, f), NEW x
    PROVE  Valued(EvalMultCore(c, x), t, l, d + 1, Times(v, x), f)
  <1>1. At(c, t, l, d) /\ Counted(c) /\ ~c.thrown
    BY DEF Valued, At
  <1>2. At(EvalMultCore(c, x), t, l, d + 1)
    BY <1>1, CorrectAt
  <1>3. EvalMultCore(c, x).true = Times(c.true, x) /\ EvalMultCore(c, x).off = c.off
    BY <1>1, EvalMultCoreScales
  <1>4. QED
    BY <1>2, <1>3 DEF Valued

LEMMA ReduceValued ==
    ASSUME Context, NEW c, NEW t \in Int, NEW l \in Int, NEW d \in 1..3, NEW v, NEW f,
           Valued(c, t, l, d, v, f), t > 1
    PROVE  Valued(ModReduce(c, 1), t - 1, l + 1, d - 1, Over(v, DroppedFactors(t, 1)), f)
  <1>1. At(c, t, l, d) /\ Counted(c) /\ ~c.thrown /\ c.towers = t /\ 1 \in Nat \ {0}
    BY DEF Valued, At
  <1>2. At(ModReduce(c, 1), t - 1, l + 1, d - 1)
    BY <1>1, ReduceAt
  <1>3. /\ ModReduce(c, 1).true = Over(c.true, DroppedFactors(t, 1))
        /\ ModReduce(c, 1).off = c.off
    <2>1. 1 < c.towers
      BY <1>1
    <2>2. QED
      BY <1>1, <2>1, ModReduceScales
  <1>4. QED
    BY <1>2, <1>3 DEF Valued

LEMMA SkipValued ==
    ASSUME NEW c, NEW t \in Int, NEW l \in Int, NEW d \in 1..3, NEW v, NEW f,
           Valued(c, t, l, d, v, f), NEW n \in Nat, n < t
    PROVE  Valued(IF n > 0 THEN LevelReduce(c, n) ELSE c, t - n, l + n, d, v, f)
  <1> DEFINE e == IF n > 0 THEN LevelReduce(c, n) ELSE c
  <1>1. At(c, t, l, d) /\ Counted(c) /\ ~c.thrown
    BY DEF Valued, At
  <1>2. At(e, t - n, l + n, d)
    BY <1>1, SkipAt
  <1>3. e.true = c.true /\ e.off = c.off
    BY <1>1, LevelReduceScales
  <1> HIDE DEF e
  <1>4. Valued(e, t - n, l + n, d, v, f)
    BY <1>2, <1>3 DEF Valued
  <1>5. QED
    BY <1>4 DEF e

\* The mark of an operand that takes over the scale of another.
Marked(f, off, other) == f \/ off \/ other

Matched(e, v, s, f) == e.true = v /\ e.scale = s /\ e.off = f

LEMMA MatchValued ==
    ASSUME NEW c, NEW t \in Int, NEW l \in Int, NEW d \in 1..3, NEW v, NEW f,
           Valued(c, t, l, d, v, f), NEW s, NEW off, NEW other
    PROVE  Matched(Do(c, [c EXCEPT !.scale = s, !.off = @ \/ off \/ other]),
                   v, s, Marked(f, off, other))
  <1> DEFINE e == [c EXCEPT !.scale = s, !.off = @ \/ off \/ other]
  <1>1. c.thrown = FALSE /\ DOMAIN c = Fields /\ c.true = v /\ c.off = f
    BY DEF Valued, At, Counted
  <1>2. Do(c, e) = e
    BY <1>1 DEF Do
  <1>3. e.true = c.true /\ e.scale = s /\ e.off = (c.off \/ off \/ other)
    BY <1>1 DEF Fields
  <1>4. QED
    BY <1>1, <1>2, <1>3 DEF Marked, Matched

\* Where Raise is a plain rescaling.
OnlyRescales(c, o) == c.deg = 2 /\ o.deg = 1 /\ o.level - c.level = 1

\* What is left of v after the last rescaling of Raise, to the level of o.
Landed(v, o) == Over(v, DroppedFactors(L - o.level + 1, 1))

\* The scales that Raise leaves, branch by branch.
LEMMA RaiseValue ==
    ASSUME Context, ~manual, NEW c, NEW o, Sound(c), Sound(o), c.level < o.level
    PROVE  LET d == Raise(c, o)
               t == L - c.level
               q == ModReduceFactor(c.towers - 1)
               big == ScalingFactorBig(o.level - 1)
               Corrected(x) == Times(c.true, Over(x, c.scale))
               Once(v) == Over(v, DroppedFactors(t, 1))
           IN  /\ c.deg = 2 /\ o.deg = 2 =>
                    Matched(d, Once(Corrected(Times(o.scale, q))), o.scale,
                            Marked(c.off, FALSE, o.off))
               /\ OnlyRescales(c, o) => d = ModReduce(c, 1)
               /\ c.deg = 2 /\ o.deg = 1 /\ ~OnlyRescales(c, o) =>
                    Matched(d, Landed(Once(Corrected(Times(big, q))), o), o.scale,
                            Marked(c.off, FactorMissing, o.off))
               /\ c.deg = 1 /\ o.deg = 2 =>
                    Matched(d, Corrected(o.scale), o.scale,
                            Marked(c.off, FALSE, o.off))
               /\ c.deg = 1 /\ o.deg = 1 =>
                    Matched(d, Landed(Corrected(big), o), o.scale,
                            Marked(c.off, FactorMissing, o.off))
  <1> DEFINE t == L - c.level
             l == c.level
             gap == o.level - c.level
             q == ModReduceFactor(c.towers - 1)
             big == ScalingFactorBig(o.level - 1)
             Correct(x) == EvalMultCore(c, Over(x, c.scale))
             Skip(d, n) == IF n > 0 THEN LevelReduce(d, n) ELSE d
             Match(d, off) == Do(d, [d EXCEPT !.scale = o.scale,
                                              !.off = @ \/ off \/ o.off])
             Corrected(x) == Times(c.true, Over(x, c.scale))
             Once(v) == Over(v, DroppedFactors(t, 1))
  <1>1. /\ At(c, t, l, c.deg) /\ c.deg \in {1, 2} /\ l \in Int /\ t \in 1..L
        /\ o.deg \in {1, 2} /\ o.level \in Int /\ L - o.level \in 1..L
    BY SoundAt
  <1>2. L \in Nat
    BY LAssumption
  <1>3. /\ gap \in Nat /\ gap >= 1 /\ t = (L - o.level) + gap /\ t > gap
        /\ t - gap = L - o.level /\ l + gap = o.level /\ t \in Int
    BY <1>1, <1>2
  <1>4. \A x : Valued(Correct(x), t, l, c.deg + 1, Corrected(x), c.off)
    <2>1. Valued(c, t, l, c.deg, c.true, c.off)
      BY <1>1 DEF Valued
    <2>2. QED
      BY <1>1, <1>3, <2>1, CorrectValued
  <1>5. ASSUME NEW d, NEW off, NEW g \in {1, 2}, NEW v,
               Valued(d, L - o.level, o.level, g, v, c.off)
        PROVE  Matched(Match(d, off), v, o.scale, Marked(c.off, off, o.off))
    <2>1. L - o.level \in Int /\ o.level \in Int /\ g \in 1..3
      BY <1>1, <1>2
    <2>2. QED
      BY <1>5, <2>1, MatchValued, Zenon
  <1>e. /\ L - o.level + 1 \in Int /\ o.level - 1 \in Int /\ L - o.level + 1 > 1
        /\ (L - o.level + 1) - 1 = L - o.level /\ (o.level - 1) + 1 = o.level
    BY <1>1, <1>2
  <1>L. ASSUME NEW d, NEW v, Valued(d, L - o.level + 1, o.level - 1, 2, v, c.off)
        PROVE  Valued(ModReduce(d, 1), L - o.level, o.level, 1, Landed(v, o), c.off)
    <2>1. Valued(ModReduce(d, 1), (L - o.level + 1) - 1, (o.level - 1) + 1, 2 - 1,
                 Landed(v, o), c.off)
      BY <1>e, <1>L, ReduceValued DEF Landed
    <2>2. QED
      BY <1>e, <2>1
  <1>O. ASSUME NEW d, NEW v, Valued(d, t, l, 3, v, c.off)
        PROVE  Valued(ModReduce(d, 1), t - 1, l + 1, 2, Once(v), c.off) \/ t <= 1
    <2>1. t > 1 => Valued(ModReduce(d, 1), t - 1, l + 1, 3 - 1, Once(v), c.off)
      BY <1>1, <1>3, <1>O, ReduceValued
    <2>2. QED
      BY <1>3, <2>1
  <1> HIDE DEF Match
  <1>6. CASE c.deg = 2 /\ o.deg = 2
    <2> DEFINE a == Correct(Times(o.scale, q))
               b == ModReduce(a, 1)
               d == Skip(b, gap - 1)
               v == Once(Corrected(Times(o.scale, q)))
    <2>1. Raise(c, o) = Match(d, FALSE)
      BY <1>6 DEF Raise, Match
    <2>2. Valued(a, t, l, 3, Corrected(Times(o.scale, q)), c.off)
      BY <1>4, <1>6
    <2> HIDE DEF a
    <2>3. Valued(b, t - 1, l + 1, 2, v, c.off)
      BY <1>3, <1>O, <2>2
    <2> HIDE DEF b, v
    <2>4. Valued(d, (t - 1) - (gap - 1), (l + 1) + (gap - 1), 2, v, c.off)
      <3>1. gap - 1 \in Nat /\ gap - 1 < t - 1 /\ t - 1 \in Int /\ l + 1 \in Int
        BY <1>1, <1>3
      <3>2. QED
        BY <2>3, <3>1, SkipValued
    <2> HIDE DEF d
    <2>5. (t - 1) - (gap - 1) = L - o.level /\ (l + 1) + (gap - 1) = o.level
      BY <1>1, <1>2, <1>3
    <2>6. Valued(d, L - o.level, o.level, 2, v, c.off)
      BY <2>4, <2>5
    <2>7. Matched(Match(d, FALSE), v, o.scale, Marked(c.off, FALSE, o.off))
      BY <1>5, <2>6
    <2>8. Matched(Raise(c, o), v, o.scale, Marked(c.off, FALSE, o.off))
      BY <2>1, <2>7, Zenon
    <2>9. o.deg # 1 /\ c.deg # 1
      BY <1>6
    <2>10. QED
      BY <1>6, <2>8, <2>9, Zenon DEF v, OnlyRescales
  <1>7. CASE OnlyRescales(c, o)
    BY <1>7 DEF Raise, OnlyRescales
  <1>8. CASE c.deg = 2 /\ o.deg = 1 /\ ~OnlyRescales(c, o)
    <2> DEFINE a == Correct(Times(big, q))
               b == ModReduce(a, 1)
               d == Skip(b, gap - 2)
               e == ModReduce(d, 1)
               v == Once(Corrected(Times(big, q)))
    <2>0. gap # 1
      BY <1>8 DEF OnlyRescales
    <2>1. Raise(c, o) = Match(e, FactorMissing)
      BY <1>8, <2>0 DEF Raise, Match
    <2>2. Valued(a, t, l, 3, Corrected(Times(big, q)), c.off)
      BY <1>4, <1>8
    <2> HIDE DEF a
    <2>3. Valued(b, t - 1, l + 1, 2, v, c.off)
      BY <1>3, <1>O, <2>2
    <2> HIDE DEF b, v
    <2>4. Valued(d, (t - 1) - (gap - 2), (l + 1) + (gap - 2), 2, v, c.off)
      <3>1. gap - 2 \in Nat /\ gap - 2 < t - 1 /\ t - 1 \in Int /\ l + 1 \in Int
        BY <1>1, <1>3, <2>0
      <3>2. QED
        BY <2>3, <3>1, SkipValued
    <2> HIDE DEF d
    <2>5. /\ (t - 1) - (gap - 2) = L - o.level + 1
          /\ (l + 1) + (gap - 2) = o.level - 1
      BY <1>1, <1>2, <1>3
    <2>6. Valued(d, L - o.level + 1, o.level - 1, 2, v, c.off)
      BY <2>4, <2>5
    <2>7. Valued(e, L - o.level, o.level, 1, Landed(v, o), c.off)
      BY <1>L, <2>6
    <2> HIDE DEF e
    <2>8. Matched(Match(e, FactorMissing), Landed(v, o), o.scale,
                  Marked(c.off, FactorMissing, o.off))
      BY <1>5, <2>7
    <2>9. QED
      BY <1>8, <2>1, <2>8 DEF v
  <1>9. CASE c.deg = 1 /\ o.deg = 2
    <2> DEFINE a == Correct(o.scale)
               d == Skip(a, gap)
               v == Corrected(o.scale)
    <2>1. Raise(c, o) = Match(d, FALSE)
      BY <1>9 DEF Raise, Match
    <2>2. Valued(a, t, l, 2, v, c.off)
      BY <1>4, <1>9
    <2> HIDE DEF a, v
    <2>3. Valued(d, t - gap, l + gap, 2, v, c.off)
      BY <1>1, <1>3, <2>2, SkipValued
    <2> HIDE DEF d
    <2>4. Valued(d, L - o.level, o.level, 2, v, c.off)
      BY <1>3, <2>3
    <2>5. Matched(Match(d, FALSE), v, o.scale, Marked(c.off, FALSE, o.off))
      BY <1>5, <2>4
    <2>6. Matched(Raise(c, o), v, o.scale, Marked(c.off, FALSE, o.off))
      BY <2>1, <2>5, Zenon
    <2>7. o.deg # 1 /\ c.deg # 2
      BY <1>9
    <2>8. QED
      BY <1>9, <2>6, <2>7, Zenon DEF v, OnlyRescales
  <1>10. CASE c.deg = 1 /\ o.deg = 1
    <2> DEFINE a == Correct(big)
               d == Skip(a, gap - 1)
               e == ModReduce(d, 1)
               v == Corrected(big)
    <2>1. Raise(c, o) = Match(e, FactorMissing)
      BY <1>10 DEF Raise, Match
    <2>2. Valued(a, t, l, 2, v, c.off)
      BY <1>4, <1>10
    <2> HIDE DEF a, v
    <2>3. Valued(d, t - (gap - 1), l + (gap - 1), 2, v, c.off)
      <3>1. gap - 1 \in Nat /\ gap - 1 < t /\ 2 \in 1..3 /\ l \in Int /\ t \in Int
        BY <1>1, <1>3
      <3>2. QED
        BY <2>2, <3>1, SkipValued, Zenon
    <2> HIDE DEF d
    <2>4. t - (gap - 1) = L - o.level + 1 /\ l + (gap - 1) = o.level - 1
      BY <1>1, <1>2, <1>3
    <2>5. Valued(d, L - o.level + 1, o.level - 1, 2, v, c.off)
      BY <2>3, <2>4
    <2>6. Valued(e, L - o.level, o.level, 1, Landed(v, o), c.off)
      BY <1>L, <2>5
    <2> HIDE DEF e
    <2>7. Matched(Match(e, FactorMissing), Landed(v, o), o.scale,
                  Marked(c.off, FactorMissing, o.off))
      BY <1>5, <2>6
    <2>8. QED
      BY <1>10, <2>1, <2>7 DEF v, OnlyRescales
  <1> HIDE DEF t, q, big, Corrected, Once
  <1>11. QED
    <2>1. \/ c.deg = 2 /\ o.deg = 2
          \/ OnlyRescales(c, o)
          \/ c.deg = 2 /\ o.deg = 1 /\ ~OnlyRescales(c, o)
          \/ c.deg = 1 /\ o.deg = 2
          \/ c.deg = 1 /\ o.deg = 1
      BY <1>1
    <2>2. OnlyRescales(c, o) => c.deg = 2 /\ o.deg = 1
      BY DEF OnlyRescales
    <2>3. QED
      BY <1>6, <1>7, <1>8, <1>9, <1>10, <2>1, <2>2
-----------------------------------------------------------------------------
(* The fields of a ciphertext tell its true scale.                           *)

\* Under FIXEDMANUAL a program may rescale more often than it multiplies: then
\* the exponent is negative and the degree is what it wraps to.
TrueScale(c) ==
    /\ c.scale = c.true
    /\ ~manual => /\ c.scale = Nominal(c.level, c.deg)
                  /\ extended /\ c.level = 0 => c.deg = 2
    /\ manual => \E e \in (-c.level)..(MaxDeg + 2) :
                    c.scale = Power(ScalingFactor(0), e) /\ e % Word = c.deg

Honest(c) == c.off \in BOOLEAN /\ (Plain(c) => TrueScale(c))

LEMMA LevelRange ==
    ASSUME NEW c, Counted(c), ~c.torn
    PROVE  c.level \in Factors /\ c.towers = L - c.level /\ c.level \in 0..(L-1)
  <1>1. c.towers \in 1..L /\ c.level \in Int /\ c.towers = L - c.level /\ L \in Nat
    BY LAssumption DEF Counted
  <1>2. QED
    BY <1>1 DEF Factors

LEMMA TrueScaleIsScale ==
    ASSUME NEW c, Counted(c), ~c.torn, TrueScale(c)
    PROVE  c.scale \in Scales /\ c.true \in Scales
  <1>1. c.level \in Factors /\ c.deg \in Int
    BY LevelRange DEF Counted
  <1>2. CASE manual
    <2>1. PICK e \in (-c.level)..(MaxDeg + 2) : c.scale = Power(ScalingFactor(0), e)
      BY <1>2 DEF TrueScale
    <2>2. ScalingFactor(0) \in Scales /\ e \in Int
      BY <2>1, FactorScales, LevelsAreFactors
    <2>3. QED
      BY <2>1, <2>2, ScaleAlgebra DEF TrueScale
  <1>3. CASE ~manual
    BY <1>1, <1>3, FactorScales DEF TrueScale
  <1>4. QED
    BY <1>2, <1>3

LEMMA ExponentWraps ==
    /\ Word \in Nat /\ MaxDeg \in Nat /\ Word > MaxDeg + 3
    /\ \A e \in (-(L-1))..(MaxDeg + 2) : e % Word = IF e >= 0 THEN e ELSE e + Word
  <1>1. Word \in Nat /\ MaxDeg \in Nat /\ L \in Nat /\ L > 2 /\ MaxDeg + L < Word
    BY WordAssumption, LAssumption
  <1>2. \A e \in 0..(Word - 1) : e % Word = e
    BY <1>1
  <1>3. \A e \in (-(Word - 1))..(-1) : e % Word = e + Word
    BY <1>1
  <1>4. \A e \in (-(L-1))..(MaxDeg + 2) :
           e \in 0..(Word - 1) \/ (e < 0 /\ e \in (-(Word - 1))..(-1))
    BY <1>1
  <1>5. QED
    BY <1>1, <1>2, <1>3, <1>4

\* A degree that is not beyond the bound is the exponent.
LEMMA DegreeIsExponent ==
    ASSUME NEW l \in 0..(L-1), NEW e \in (-l)..(MaxDeg + 2), e % Word <= MaxDeg
    PROVE  e % Word = e
  <1>1. L \in Nat /\ MaxDeg + L < Word
    BY LAssumption, WordAssumption
  <1>2. e \in (-(L-1))..(MaxDeg + 2) /\ e \in Int /\ e >= -(L-1)
    BY <1>1
  <1>3. e % Word = IF e >= 0 THEN e ELSE e + Word
    BY <1>2, ExponentWraps
  <1>4. QED
    BY <1>1, <1>2, <1>3, ExponentWraps

\* A rescaling lowers the exponent and the degree alike.
LEMMA RescaledDegree ==
    ASSUME NEW l \in 0..(L-1), NEW e \in (-l)..(MaxDeg + 2), NEW n \in Nat, l + n <= L - 1
    PROVE  ((e % Word) - n) % Word = (e - n) % Word
  <1>1. L \in Nat /\ MaxDeg + L < Word /\ Word \in Nat /\ MaxDeg \in Nat
    BY LAssumption, WordAssumption
  <1>2. e \in (-(L-1))..(MaxDeg + 2) /\ e - n \in (-(L-1))..(MaxDeg + 2)
    BY <1>1
  <1>3. /\ e % Word = (IF e >= 0 THEN e ELSE e + Word)
        /\ (e - n) % Word = (IF e - n >= 0 THEN e - n ELSE (e - n) + Word)
    BY <1>2, ExponentWraps
  <1>4. CASE e >= 0
    BY <1>3, <1>4
  <1>5. CASE e < 0
    <2>1. (e + Word) - n \in 0..(Word - 1) /\ e - n < 0
      BY <1>1, <1>5
    <2>2. ((e + Word) - n) % Word = (e + Word) - n
      BY <1>1, <2>1
    <2>3. QED
      BY <1>1, <1>2, <1>3, <1>5, <2>1, <2>2
  <1>6. QED
    BY <1>2, <1>4, <1>5

LEMMA TrueScaleAlike ==
    ASSUME NEW c, NEW d, TrueScale(c), d.scale = c.scale, d.true = c.true,
           d.level = c.level, d.deg = c.deg
    PROVE  TrueScale(d)
  <1>1. QED
    BY DEF TrueScale

LEMMA ReduceHonest ==
    ASSUME Context, NEW c, Sound(c), Honest(c), NEW n \in Nat \ {0},
           manual \/ (n = 1 /\ c.deg = 2) \/ ~(n < c.towers)
    PROVE  Honest(ModReduce(c, n))
  <1> DEFINE d == ModReduce(c, n)
  <1>1. Counted(c) /\ ~c.thrown /\ L \in Nat /\ n \in Int
    BY LAssumption DEF Sound, Kept
  <1>2. d.off = c.off /\ c.off \in BOOLEAN
    BY <1>1, ModReduceScales, Zenon DEF Honest
  <1>3. CASE n < c.towers
    <2>1. /\ d.true = Over(c.true, DroppedFactors(c.towers, n))
          /\ d.scale = Over(c.scale, DroppedFactors(c.towers, n))
      BY <1>1, <1>3, ModReduceScales, Zenon
    <2>2. d.level = c.level + n /\ d.torn = c.torn /\ d.deg = (c.deg - n) % Word
      BY <1>1, <1>3, ModReduceKeeps, Zenon
    <2> HIDE DEF d
    <2>3. ASSUME Plain(d) PROVE TrueScale(d)
      <3>1. Plain(c) /\ TrueScale(c) /\ ~c.torn
        BY <1>2, <2>2, <2>3 DEF Plain, Honest
      <3>2. /\ c.level \in Factors /\ c.towers = L - c.level /\ c.level \in 0..(L-1)
        BY <1>1, <3>1, LevelRange
      <3>3. d.scale = d.true
        BY <2>1, <3>1 DEF TrueScale
      <3>4. CASE manual
        <4>1. PICK e \in (-c.level)..(MaxDeg + 2) :
                 c.scale = Power(ScalingFactor(0), e) /\ e % Word = c.deg
          BY <3>1, <3>4 DEF TrueScale
        <4>2. ~flexible
          BY <3>4 DEF manual, flexible
        <4>3. DroppedFactors(c.towers, n) = Power(ScalingFactor(0), n)
          BY <4>2 DEF DroppedFactors
        <4>4. ScalingFactor(0) \in Scales /\ e \in Int
          BY <4>1, FactorScales, LevelsAreFactors
        <4>5. d.scale = Power(ScalingFactor(0), e - n)
          BY <1>1, <2>1, <4>1, <4>3, <4>4, PowersAdd
        <4>6. d.deg = (e - n) % Word
          <5>1. c.level + n <= L - 1
            BY <1>1, <1>3, <3>2
          <5>2. QED
            BY <2>2, <3>2, <4>1, <5>1, RescaledDegree
        <4>7. e - n \in (-d.level)..(MaxDeg + 2)
          BY <1>1, <2>2, <3>2, <4>1, ExponentWraps
        <4>8. QED
          BY <3>3, <3>4, <4>5, <4>6, <4>7 DEF TrueScale
      <3>5. CASE ~manual
        <4>1. n = 1 /\ c.deg = 2
          BY <1>3, <3>5
        <4>2. c.level \in 0..(L-2) /\ c.level + 1 # 0
          BY <1>1, <1>3, <3>2, <4>1
        <4>3. c.scale = Nominal(c.level, 2)
          BY <3>1, <3>5, <4>1 DEF TrueScale
        <4>4. d.scale = Nominal(c.level + 1, 1)
          BY <2>1, <3>2, <4>1, <4>2, <4>3, RescaledNominal
        <4>5. d.deg = 1
          <5>1. d.deg = (2 - 1) % Word
            BY <2>2, <4>1
          <5>2. QED
            BY <5>1, Wraps
        <4>6. QED
          BY <2>2, <3>3, <3>5, <4>1, <4>2, <4>4, <4>5 DEF TrueScale
      <3>6. QED
        BY <3>4, <3>5
    <2>4. QED
      BY <1>2, <2>3 DEF Honest, d
  <1>4. CASE ~(n < c.towers)
    <2>1. /\ d.scale = c.scale /\ d.level = c.level /\ d.deg = c.deg
          /\ \/ d.true = c.true /\ d.torn = c.torn
             \/ /\ d.true = Over(c.true, DroppedFactors(c.towers, c.towers - 1))
                /\ d.torn = (c.torn \/ c.towers - 1 > 0)
      BY <1>1, <1>4, ModReduceScales, Zenon
    <2> HIDE DEF d
    <2>2. ASSUME Plain(d) PROVE TrueScale(d)
      <3>1. ~c.torn /\ ~c.off /\ ~d.torn
        BY <1>2, <2>1, <2>2 DEF Plain
      <3>2. Plain(c) /\ TrueScale(c)
        BY <3>1 DEF Plain, Honest
      <3>3. d.true = c.true
        <4>1. CASE d.true = c.true
          BY <4>1
        <4>2. CASE /\ d.true = Over(c.true, DroppedFactors(c.towers, c.towers - 1))
                   /\ d.torn = (c.torn \/ c.towers - 1 > 0)
          <5>1. ~(c.towers - 1 > 0)
            BY <3>1, <4>2
          <5>2. c.towers = 1 /\ c.towers - 1 = 0
            BY <1>1, <5>1 DEF Counted
          <5>3. d.true = Over(c.true, One)
            BY <4>2, <5>2, DroppedNone
          <5>4. QED
            BY <1>1, <3>1, <3>2, <5>3, TrueScaleIsScale, ScaleAlgebra
        <4>3. QED
          BY <2>1, <4>1, <4>2
      <3>4. QED
        BY <2>1, <3>2, <3>3, TrueScaleAlike
    <2>3. QED
      BY <1>2, <2>2 DEF Honest, d
  <1>5. QED
    BY <1>3, <1>4

\* Towers that are dropped leave the scale alone.  Under a fixed technique all
\* levels have one factor.
LEMMA DropHonest ==
    ASSUME NEW c, Counted(c), ~c.thrown, Honest(c), NEW n \in Nat, ~flexible
    PROVE  Honest(LevelReduce(c, n))
  <1> DEFINE d == LevelReduce(c, n)
  <1>1. c.level \in Int
    BY DEF Counted
  <1>2. /\ d.off = c.off /\ d.true = c.true /\ d.scale = c.scale
        /\ d.level = c.level \/ d.level = c.level + n
    BY LevelReduceScales, Zenon
  <1>3. d.deg = c.deg /\ d.torn = c.torn
    BY LevelReduceKeeps, Zenon
  <1> HIDE DEF d
  <1>4. ASSUME Plain(d) PROVE TrueScale(d)
    <2>1. TrueScale(c) /\ ~extended
      BY <1>2, <1>3, <1>4 DEF Plain, Honest, flexible, extended
    <2>2. Nominal(d.level, c.deg) = Nominal(c.level, c.deg)
      <3>1. ScalingFactor(d.level) = ScalingFactor(0) /\ ScalingFactor(c.level) = ScalingFactor(0)
        BY FixedFactors
      <3>2. QED
        BY <2>1, <3>1 DEF Nominal
    <2>3. \A e : e \in (-c.level)..(MaxDeg + 2) => e \in (-d.level)..(MaxDeg + 2)
      BY <1>1, <1>2, WordAssumption
    <2>4. QED
      BY <1>2, <1>3, <2>1, <2>2, <2>3 DEF TrueScale
  <1>5. QED
    BY <1>2, <1>4 DEF Honest, d

\* Does Raise ask for the factor of a product?
NeedsFactor(c, o) == o.deg = 1 /\ (c.deg = 1 \/ c.level + 1 < o.level)

\* The operand of the lower level comes out at the scale of the other.
LEMMA RaisedScale ==
    ASSUME Context, ~manual, NEW c, NEW o, Sound(c), Sound(o), c.level < o.level,
           Plain(c), Plain(o), TrueScale(c), TrueScale(o),
           ~(FactorMissing /\ NeedsFactor(c, o))
    PROVE  Raise(c, o).true = o.scale /\ Raise(c, o).scale = o.scale
  <1> DEFINE d == Raise(c, o)
             t == L - c.level
             q == ModReduceFactor(c.towers - 1)
             big == ScalingFactorBig(o.level - 1)
             Corrected(x) == Times(c.true, Over(x, c.scale))
             Once(v) == Over(v, DroppedFactors(t, 1))
  <1>1. /\ Counted(c) /\ Counted(o) /\ ~c.torn /\ ~o.torn /\ ~c.thrown
        /\ c.deg \in {1, 2} /\ o.deg \in {1, 2} /\ L \in Nat
    BY LAssumption DEF Sound, Kept, Plain
  <1>2. /\ c.level \in 0..(L-1) /\ c.towers = t /\ t \in 1..L
        /\ o.level \in 0..(L-1) /\ o.level - 1 \in 0..(L-2) /\ o.level - 1 \in Factors
        /\ L - (o.level - 1) = L - o.level + 1 /\ (o.level - 1) + 1 = o.level
    <2>1. c.level \in 0..(L-1) /\ c.towers = t /\ c.towers \in 1..L /\ o.level \in 0..(L-1)
      BY <1>1, LevelRange DEF Counted
    <2>2. QED
      BY <1>1, <2>1 DEF Factors
  <1>3. c.true = c.scale /\ c.scale \in Scales /\ o.scale \in Scales /\ big \in Scales
    BY <1>1, <1>2, TrueScaleIsScale, FactorScales DEF TrueScale
  <1>4. DroppedFactors(t, 1) = q /\ q \in Scales
    BY <1>2, DroppedOne
  <1>5. ASSUME NEW x \in Scales PROVE Corrected(x) = x
    BY <1>3, <1>5, ScaleAlgebra
  <1>6. ASSUME NEW x \in Scales PROVE Once(Corrected(Times(x, q))) = x
    <2>1. Times(x, q) \in Scales
      BY <1>4, <1>6, ScaleAlgebra
    <2>2. Corrected(Times(x, q)) = Times(x, q)
      BY <1>5, <2>1
    <2>3. Over(Times(x, q), q) = x
      BY <1>4, <1>6, ScaleAlgebra
    <2>4. QED
      BY <1>4, <2>2, <2>3
  <1>7. o.scale = Nominal(o.level, o.deg) /\ c.scale = Nominal(c.level, c.deg)
    BY DEF TrueScale
  <1>8. ASSUME NeedsFactor(c, o) PROVE Landed(big, o) = o.scale
    <2>1. flexible \/ scheme # "CKKS"
      BY <1>8 DEF FactorMissing, flexible, manual, Techniques, Context
    <2>2. Over(big, DroppedFactors(L - (o.level - 1), 1)) = Nominal((o.level - 1) + 1, 1)
      BY <1>2, <2>1, RescaledProduct
    <2>3. o.deg = 1
      BY <1>8 DEF NeedsFactor
    <2>4. QED
      BY <1>2, <1>7, <2>2, <2>3 DEF Landed
  <1>9. CASE OnlyRescales(c, o)
    <2>1. d = ModReduce(c, 1)
      BY <1>9, RaiseValue
    <2>2. c.deg = 2 /\ o.deg = 1 /\ o.level = c.level + 1 /\ 1 \in Nat \ {0}
      BY <1>2, <1>9 DEF OnlyRescales
    <2>3. 1 < c.towers /\ c.level \in 0..(L-2)
      BY <1>1, <1>2, <2>2
    <2>4. /\ d.true = Over(c.true, DroppedFactors(t, 1))
          /\ d.scale = Over(c.scale, DroppedFactors(t, 1))
      BY <1>1, <1>2, <2>1, <2>2, <2>3, ModReduceScales
    <2> HIDE DEF d
    <2>5. Over(c.scale, DroppedFactors(t, 1)) = Nominal(c.level + 1, 1)
      BY <1>7, <2>2, <2>3, RescaledNominal
    <2>6. d.true = o.scale /\ d.scale = o.scale
      BY <1>3, <1>7, <2>2, <2>4, <2>5
    <2>7. QED
      BY <2>6 DEF d
  <1>10. CASE c.deg = 2 /\ o.deg = 2
    <2>1. Matched(d, Once(Corrected(Times(o.scale, q))), o.scale, Marked(c.off, FALSE, o.off))
      BY <1>10, RaiseValue, Zenon
    <2>2. QED
      BY <1>3, <1>6, <2>1 DEF Matched
  <1>11. CASE c.deg = 2 /\ o.deg = 1 /\ ~OnlyRescales(c, o)
    <2>1. Matched(d, Landed(Once(Corrected(Times(big, q))), o), o.scale,
                  Marked(c.off, FactorMissing, o.off))
      BY <1>11, RaiseValue, Zenon
    <2>2. NeedsFactor(c, o)
      BY <1>2, <1>11 DEF NeedsFactor, OnlyRescales
    <2>3. Once(Corrected(Times(big, q))) = big
      BY <1>3, <1>6
    <2> HIDE DEF d, Once, Corrected, big, q
    <2>4. d.true = o.scale /\ d.scale = o.scale
      BY <1>8, <2>1, <2>2, <2>3 DEF Matched
    <2>5. QED
      BY <2>4 DEF d
  <1>12. CASE c.deg = 1 /\ o.deg = 2
    <2>1. Matched(d, Corrected(o.scale), o.scale, Marked(c.off, FALSE, o.off))
      BY <1>12, RaiseValue, Zenon
    <2>2. QED
      BY <1>3, <1>5, <2>1 DEF Matched
  <1>13. CASE c.deg = 1 /\ o.deg = 1
    <2>1. Matched(d, Landed(Corrected(big), o), o.scale, Marked(c.off, FactorMissing, o.off))
      BY <1>13, RaiseValue, Zenon
    <2>2. NeedsFactor(c, o)
      BY <1>13 DEF NeedsFactor
    <2>3. Corrected(big) = big
      BY <1>3, <1>5
    <2> HIDE DEF d, Corrected, big
    <2>4. d.true = o.scale /\ d.scale = o.scale
      BY <1>8, <2>1, <2>2, <2>3 DEF Matched
    <2>5. QED
      BY <2>4 DEF d
  <1>14. QED
    BY <1>1, <1>9, <1>10, <1>11, <1>12, <1>13

\* Unless it is a plain rescaling it is marked when one of the two was or when
\* the factor of a product was asked for in vain.
LEMMA RaiseMarks ==
    ASSUME Context, ~manual, NEW c, NEW o, Sound(c), Sound(o), c.level < o.level,
           ~OnlyRescales(c, o), c.off \in BOOLEAN, o.off \in BOOLEAN
    PROVE  /\ Raise(c, o).off \in BOOLEAN
           /\ Raise(c, o).off <=> c.off \/ o.off \/ (FactorMissing /\ o.deg = 1)
  <1>1. c.deg \in {1, 2} /\ o.deg \in {1, 2}
    BY DEF Sound, Kept
  <1>2. CASE o.deg = 2
    <2>1. Raise(c, o).off = Marked(c.off, FALSE, o.off)
      <3>1. CASE c.deg = 2
        BY <1>2, <3>1, RaiseValue, Zenon DEF Matched
      <3>2. CASE c.deg = 1
        BY <1>2, <3>2, RaiseValue, Zenon DEF Matched
      <3>3. QED
        BY <1>1, <3>1, <3>2
    <2>2. o.deg # 1
      BY <1>2
    <2>3. QED
      BY <2>1, <2>2, Zenon DEF Marked
  <1>3. CASE o.deg = 1
    <2>1. Raise(c, o).off = Marked(c.off, FactorMissing, o.off)
      <3>1. CASE c.deg = 2
        BY <1>3, <3>1, RaiseValue, Zenon DEF Matched
      <3>2. CASE c.deg = 1
        BY <1>3, <3>2, RaiseValue, Zenon DEF Matched
      <3>3. QED
        BY <1>1, <3>1, <3>2
    <2>2. FactorMissing \in BOOLEAN
      BY DEF FactorMissing
    <2>3. QED
      BY <1>3, <2>1, <2>2, Zenon DEF Marked
  <1>4. QED
    BY <1>1, <1>2, <1>3

LEMMA RaiseHonest ==
    ASSUME Context, ~manual, NEW c, NEW o, Sound(c), Sound(o), c.level < o.level,
           Honest(c), Honest(o)
    PROVE  Honest(Raise(c, o))
  <1>1. CASE OnlyRescales(c, o)
    <2>1. Raise(c, o) = ModReduce(c, 1)
      BY <1>1, RaiseValue
    <2>2. c.deg = 2 /\ 1 \in Nat \ {0}
      BY <1>1 DEF OnlyRescales
    <2>3. QED
      BY <2>1, <2>2, ReduceHonest
  <1>2. CASE ~OnlyRescales(c, o)
    <2> DEFINE d == Raise(c, o)
    <2>1. /\ d.off \in BOOLEAN
          /\ d.off <=> c.off \/ o.off \/ (FactorMissing /\ o.deg = 1)
      BY <1>2, RaiseMarks DEF Honest
    <2>2. ASSUME Plain(d) PROVE TrueScale(d)
      <3>1. /\ ~c.off /\ ~o.off /\ ~(FactorMissing /\ o.deg = 1)
        BY <2>1, <2>2 DEF Plain
      <3>2. ~c.torn /\ ~o.torn
        BY DEF Sound, Kept, Counted
      <3>3. Plain(c) /\ Plain(o) /\ TrueScale(c) /\ TrueScale(o)
        BY <3>1, <3>2 DEF Plain, Honest
      <3>4. d.true = o.scale /\ d.scale = o.scale
        BY <3>1, <3>3, RaisedScale DEF NeedsFactor
      <3>5. d.level = o.level /\ d.deg = o.deg
        BY RaiseAt DEF At
      <3> HIDE DEF d
      <3>6. d.scale = o.scale /\ d.true = o.true
        BY <3>3, <3>4 DEF TrueScale
      <3>7. QED
        BY <3>3, <3>5, <3>6, TrueScaleAlike
    <2>3. QED
      BY <2>1, <2>2 DEF Honest
  <1>3. QED
    BY <1>1, <1>2

\* A multiplication by a constant at the factor of the level.
LEMMA CoreHonest ==
    ASSUME Context, NEW c, Sound(c), Honest(c), NEW x,
           Plain(c) => x = ScalingFactor(c.level),
           manual => c.deg < MaxDeg, ~manual => c.deg = 1
    PROVE  LET d == EvalMultCore(c, x) IN
           /\ Honest(d)
           /\ Plain(c) /\ ~manual => /\ d.true = Nominal(c.level, 2)
                                     /\ ~(extended /\ c.level = 0)
           /\ d.off = c.off
  <1> DEFINE d == EvalMultCore(c, x)
  <1>1. Counted(c) /\ ~c.thrown /\ c.deg \in Nat
    BY DEF Sound, Kept, Counted
  <1>2. /\ d.true = Times(c.true, x)
        /\ d.scale = IF scheme = "CKKS" THEN Times(c.scale, ScalingFactor(c.level))
                                        ELSE Times(c.scale, x)
        /\ d.off = c.off /\ c.off \in BOOLEAN
    BY <1>1, EvalMultCoreScales, Zenon DEF Honest
  <1>3. /\ d.level = c.level /\ d.torn = c.torn
        /\ ~manual => d.deg = 2
        /\ d.deg = (c.deg + 1) % Word
    <2>1. /\ d.level = c.level /\ d.torn = c.torn
          /\ ~c.thrown /\ c.deg \in {1, 2} => d.deg = c.deg + 1
      BY <1>1, EvalMultCoreKeeps, Zenon
    <2>2. d.deg = (c.deg + 1) % Word
      BY <1>1 DEF EvalMultCore, Do, Counted, Fields
    <2> HIDE DEF d
    <2>3. QED
      BY <1>1, <2>1, <2>2
  <1> HIDE DEF d
  <1>4. ASSUME Plain(c)
        PROVE  /\ TrueScale(d)
               /\ ~manual => d.true = Nominal(c.level, 2) /\ ~(extended /\ c.level = 0)
    <2>1. TrueScale(c) /\ x = ScalingFactor(c.level) /\ ~c.torn
      BY <1>4 DEF Honest, Plain
    <2>2. c.level \in Factors /\ c.level \in 0..(L-1)
      BY <1>1, <2>1, LevelRange
    <2>3. d.true = Times(c.scale, ScalingFactor(c.level)) /\ d.scale = d.true
      BY <1>2, <2>1 DEF TrueScale
    <2>4. ScalingFactor(c.level) \in Scales /\ ScalingFactor(0) \in Scales
      BY <2>2, FactorScales, LevelsAreFactors
    <2>5. CASE manual
      <3>1. PICK e \in (-c.level)..(MaxDeg + 2) :
               c.scale = Power(ScalingFactor(0), e) /\ e % Word = c.deg
        BY <2>1, <2>5 DEF TrueScale
      <3>2. e = c.deg /\ e \in Int
        <4>1. e % Word <= MaxDeg
          BY <1>1, <2>5, <3>1, ExponentWraps
        <4>2. QED
          BY <2>2, <3>1, <4>1, DegreeIsExponent
      <3>3. ~flexible
        BY <2>5 DEF manual, flexible
      <3>4. ScalingFactor(c.level) = Power(ScalingFactor(0), 1)
        BY <2>4, <3>3, FixedFactors, ScaleAlgebra
      <3>5. d.scale = Power(ScalingFactor(0), e + 1)
        <4>1. e \in Int /\ 1 \in Int
          BY <3>2
        <4>2. Times(Power(ScalingFactor(0), e), Power(ScalingFactor(0), 1))
                = Power(ScalingFactor(0), e + 1)
          BY <2>4, <4>1, PowersAdd
        <4>3. QED
          BY <2>3, <3>1, <3>4, <4>2
      <3>6. e + 1 \in (-d.level)..(MaxDeg + 2)
        BY <1>1, <1>3, <2>2, <2>5, <3>2, ExponentWraps
      <3>7. d.deg = (e + 1) % Word
        BY <1>3, <3>2
      <3>8. QED
        BY <2>3, <2>5, <3>5, <3>6, <3>7 DEF TrueScale
    <2>6. CASE ~manual
      <3>1. c.deg = 1 /\ c.scale = Nominal(c.level, 1) /\ ~(extended /\ c.level = 0)
        BY <2>1, <2>6 DEF TrueScale
      <3>2. c.scale = ScalingFactor(c.level)
        BY <2>4, <3>1, ScaleAlgebra DEF Nominal
      <3>3. d.true = Power(ScalingFactor(c.level), 2)
        BY <2>3, <2>4, <3>2, ScaleAlgebra
      <3>4. d.true = Nominal(c.level, 2)
        BY <3>1, <3>3 DEF Nominal
      <3>5. QED
        BY <1>3, <2>3, <2>6, <3>1, <3>4 DEF TrueScale
    <2>7. QED
      BY <2>5, <2>6
  <1>5. Plain(d) => Plain(c)
    BY <1>2, <1>3 DEF Plain
  <1>6. Honest(d)
    BY <1>2, <1>4, <1>5 DEF Honest
  <1>7. QED
    BY <1>2, <1>4, <1>6 DEF d

LEMMA RaiseDegreeHonest ==
    ASSUME Context, ~manual, NEW c, Sound(c), Honest(c), c.deg = 1
    PROVE  /\ Honest(RaiseDegree(c))
           /\ Plain(c) => /\ RaiseDegree(c).true = Nominal(c.level, 2)
                          /\ ~(extended /\ c.level = 0)
           /\ RaiseDegree(c).off = c.off
  <1> DEFINE x == IF scheme = "CKKS" THEN ScalingFactor(c.level) ELSE c.scale
  <1>1. RaiseDegree(c) = EvalMultCore(c, x)
    BY DEF RaiseDegree
  <1>2. ASSUME Plain(c) PROVE x = ScalingFactor(c.level)
    <2>1. TrueScale(c) /\ Counted(c) /\ ~c.torn
      BY <1>2 DEF Honest, Plain, Sound, Kept
    <2>2. ScalingFactor(c.level) \in Scales
      BY <2>1, LevelRange, FactorScales
    <2>3. c.scale = Power(ScalingFactor(c.level), 1)
      BY <2>1 DEF TrueScale, Nominal
    <2>4. QED
      BY <2>2, <2>3, ScaleAlgebra
  <1> HIDE DEF x
  <1>3. QED
    BY <1>1, <1>2, CoreHonest

LEMMA DepthHonest ==
    ASSUME Context, ~manual, NEW a, NEW b, Sound(a), Sound(b), Honest(a), Honest(b)
    PROVE  LET p == AdjustLevelsAndDepth(a, b) IN Honest(p[1]) /\ Honest(p[2])
  <1> DEFINE p == AdjustLevelsAndDepth(a, b)
  <1>1. /\ a.deg \in {1, 2} /\ a.level \in Int /\ b.deg \in {1, 2} /\ b.level \in Int
    BY SoundAt
  <1>2. CASE a.level < b.level
    <2>1. p = <<Raise(a, b), b>>
      BY <1>2 DEF AdjustLevelsAndDepth
    <2>2. QED
      BY <1>2, <2>1, RaiseHonest
  <1>3. CASE a.level > b.level
    <2>1. p = <<a, Raise(b, a)>> /\ b.level < a.level
      BY <1>1, <1>3 DEF AdjustLevelsAndDepth
    <2>2. QED
      BY <2>1, RaiseHonest
  <1>4. CASE a.level = b.level /\ a.deg < b.deg
    <2>1. p = <<RaiseDegree(a), b>> /\ a.deg = 1
      BY <1>1, <1>4 DEF AdjustLevelsAndDepth
    <2>2. QED
      BY <2>1, RaiseDegreeHonest
  <1>5. CASE a.level = b.level /\ b.deg < a.deg
    <2>1. p = <<a, RaiseDegree(b)>> /\ b.deg = 1
      BY <1>1, <1>5 DEF AdjustLevelsAndDepth
    <2>2. QED
      BY <2>1, RaiseDegreeHonest
  <1>6. CASE a.level = b.level /\ a.deg = b.deg
    <2>1. p = <<a, b>>
      BY <1>1, <1>6 DEF AdjustLevelsAndDepth
    <2>2. QED
      BY <2>1
  <1>7. QED
    BY <1>1, <1>2, <1>3, <1>4, <1>5, <1>6

LEMMA LevelsHonest ==
    ASSUME manual, NEW a, NEW b, Sound(a), Sound(b), Honest(a), Honest(b)
    PROVE  LET p == AdjustLevels(a, b) IN Honest(p[1]) /\ Honest(p[2])
  <1> DEFINE p == AdjustLevels(a, b)
  <1>1. ~flexible
    BY DEF manual, flexible
  <1>0. Counted(a) /\ ~a.thrown /\ Counted(b) /\ ~b.thrown
    BY DEF Sound, Kept
  <1>2. a.towers \in 1..L /\ b.towers \in 1..L /\ L \in Nat
    BY LAssumption DEF Sound, Kept, Counted
  <1>3. CASE a.towers < b.towers
    <2>1. p = <<a, LevelReduce(b, b.towers - a.towers)>> /\ b.towers - a.towers \in Nat
      BY <1>2, <1>3 DEF AdjustLevels
    <2>2. QED
      BY <1>0, <1>1, <2>1, DropHonest
  <1>4. CASE a.towers > b.towers
    <2>1. p = <<LevelReduce(a, a.towers - b.towers), b>> /\ a.towers - b.towers \in Nat
      BY <1>2, <1>4 DEF AdjustLevels
    <2>2. QED
      BY <1>0, <1>1, <2>1, DropHonest
  <1>5. CASE a.towers = b.towers
    <2>1. p = <<a, b>>
      BY <1>2, <1>5 DEF AdjustLevels
    <2>2. QED
      BY <2>1
  <1>6. QED
    BY <1>2, <1>3, <1>4, <1>5

LEMMA AddHonest ==
    ASSUME Context, NEW a, NEW b, Sound(a), Sound(b), Honest(a), Honest(b)
    PROVE  LET p == AdjustForAddOrSub(a, b) IN Honest(p[1]) /\ Honest(p[2])
  <1>1. CASE manual
    BY <1>1, LevelsHonest DEF AdjustForAddOrSub
  <1>2. CASE ~manual
    BY <1>2, DepthHonest DEF AdjustForAddOrSub
  <1>3. QED
    BY <1>1, <1>2

\* The operands of a product, and their one level under an automatic technique.
LEMMA MultHonest ==
    ASSUME Context, NEW a, NEW b, Sound(a), Sound(b), Honest(a), Honest(b)
    PROVE  LET p == AdjustForMult(a, b) IN
           /\ Honest(p[1]) /\ Honest(p[2])
           /\ ~Thrown(p) /\ ~manual => p[1].level = p[2].level
  <1>1. CASE manual
    BY <1>1, LevelsHonest DEF AdjustForMult
  <1>2. CASE ~manual
    <2> DEFINE p == AdjustLevelsAndDepth(a, b)
               r == ModReduce(p[1], 1)
               u == ModReduce(p[2], 1)
    <2>1. AdjustForMult(a, b) = IF p[1].deg # 2 THEN p
                                ELSE <<r, IF r.thrown THEN p[2] ELSE u>>
      BY <1>2 DEF AdjustForMult, AdjustLevelsAndDepthToOne
    <2>2. /\ Sound(p[1]) /\ Sound(p[2])
          /\ p[1].deg = p[2].deg /\ p[1].level = p[2].level
      BY <1>2, DepthAdjusted, Zenon
    <2>3. Honest(p[1]) /\ Honest(p[2])
      BY <1>2, DepthHonest, Zenon
    <2> HIDE DEF p
    <2>4. 1 \in Nat \ {0} /\ Counted(p[1]) /\ Counted(p[2]) /\ ~p[1].thrown /\ ~p[2].thrown
      BY <2>2 DEF Sound, Kept
    <2>5. CASE p[1].deg # 2
      BY <2>1, <2>2, <2>3, <2>5
    <2>6. CASE p[1].deg = 2
      <3>1. Honest(r) /\ Honest(u)
        BY <2>2, <2>3, <2>4, <2>6, ReduceHonest
      <3>2. ~r.thrown => r.level = p[1].level + 1
        BY <1>2, <2>4, ModReduceKeeps
      <3>3. ~u.thrown => u.level = p[2].level + 1
        BY <1>2, <2>4, ModReduceKeeps
      <3> HIDE DEF r, u
      <3>4. AdjustForMult(a, b) = <<r, IF r.thrown THEN p[2] ELSE u>>
        BY <2>1, <2>6
      <3>5. QED
        BY <2>2, <2>3, <3>1, <3>2, <3>3, <3>4 DEF Thrown
    <2>7. QED
      BY <2>5, <2>6
  <1>3. QED
    BY <1>1, <1>2

LEMMA SumHonest ==
    ASSUME NEW a, NEW b, Sound(a), Sound(b), Honest(a), Honest(b)
    PROVE  Honest(Sum(a, b))
  <1> DEFINE d == Sum(a, b)
  <1>1. /\ d.level = a.level /\ d.deg = a.deg /\ d.scale = a.scale /\ d.true = a.true
        /\ d.torn = (a.torn \/ b.torn) /\ d.off = (a.off \/ b.off)
    <2>1. DOMAIN a = Fields
      BY DEF Sound, Kept, Counted
    <2>2. QED
      BY <2>1 DEF Sum, Fields
  <1> HIDE DEF d
  <1>2. d.off \in BOOLEAN
    BY <1>1, Zenon DEF Honest
  <1>3. Plain(d) => Plain(a)
    BY <1>1, Zenon DEF Plain
  <1>4. Plain(a) => TrueScale(a)
    BY DEF Honest
  <1>5. TrueScale(a) => TrueScale(d)
    BY <1>1, TrueScaleAlike
  <1>6. QED
    BY <1>2, <1>3, <1>4, <1>5 DEF Honest, d

LEMMA ProductHonest ==
    ASSUME Context, NEW a, NEW b, Kept(a), Kept(b), Honest(a), Honest(b),
           ~manual => a.deg = 1 /\ b.deg = 1 /\ a.level = b.level,
           Multipliable(a, b)
    PROVE  Honest(Product(a, b))
  <1> DEFINE d == Product(a, b)
  <1>0. Counted(a) /\ Counted(b) /\ a.deg \in Nat /\ b.deg \in Nat /\ DOMAIN a = Fields
    BY DEF Kept, Counted
  <1>1. /\ d.level = a.level /\ d.deg = a.deg + b.deg
        /\ d.scale = Times(a.scale, b.scale) /\ d.true = Times(a.true, b.true)
        /\ d.torn = (a.torn \/ b.torn) /\ d.off = (a.off \/ b.off)
    BY <1>0 DEF Product, Fields
  <1> HIDE DEF d
  <1>2. d.off \in BOOLEAN
    BY <1>1, Zenon DEF Honest
  <1>3. Plain(d) => Plain(a) /\ Plain(b)
    BY <1>1, Zenon DEF Plain
  <1>4. ASSUME Plain(a), Plain(b) PROVE TrueScale(d)
    <2>1. TrueScale(a) /\ TrueScale(b) /\ ~a.torn /\ ~b.torn
      BY <1>4 DEF Honest, Plain
    <2>2. /\ a.level \in Factors /\ a.level \in 0..(L-1)
          /\ b.level \in Factors /\ b.level \in 0..(L-1)
      BY <1>0, <2>1, LevelRange
    <2>3. d.scale = d.true
      BY <1>1, <2>1 DEF TrueScale
    <2>4. ScalingFactor(0) \in Scales /\ ScalingFactor(a.level) \in Scales
      BY <2>2, FactorScales, LevelsAreFactors
    <2>5. CASE manual
      <3>1. PICK e \in (-a.level)..(MaxDeg + 2) :
               a.scale = Power(ScalingFactor(0), e) /\ e % Word = a.deg
        BY <2>1, <2>5 DEF TrueScale
      <3>2. PICK f \in (-b.level)..(MaxDeg + 2) :
               b.scale = Power(ScalingFactor(0), f) /\ f % Word = b.deg
        BY <2>1, <2>5 DEF TrueScale
      <3>3. a.deg <= MaxDeg /\ b.deg <= MaxDeg /\ a.deg + b.deg <= MaxDeg
        BY <1>0, ExponentWraps DEF Multipliable
      <3>4. e = a.deg /\ f = b.deg /\ e \in Int /\ f \in Int
        <4>1. e % Word = e
          BY <2>2, <3>1, <3>3, DegreeIsExponent
        <4>2. f % Word = f
          BY <2>2, <3>2, <3>3, DegreeIsExponent
        <4>3. QED
          BY <3>1, <3>2, <4>1, <4>2
      <3>5. d.scale = Power(ScalingFactor(0), e + f)
        <4>1. e \in Int /\ f \in Int
          BY <3>4
        <4>2. Times(Power(ScalingFactor(0), e), Power(ScalingFactor(0), f))
                = Power(ScalingFactor(0), e + f)
          BY <2>4, <4>1, PowersAdd
        <4>3. QED
          BY <1>1, <3>1, <3>2, <4>2
      <3>6. e + f \in (-d.level)..(MaxDeg + 2) /\ e + f \in (-(L-1))..(MaxDeg + 2) /\ e + f >= 0
        BY <1>0, <1>1, <2>2, <3>3, <3>4, ExponentWraps, LevelsAreFactors
      <3>7. (e + f) % Word = d.deg
        BY <1>1, <3>4, <3>6, ExponentWraps
      <3>8. QED
        BY <2>3, <2>5, <3>5, <3>6, <3>7 DEF TrueScale
    <2>6. CASE ~manual
      <3>1. a.deg = 1 /\ b.deg = 1 /\ b.level = a.level
        BY <2>6
      <3>2. /\ ~(extended /\ a.level = 0)
            /\ a.scale = Nominal(a.level, 1) /\ b.scale = Nominal(a.level, 1)
        BY <2>1, <2>6, <3>1 DEF TrueScale
      <3>3. a.scale = ScalingFactor(a.level) /\ b.scale = ScalingFactor(a.level)
        BY <2>4, <3>2, ScaleAlgebra DEF Nominal
      <3>4. d.scale = Power(ScalingFactor(a.level), 2)
        BY <1>1, <2>4, <3>3, ScaleAlgebra
      <3>5. d.deg = 2 /\ d.scale = Nominal(d.level, 2)
        BY <1>1, <3>1, <3>2, <3>4 DEF Nominal
      <3>6. QED
        BY <2>3, <2>6, <3>5 DEF TrueScale
    <2>7. QED
      BY <2>5, <2>6
  <1>5. QED
    BY <1>2, <1>3, <1>4 DEF Honest, d

LEMMA FreshHonest ==
    ASSUME Context, NEW l \in EncodeLevels[scheme] \union {0}, NEW d \in {1, 2}
    PROVE  Honest(Fresh(l, d))
  <1> DEFINE c == Fresh(l, d)
             k == IF scheme = "BGV" /\ ~flexible THEN 0 ELSE l
             big == extended /\ k = 0
             g == IF scheme = "BGV" /\ ~flexible THEN 1 ELSE IF big THEN 2 ELSE d
             s == IF big THEN ScalingFactorBig(0) ELSE Power(ScalingFactor(k), g)
  <1>1. /\ c.level = k /\ c.deg = g /\ c.scale = s /\ c.true = s /\ c.off = FALSE
    BY DEF Fresh
  <1>2. l \in 0..(L-1) /\ k \in 0..(L-1) /\ g \in {1, 2} /\ (big => g = 2)
    <2>1. l \in 0..(L-1) /\ L \in Nat /\ L > 2
      BY LevelsAssumption, LAssumption DEF Context
    <2>2. extended => flexible
      BY DEF extended, flexible
    <2>3. QED
      BY <2>1, <2>2
  <1>3. s = Nominal(k, g)
    BY DEF Nominal
  <1>4. ASSUME manual PROVE s = Power(ScalingFactor(0), g)
    <2>1. ~flexible /\ ~extended
      BY <1>4 DEF manual, flexible, extended
    <2>2. QED
      BY <2>1, FixedFactors
  <1> HIDE DEF c, k, g, s, big
  <1>5. g \in (-c.level)..(MaxDeg + 2) /\ g % Word = c.deg
    <2>1. k \in Nat /\ MaxDeg \in Nat
      BY <1>2, WordAssumption, LevelsAreFactors
    <2>2. g \in (-k)..(MaxDeg + 2)
      BY <1>2, <2>1
    <2>3. g % Word = g
      BY <1>2, Wraps
    <2>4. QED
      BY <1>1, <2>2, <2>3
  <1>6. big <=> extended /\ k = 0
    BY DEF big
  <1>7. TrueScale(c)
    BY <1>1, <1>2, <1>3, <1>4, <1>5, <1>6 DEF TrueScale
  <1>8. QED
    BY <1>1, <1>7 DEF Honest, c

LEMMA SquareHonest ==
    ASSUME Context, NEW c, Sound(c), Honest(c)
    PROVE  Honest(BeforeSquare(c))
  <1>1. CASE manual \/ c.deg = 1
    BY <1>1 DEF BeforeSquare
  <1>2. CASE ~(manual \/ c.deg = 1)
    <2>1. BeforeSquare(c) = ModReduce(c, 1) /\ c.deg = 2 /\ 1 \in Nat \ {0}
      BY <1>2 DEF BeforeSquare, Sound, Kept
    <2>2. QED
      BY <2>1, ReduceHonest
  <1>3. QED
    BY <1>1, <1>2

\* The first rescaling is one of degree 2; the second, of degree 1, matters
\* here only if it throws.
LEMMA SelfHonest ==
    ASSUME Context, NEW c, Sound(c), Honest(c), AdjustSelfForMult(c).thrown
    PROVE  Honest(AdjustSelfForMult(c))
  <1> DEFINE e == ModReduce(c, 1)
             d == ModReduce(e, 1)
  <1>1. CASE manual \/ c.deg # 2
    BY <1>1 DEF AdjustSelfForMult, RescaledTwice
  <1>2. CASE ~(manual \/ c.deg # 2)
    <2>1. AdjustSelfForMult(c) = d /\ 1 \in Nat \ {0}
      BY <1>2 DEF AdjustSelfForMult, RescaledTwice
    <2>2. Kept(e) /\ Honest(e)
      BY <1>2, <2>1, RescaledOnce, ReduceHonest
    <2> HIDE DEF e
    <2>3. CASE e.thrown
      <3>1. d = e
        BY <2>3 DEF ModReduce, Do
      <3>2. QED
        BY <2>1, <2>2, <3>1
    <2>4. CASE ~e.thrown
      <3>1. Counted(e) /\ Sound(e)
        BY <2>2, <2>4 DEF Kept, Sound
      <3>2. ~(1 < e.towers)
        BY <2>1, <2>4, <3>1, ModReduceFits, Zenon
      <3>3. Honest(d)
        BY <2>1, <2>2, <3>1, <3>2, ReduceHonest
      <3>4. QED
        BY <2>1, <3>3
    <2>5. QED
      BY <2>3, <2>4
  <1>3. QED
    BY <1>1, <1>2

LEMMA MultConstHonest ==
    ASSUME Context, NEW c, Sound(c), Honest(c), c.deg < MaxDeg, ~MultConst(c).thrown
    PROVE  Honest(MultConst(c))
  <1> DEFINE d == IF ~manual /\ c.deg = 2 THEN ModReduce(c, 1) ELSE c
             e == EvalMultCore(d, ScalingFactor(d.level))
  <1>1. MultConst(c) = e
    BY DEF MultConst
  <1>2. Kept(d) /\ Honest(d) /\ (~d.thrown /\ ~manual => d.deg = 1) /\ (manual => d = c)
    <2>1. CASE ~manual /\ c.deg = 2
      <3>1. 1 \in Nat \ {0}
        OBVIOUS
      <3>2. QED
        BY <2>1, <3>1, RescaledOnce, ReduceHonest
    <2>2. CASE ~(~manual /\ c.deg = 2)
      <3>1. d = c /\ (~manual => c.deg = 1)
        BY <2>2 DEF Sound, Kept
      <3>2. QED
        BY <3>1 DEF Sound
    <2>3. QED
      BY <2>1, <2>2
  <1> HIDE DEF d
  <1>3. e.thrown = d.thrown
    BY <1>2, EvalMultCoreKeeps, Zenon DEF Kept
  <1>4. ~d.thrown
    BY <1>1, <1>3
  <1>5. Sound(d) /\ (manual => d.deg < MaxDeg)
    BY <1>2, <1>4 DEF Sound
  <1>6. Honest(e)
    BY <1>2, <1>4, <1>5, CoreHonest
  <1>7. QED
    BY <1>1, <1>6

LEMMA CompressedHonest ==
    ASSUME Context, NEW c, Sound(c), Honest(c), NEW left \in 0..L
    PROVE  Honest(Compressed(c, left))
  <1> DEFINE d == IF c.deg > 1 THEN ModReduce(c, c.deg - 1) ELSE c
             e == LevelReduce(d, d.towers - left)
             f == [e EXCEPT !.off = @ \/ flexible]
  <1>1. Compressed(c, left) = IF d.thrown \/ left >= d.towers THEN d ELSE f
    BY DEF Compressed
  <1>2. Honest(d) /\ Counted(d)
    <2>1. CASE c.deg > 1
      <3>1. Counted(c) /\ ~c.thrown /\ c.deg \in Nat /\ (~manual => c.deg \in {1, 2})
        BY DEF Sound, Kept, Counted
      <3> DEFINE n == c.deg - 1
      <3>2. n \in Nat \ {0} /\ (manual \/ n = 1) /\ (manual \/ (n = 1 /\ c.deg = 2))
        BY <2>1, <3>1
      <3>3. d = ModReduce(c, n)
        BY <2>1
      <3> HIDE DEF n, d
      <3>4. Honest(ModReduce(c, n))
        BY <3>2, ReduceHonest
      <3>5. Counted(ModReduce(c, n))
        BY <3>1, <3>2, ModReduceKeeps, Zenon
      <3>6. QED
        BY <3>3, <3>4, <3>5
    <2>2. CASE ~(c.deg > 1)
      BY <2>2 DEF Sound, Kept
    <2>3. QED
      BY <2>1, <2>2
  <1> DEFINE m == d.towers - left
  <1> HIDE DEF d
  <1>3. CASE d.thrown \/ left >= d.towers
    BY <1>1, <1>2, <1>3
  <1>4. CASE ~(d.thrown \/ left >= d.towers)
    <2>1. Counted(d) /\ ~d.thrown /\ m \in Nat
      BY <1>2, <1>4, LAssumption DEF Counted
    <2>2. Counted(e) /\ e.deg = d.deg /\ e.torn = d.torn
      BY <2>1, LevelReduceKeeps, Zenon
    <2>3. e.off = d.off /\ d.off \in BOOLEAN
      BY <1>2, <2>1, LevelReduceScales, Zenon DEF Honest
    <2>4. ~flexible => Honest(e)
      BY <1>2, <2>1, DropHonest
    <2>5. /\ f.level = e.level /\ f.deg = e.deg /\ f.scale = e.scale /\ f.true = e.true
          /\ f.torn = e.torn /\ f.off = (e.off \/ flexible)
      BY <2>2 DEF Counted, Fields
    <2> HIDE DEF e, f
    <2>6. f.off \in BOOLEAN
      BY <2>5, Zenon
    <2>7. Plain(f) => ~flexible /\ Plain(e)
      BY <2>5, Zenon DEF Plain
    <2>8. Plain(f) => TrueScale(e)
      BY <2>4, <2>7 DEF Honest
    <2>9. TrueScale(e) => TrueScale(f)
      BY <2>5, TrueScaleAlike
    <2>10. QED
      BY <1>1, <1>4, <2>6, <2>8, <2>9 DEF Honest
  <1>5. QED
    BY <1>3, <1>4
-----------------------------------------------------------------------------
(* The steps and the scales.                                                 *)

AllHonest == \A r \in Regs \ spoilt : Honest(reg[r])

\* The factor of a level is that of the context, which no step changes.
LEMMA FactorsStay ==
    ASSUME scheme' = scheme, technique' = technique
    PROVE  \A l : ScalingFactor(l)' = ScalingFactor(l)
  <1>1. FlexibleTable' = FlexibleTable
    BY DEF FlexibleTable, extended
  <1>2. QED
    BY <1>1 DEF ScalingFactor, flexible

LEMMA NominalStays ==
    ASSUME scheme' = scheme, technique' = technique
    PROVE  \A l, d : Nominal(l, d)' = Nominal(l, d)
  <1>1. \A l : ScalingFactor(l)' = ScalingFactor(l)
    BY FactorsStay
  <1>2. extended' = extended /\ flexible' = flexible
    BY DEF extended, flexible
  <1>3. ScalingFactorBig(0)' = ScalingFactorBig(0)
    BY <1>1, <1>2 DEF ScalingFactorBig
  <1>4. QED
    BY <1>1, <1>2, <1>3 DEF Nominal

LEMMA CaughtHonest ==
    ASSUME NEW c, Counted(c), Honest(c)
    PROVE  Honest(Caught(c))
  <1> DEFINE d == Caught(c)
  <1>1. /\ d.level = c.level /\ d.deg = c.deg /\ d.scale = c.scale /\ d.true = c.true
        /\ d.torn = c.torn /\ d.off = c.off
    BY DEF Caught, Counted, Fields
  <1> HIDE DEF d
  <1>2. Plain(d) => Plain(c)
    BY <1>1 DEF Plain
  <1>3. TrueScale(c) => TrueScale(d)
    BY <1>1, TrueScaleAlike
  <1>4. Honest(d)
    BY <1>1, <1>2, <1>3 DEF Honest
  <1>5. QED
    BY <1>4 DEF d

\* What an operation that reads the registers `from' may leave.
Good(c, from) == Counted(c) /\ (from \cap spoilt = {} => Honest(c))

LEMMA ContextStays ==
    ASSUME scheme' = scheme, technique' = technique,
           \A r \in Regs \ spoilt' : Honest(reg'[r])
    PROVE  AllHonest'
  <1>1. \A l, d : Nominal(l, d)' = Nominal(l, d)
    BY NominalStays
  <1>2. ScalingFactor(0)' = ScalingFactor(0)
    BY FactorsStay
  <1>3. manual' = manual /\ extended' = extended
    BY DEF manual, extended
  <1>4. ASSUME NEW r \in Regs \ spoilt' PROVE Honest(reg[r])'
    <2>1. Honest(reg'[r])
      OBVIOUS
    <2>2. TrueScale(reg'[r]) => TrueScale(reg[r])'
      BY <1>1, <1>2, <1>3 DEF TrueScale
    <2>3. QED
      BY <2>1, <2>2 DEF Honest, Plain
  <1>5. QED
    BY <1>4 DEF AllHonest

LEMMA WriteHonest ==
    ASSUME IInv, AllHonest, NEW f, Write(f), \A r \in DOMAIN f : Counted(f[r]),
           \A r \in DOMAIN f : r \notin spoilt' => Honest(f[r]),
           \A r \in Regs : r \notin DOMAIN f /\ r \in spoilt => r \in spoilt'
    PROVE  AllHonest'
  <1>1. /\ reg' = [r \in Regs |-> IF r \in DOMAIN f THEN Caught(f[r]) ELSE reg[r]]
        /\ scheme' = scheme /\ technique' = technique
    BY DEF Write
  <1>2. \A r \in Regs \ spoilt' : Honest(reg'[r])
    BY <1>1, CaughtHonest DEF AllHonest
  <1>3. QED
    BY <1>1, <1>2, ContextStays

LEMMA StoreHonest ==
    ASSUME IInv, AllHonest, NEW f, NEW from, Store(f, from),
           \A r \in DOMAIN f : Good(f[r], from)
    PROVE  AllHonest'
  <1>1. /\ Write(f)
        /\ spoilt' = IF from \cap spoilt = {} THEN spoilt \ DOMAIN f
                                              ELSE spoilt \union DOMAIN f
    BY DEF Store
  <1>2. \A r \in DOMAIN f : Counted(f[r])
    BY DEF Good
  <1>3. \A r \in DOMAIN f : r \notin spoilt' => Honest(f[r])
    BY <1>1 DEF Good
  <1>4. \A r \in Regs : r \notin DOMAIN f /\ r \in spoilt => r \in spoilt'
    BY <1>1
  <1>5. QED
    BY <1>1, <1>2, <1>3, <1>4, WriteHonest

LEMMA PutHonest ==
    ASSUME IInv, AllHonest, NEW r, NEW c, NEW from, Good(c, from), Put(r, c, from)
    PROVE  AllHonest'
  <1>1. \A y \in DOMAIN [x \in {r} |-> c] : Good([x \in {r} |-> c][y], from)
    OBVIOUS
  <1>2. QED
    BY <1>1, StoreHonest DEF Put

LEMMA PutPairHonest ==
    ASSUME IInv, AllHonest, NEW r, NEW s, NEW p, Good(p[1], {r, s}),
           Good(p[2], {r, s}), PutPair(r, s, p)
    PROVE  AllHonest'
  <1> DEFINE f == [x \in {r, s} |-> IF x = r THEN p[1] ELSE p[2]]
  <1>1. \A y \in DOMAIN f : Good(f[y], {r, s})
    OBVIOUS
  <1>2. Store(f, {r, s})
    BY DEF PutPair
  <1> HIDE DEF f
  <1>3. QED
    BY <1>1, <1>2, StoreHonest

LEMMA PutThreeHonest ==
    ASSUME IInv, AllHonest, NEW d, NEW c, NEW r, NEW s, NEW p, Good(c, {r, s}),
           Good(p[1], {r, s}), Good(p[2], {r, s}), PutThree(d, c, r, s, p)
    PROVE  AllHonest'
  <1> DEFINE f == [x \in {d, r, s} |-> IF x = d THEN c
                                        ELSE IF x = r THEN p[1] ELSE p[2]]
  <1>1. \A y \in DOMAIN f : Good(f[y], {r, s})
    OBVIOUS
  <1>2. Store(f, {r, s})
    BY DEF PutThree
  <1> HIDE DEF f
  <1>3. QED
    BY <1>1, <1>2, StoreHonest

LEMMA PutResultHonest ==
    ASSUME IInv, AllHonest, NEW d, NEW c, NEW r, NEW s, NEW p, Good(c, {r, s}),
           Good(p[1], {r, s}), PutResult(d, c, r, s, p)
    PROVE  AllHonest'
  <1> DEFINE f == [x \in {d, r} |-> IF x = d THEN c ELSE p[1]]
  <1>1. \A y \in DOMAIN f : Good(f[y], {r, s})
    OBVIOUS
  <1>2. Store(f, {r, s})
    BY DEF PutResult
  <1> HIDE DEF f
  <1>3. QED
    BY <1>1, <1>2, StoreHonest

\* The operands are honest where it matters.
LEMMA OperandsHonest ==
    ASSUME IInv, AllHonest, NEW r \in Regs, NEW s \in Regs, {r, s} \cap spoilt = {}
    PROVE  /\ Context /\ Sound(reg[r]) /\ Sound(reg[s])
           /\ Honest(reg[r]) /\ Honest(reg[s])
  <1>1. r \in Regs \ spoilt /\ s \in Regs \ spoilt
    OBVIOUS
  <1>2. QED
    BY <1>1 DEF IInv, AllHonest

LEMMA AddStepHonest ==
    ASSUME IInv, AllHonest, NEW r \in Regs, NEW s \in Regs, NEW d,
           Add(r, s) \/ AddMutable(d, r, s) \/ AddPlainMutable(d, r, s)
    PROVE  AllHonest'
  <1> DEFINE p == AdjustForAddOrSub(reg[r], reg[s])
             c == Sum(p[1], p[2])
  <1>1. Counted(p[1]) /\ Counted(p[2]) /\ Counted(c)
    BY OperandsSound, AddCounts, SumCounts, Zenon
  <1>2. ASSUME {r, s} \cap spoilt = {}
        PROVE  Honest(p[1]) /\ Honest(p[2]) /\ Honest(c)
    <2>1. Sound(p[1]) /\ Sound(p[2]) /\ Honest(p[1]) /\ Honest(p[2])
      BY <1>2, OperandsHonest, AdjustedForAdd, AddHonest, Zenon
    <2>2. QED
      BY <2>1, SumHonest
  <1> HIDE DEF p, c
  <1>3. Good(p[1], {r, s}) /\ Good(p[2], {r, s}) /\ Good(c, {r, s})
    BY <1>1, <1>2 DEF Good
  <1>4. CASE Add(r, s)
    <2>1. Put(r, IF Thrown(p) THEN p[1] ELSE c, {r, s})
      BY <1>4 DEF Add, p, c
    <2>2. QED
      BY <1>3, <2>1, PutHonest
  <1>5. CASE AddMutable(d, r, s)
    <2>1. PutPair(r, s, p) \/ PutThree(d, c, r, s, p)
      BY <1>5 DEF AddMutable, p, c
    <2>2. QED
      BY <1>3, <2>1, PutPairHonest, PutThreeHonest
  <1>6. CASE AddPlainMutable(d, r, s)
    <2>1. Put(r, p[1], {r, s}) \/ PutResult(d, c, r, s, p)
      BY <1>6 DEF AddPlainMutable, p, c
    <2>2. QED
      BY <1>3, <2>1, PutHonest, PutResultHonest
  <1>7. QED
    BY <1>4, <1>5, <1>6

LEMMA MultStepHonest ==
    ASSUME IInv, AllHonest, NEW r \in Regs, NEW s \in Regs, NEW d,
           \/ Mult(d, r, s) \/ MultPlain(r, s)
           \/ MultMutable(d, r, s) \/ MultPlainMutable(d, r, s)
    PROVE  AllHonest'
  <1> DEFINE p == AdjustForMult(reg[r], reg[s])
             c == Product(p[1], p[2])
  <1>1. Counted(p[1]) /\ Counted(p[2]) /\ Counted(c)
    BY OperandsSound, MultCounts, ProductCounts, Zenon
  <1>2. ASSUME {r, s} \cap spoilt = {}
        PROVE  /\ Honest(p[1]) /\ Honest(p[2])
               /\ ~Thrown(p) /\ Multipliable(p[1], p[2]) => Honest(c)
    <2>1. /\ Kept(p[1]) /\ Kept(p[2])
          /\ ~Thrown(p) /\ ~manual => p[1].deg = 1 /\ p[2].deg = 1
      BY <1>2, OperandsHonest, AdjustedForMult, Zenon
    <2>2. /\ Context /\ Honest(p[1]) /\ Honest(p[2])
          /\ ~Thrown(p) /\ ~manual => p[1].level = p[2].level
      BY <1>2, OperandsHonest, MultHonest, Zenon
    <2> HIDE DEF p
    <2>3. QED
      BY <2>1, <2>2, ProductHonest
  <1> HIDE DEF p, c
  <1>3. /\ Good(p[1], {r, s}) /\ Good(p[2], {r, s})
        /\ ~Thrown(p) /\ Multipliable(p[1], p[2]) => Good(c, {r, s})
    BY <1>1, <1>2 DEF Good
  <1>4. CASE Mult(d, r, s)
    <2>1. ~Thrown(p) /\ Multipliable(p[1], p[2]) /\ Put(d, c, {r, s})
      BY <1>4 DEF Mult, p, c
    <2>2. QED
      BY <1>3, <2>1, PutHonest
  <1>5. CASE MultPlain(r, s)
    <2>1. \/ Put(r, p[1], {r, s})
          \/ ~Thrown(p) /\ Multipliable(p[1], p[2]) /\ Put(r, c, {r, s})
      BY <1>5 DEF MultPlain, p, c
    <2>2. QED
      BY <1>3, <2>1, PutHonest
  <1>6. CASE MultMutable(d, r, s)
    <2>1. \/ PutPair(r, s, p)
          \/ ~Thrown(p) /\ Multipliable(p[1], p[2]) /\ PutThree(d, c, r, s, p)
      BY <1>6 DEF MultMutable, p, c
    <2>2. QED
      BY <1>3, <2>1, PutPairHonest, PutThreeHonest
  <1>7. CASE MultPlainMutable(d, r, s)
    <2>1. \/ Put(r, p[1], {r, s})
          \/ ~Thrown(p) /\ Multipliable(p[1], p[2]) /\ PutResult(d, c, r, s, p)
      BY <1>7 DEF MultPlainMutable, p, c
    <2>2. QED
      BY <1>3, <2>1, PutHonest, PutResultHonest
  <1>8. QED
    BY <1>4, <1>5, <1>6, <1>7

LEMMA SelfStepHonest ==
    ASSUME IInv, AllHonest, NEW d, NEW r \in Regs, MultMutableSelf(d, r)
    PROVE  AllHonest'
  <1> DEFINE c == AdjustSelfForMult(reg[r])
             g == Product(c, c)
             f == [x \in {d, r} |-> IF x = d THEN g ELSE c]
  <1>1. /\ Context /\ Ready(reg[r])
        /\ r \notin spoilt => Sound(reg[r]) /\ Honest(reg[r])
    BY DEF IInv, AllHonest
  <1>2. Counted(c) /\ Counted(g)
    BY <1>1, SelfCounts, ProductCounts
  <1>3. r \notin spoilt =>
          /\ c.thrown => Honest(c)
          /\ manual \/ reg[r].deg # 2 => c = reg[r]
    BY <1>1, SelfKept, SelfHonest
  <1>4. \/ c.thrown /\ Put(r, c, {r})
        \/ /\ Multipliable(c, c) /\ Write(f)
           /\ spoilt' = IF r \in spoilt \/ (~manual /\ reg[r].deg = 2)
                        THEN spoilt \union {d, r} ELSE spoilt \ {d}
    BY DEF MultMutableSelf
  <1> HIDE DEF c
  <1>5. CASE c.thrown /\ Put(r, c, {r})
    <2>1. Good(c, {r})
      BY <1>2, <1>3, <1>5 DEF Good
    <2>2. QED
      BY <1>5, <2>1, PutHonest
  <1>6. CASE /\ Multipliable(c, c) /\ Write(f)
             /\ spoilt' = IF r \in spoilt \/ (~manual /\ reg[r].deg = 2)
                          THEN spoilt \union {d, r} ELSE spoilt \ {d}
    <2>1. ASSUME r \notin spoilt, ~(~manual /\ reg[r].deg = 2)
          PROVE  Honest(c) /\ Honest(g)
      <3>1. c = reg[r] /\ Kept(c) /\ Honest(c) /\ (~manual => c.deg = 1)
        BY <1>1, <1>3, <2>1 DEF Sound, Kept
      <3>2. QED
        BY <1>1, <1>6, <3>1, ProductHonest
    <2> HIDE DEF g
    <2>2. DOMAIN f = {d, r}
      OBVIOUS
    <2>3. \A y \in DOMAIN f : Counted(f[y])
      BY <1>2
    <2>4. \A y \in DOMAIN f : y \notin spoilt' => Honest(f[y])
      BY <1>6, <2>1
    <2>5. \A y \in Regs : y \notin DOMAIN f /\ y \in spoilt => y \in spoilt'
      BY <1>6, <2>2
    <2>6. Write(f)
      BY <1>6
    <2> HIDE DEF f
    <2>7. QED
      BY <2>3, <2>4, <2>5, <2>6, WriteHonest
  <1>7. QED
    BY <1>4, <1>5, <1>6

LEMMA SquareStepHonest ==
    ASSUME IInv, AllHonest, NEW d, NEW r \in Regs, Square(d, r) \/ SquareMutable(d, r)
    PROVE  AllHonest'
  <1> DEFINE Leaves(c) ==
               /\ Counted(c) /\ Counted(Product(c, c))
               /\ r \notin spoilt /\ ~c.thrown /\ Multipliable(c, c)
                    => Honest(c) /\ Honest(Product(c, c))
             F(c) == [x \in {d, r} |-> IF x = d THEN Product(c, c) ELSE c]
  <1>1. /\ Context /\ Ready(reg[r])
        /\ r \notin spoilt => Sound(reg[r]) /\ Honest(reg[r])
    BY DEF IInv, AllHonest
  <1>2. ASSUME NEW c, c = BeforeSquare(reg[r]) \/ c = BeforeSquareMutable(reg[r])
        PROVE  Leaves(c)
    <2>1. Counted(c) /\ Counted(Product(c, c))
      BY <1>1, <1>2, SquareCounts, ProductCounts
    <2>2. ASSUME r \notin spoilt, ~c.thrown, Multipliable(c, c)
          PROVE  Honest(c) /\ Honest(Product(c, c))
      <3>1. BeforeSquareMutable(reg[r]) = BeforeSquare(reg[r])
        BY <1>1, <2>2, SquaresAgree
      <3>2. Kept(c) /\ Honest(c) /\ (~manual => c.deg = 1)
        BY <1>1, <1>2, <2>2, <3>1, SquareKept, SquareHonest
      <3>3. QED
        BY <1>1, <2>2, <3>2, ProductHonest
    <2>3. QED
      BY <2>1, <2>2
  <1>3. CASE Square(d, r)
    <2>1. PICK c : /\ c = BeforeSquare(reg[r]) /\ ~c.thrown /\ Multipliable(c, c)
                   /\ Put(d, Product(c, c), {r})
      BY <1>3 DEF Square
    <2>2. Good(Product(c, c), {r})
      BY <1>2, <2>1 DEF Good
    <2>3. QED
      BY <2>1, <2>2, PutHonest
  <1>4. CASE SquareMutable(d, r)
    <2>1. PICK c : /\ c = BeforeSquareMutable(reg[r]) /\ ~c.thrown
                   /\ Multipliable(c, c) /\ Store(F(c), {r})
      BY <1>4 DEF SquareMutable
    <2>2. Good(c, {r}) /\ Good(Product(c, c), {r})
      BY <1>2, <2>1 DEF Good
    <2> DEFINE f == F(c)
    <2>3. \A y \in DOMAIN f : Good(f[y], {r})
      BY <2>2
    <2>4. Store(f, {r})
      BY <2>1
    <2> HIDE DEF f
    <2>5. QED
      BY <2>3, <2>4, StoreHonest
  <1>5. QED
    BY <1>3, <1>4

LEMMA UnaryHonest ==
    ASSUME IInv, AllHonest, NEW r \in Regs, NEW d,
           \/ \E l \in EncodeLevels[scheme], g \in {1, 2} : Encode(r, l, g)
           \/ MultConstant(d, r)
           \/ \E left \in 0..L : Compress(d, r, left)
           \/ \E n \in 1..L : Rescale(r, n) \/ DropLevels(r, n)
    PROVE  AllHonest'
  <1>1. /\ Context /\ Ready(reg[r])
        /\ r \notin spoilt => Sound(reg[r]) /\ Honest(reg[r])
    BY DEF IInv, AllHonest
  <1>2. Counted(reg[r]) /\ ~reg[r].thrown
    BY <1>1 DEF Ready
  <1>3. ASSUME NEW l \in EncodeLevels[scheme], NEW g \in {1, 2}, Encode(r, l, g)
        PROVE  AllHonest'
    <2>1. Sound(Fresh(l, g)) /\ Honest(Fresh(l, g))
      BY <1>1, FreshSound, FreshHonest
    <2>2. Good(Fresh(l, g), {})
      BY <2>1 DEF Good, Sound, Kept
    <2>3. QED
      BY <1>3, <2>2, PutHonest DEF Encode
  <1>4. CASE MultConstant(d, r)
    <2>1. /\ ~MultConst(reg[r]).thrown /\ Put(d, MultConst(reg[r]), {r})
          /\ reg[r].deg < MaxDeg
      BY <1>4 DEF MultConstant
    <2>2. /\ Counted(MultConst(reg[r]))
          /\ r \notin spoilt => Honest(MultConst(reg[r]))
      BY <1>1, <2>1, MultConstCounts, MultConstHonest
    <2>3. Good(MultConst(reg[r]), {r})
      BY <2>2 DEF Good
    <2>4. QED
      BY <2>1, <2>3, PutHonest
  <1>5. ASSUME NEW left \in 0..L, Compress(d, r, left)
        PROVE  AllHonest'
    <2>1. ~Compressed(reg[r], left).thrown /\ Put(d, Compressed(reg[r], left), {r})
      BY <1>5 DEF Compress
    <2>2. /\ Counted(Compressed(reg[r], left))
          /\ r \notin spoilt => Honest(Compressed(reg[r], left))
      BY <1>1, <2>1, CompressedCounts, CompressedHonest
    <2>3. Good(Compressed(reg[r], left), {r})
      BY <2>2 DEF Good
    <2>4. QED
      BY <2>1, <2>3, PutHonest
  <1>6. ASSUME NEW n \in 1..L, Rescale(r, n)
        PROVE  AllHonest'
    <2>1. manual /\ n \in Nat \ {0} /\ Put(r, ModReduce(reg[r], n), {r})
      BY <1>6, LAssumption DEF Rescale
    <2>2. Counted(ModReduce(reg[r], n))
      BY <1>1, <1>2, <2>1, ModReduceKeeps, Zenon
    <2>3. r \notin spoilt => Honest(ModReduce(reg[r], n))
      BY <1>1, <2>1, ReduceHonest
    <2>4. Good(ModReduce(reg[r], n), {r})
      BY <2>2, <2>3 DEF Good
    <2>5. QED
      BY <2>1, <2>4, PutHonest
  <1>7. ASSUME NEW n \in 1..L, DropLevels(r, n)
        PROVE  AllHonest'
    <2>1. manual /\ n \in Nat /\ Put(r, LevelReduce(reg[r], n), {r})
      BY <1>7, LAssumption DEF DropLevels
    <2>2. Counted(LevelReduce(reg[r], n))
      BY <1>2, <2>1, LevelReduceKeeps, Zenon
    <2>3. ~flexible
      BY <2>1 DEF manual, flexible
    <2>4. r \notin spoilt => Honest(LevelReduce(reg[r], n))
      BY <1>1, <1>2, <2>1, <2>3, DropHonest
    <2>5. Good(LevelReduce(reg[r], n), {r})
      BY <2>2, <2>4 DEF Good
    <2>6. QED
      BY <2>1, <2>5, PutHonest
  <1>8. QED
    BY <1>3, <1>4, <1>5, <1>6, <1>7

LEMMA InitHonest == Init => AllHonest
  <1> SUFFICES ASSUME Init PROVE AllHonest
    OBVIOUS
  <1>1. Context
    BY DEF Init, Context
  <1>2. reg = [r \in Regs |-> Fresh(0, 1)]
    BY DEF Init
  <1>3. Honest(Fresh(0, 1))
    BY <1>1, FreshHonest
  <1>4. QED
    BY <1>2, <1>3 DEF AllHonest

LEMMA StepHonest == IInv /\ AllHonest /\ [Next]_vars => AllHonest'
  <1> SUFFICES ASSUME IInv, AllHonest, [Next]_vars PROVE AllHonest'
    OBVIOUS
  <1>1. CASE UNCHANGED vars
    <2>1. reg' = reg /\ spoilt' = spoilt /\ scheme' = scheme /\ technique' = technique
      BY <1>1 DEF vars
    <2>2. \A r \in Regs \ spoilt' : Honest(reg'[r])
      BY <2>1 DEF AllHonest
    <2>3. QED
      BY <2>1, <2>2, ContextStays
  <1>2. CASE Next
    BY <1>2, AddStepHonest, MultStepHonest, SelfStepHonest, SquareStepHonest,
       UnaryHonest DEF Next
  <1>3. QED
    BY <1>1, <1>2

\* Every ciphertext that no exception tore, no compression left off the scale of
\* its level and no double rescaling spoilt declares the scale its polynomials
\* really have.
THEOREM ScalesHold == Spec => []AllHonest
  <1>1. QED
    BY InitHonest, StepHonest, InvariantHolds, PTL DEF Spec

\* A ciphertext's declared scale is the scale its polynomials have, and it is
\* the factor of its level to the power of its degree (the metadata kept by
\* EvalMultCoreInPlace, ModReduceInternalInPlace and the adjustments), unless it
\* comes from an object that EvalMultMutable rescaled twice.
THEOREM DegreeTellsScaleHolds == Spec => []DegreeTellsScale
  <1>1. IInv /\ AllHonest => DegreeTellsScale
    <2> SUFFICES ASSUME IInv, AllHonest, NEW r \in Regs \ spoilt, Plain(reg[r])
                 PROVE  LET c == reg[r] IN
                        /\ c.scale = c.true
                        /\ ~manual => c.deg \in {1, 2}
                        /\ flexible => c.scale = IF extended /\ c.level = 0
                                                 THEN ScalingFactorBig(0)
                                                 ELSE Power(ScalingFactor(c.level), c.deg)
                        /\ ~flexible /\ scheme = "CKKS" => c.scale[0] % Word = c.deg
      BY DEF DegreeTellsScale
    <2> DEFINE c == reg[r]
    <2>1. TrueScale(c) /\ Counted(c) /\ ~c.torn /\ (~manual => c.deg \in {1, 2})
      BY DEF AllHonest, Honest, Plain, IInv, Sound, Kept
    <2>2. flexible => ~manual
      BY DEF flexible, manual
    <2> HIDE DEF c
    <2>3. flexible => c.scale = Nominal(c.level, c.deg)
      BY <2>1, <2>2 DEF TrueScale
    <2>4. ASSUME ~flexible, scheme = "CKKS" PROVE c.scale[0] % Word = c.deg
      <3>1. \A l : ScalingFactor(l) = Modulus(0)
        BY <2>4 DEF ScalingFactor
      <3>2. Modulus(0)[0] = 1
        BY LevelsAreFactors DEF Modulus, One
      <3>3. \A e \in Int : Power(Modulus(0), e)[0] = e
        BY <3>2, LevelsAreFactors DEF Power
      <3>4. CASE manual
        <4>1. PICK e \in (-c.level)..(MaxDeg + 2) :
                 c.scale = Power(ScalingFactor(0), e) /\ e % Word = c.deg
          BY <2>1, <3>4 DEF TrueScale
        <4>2. QED
          BY <3>1, <3>3, <4>1
      <3>5. CASE ~manual
        <4>1. ~extended /\ c.deg \in {1, 2}
          BY <2>1, <2>4, <3>5 DEF flexible, extended
        <4>2. c.scale = Power(Modulus(0), c.deg)
          BY <2>1, <3>1, <3>5, <4>1 DEF TrueScale, Nominal
        <4>3. QED
          BY <3>3, <4>1, <4>2, Wraps
      <3>6. QED
        BY <3>4, <3>5
    <2>5. QED
      BY <2>1, <2>3, <2>4 DEF TrueScale, Nominal, c
  <1>2. QED
    BY <1>1, InvariantHolds, ScalesHold, PTL

\* A real constant is added at the scale the ciphertext has, at every level and
\* degree (GetElementForEvalAddOrSub), unless the ciphertext comes from an object
\* that EvalMultMutable rescaled twice.
THEOREM ConstantsMatchHolds == Spec => []ConstantsMatch
  <1>1. IInv /\ AllHonest => ConstantsMatch
    <2> SUFFICES ASSUME IInv, AllHonest, NEW r \in Regs \ spoilt, Plain(reg[r]),
                        reg[r].deg \in 1..MaxDeg
                 PROVE  AddedConstantScale(reg[r]) = reg[r].true
      BY DEF ConstantsMatch
    <2> DEFINE c == reg[r]
    <2>1. TrueScale(c) /\ Counted(c) /\ ~c.torn /\ (~manual => c.deg \in {1, 2})
      BY DEF AllHonest, Honest, Plain, IInv, Sound, Kept
    <2>2. c.level \in 0..(L-1) /\ c.deg \in 1..MaxDeg
      BY <2>1, LevelRange
    <2> HIDE DEF c
    <2>3. c.deg # 0
      BY <2>2, ExponentWraps
    <2>4. AddedConstantScale(c) = IF extended /\ c.level = 0 THEN ScalingFactorBig(0)
                                  ELSE Power(ScalingFactor(c.level), c.deg)
      BY <2>3 DEF AddedConstantScale
    <2>5. CASE manual
      <3>1. PICK e \in (-c.level)..(MaxDeg + 2) :
               c.scale = Power(ScalingFactor(0), e) /\ e % Word = c.deg
        BY <2>1, <2>5 DEF TrueScale
      <3>2. e = c.deg
        <4>1. e % Word <= MaxDeg
          BY <2>2, <3>1, ExponentWraps
        <4>2. QED
          BY <2>2, <3>1, <4>1, DegreeIsExponent
      <3>3. ~flexible /\ ~extended
        BY <2>5 DEF manual, flexible, extended
      <3>4. ScalingFactor(c.level) = ScalingFactor(0)
        BY <3>3, FixedFactors
      <3>5. AddedConstantScale(c) = Power(ScalingFactor(0), e)
        BY <2>4, <3>2, <3>3, <3>4
      <3>6. QED
        BY <2>1, <3>1, <3>5 DEF TrueScale, c
    <2>6. CASE ~manual
      BY <2>1, <2>4, <2>6 DEF TrueScale, Nominal, c
    <2>7. QED
      BY <2>5, <2>6
  <1>2. QED
    BY <1>1, InvariantHolds, ScalesHold, PTL

\* Two plain operands come out of the adjustment with one true scale.
LEMMA ScalesMeet ==
    ASSUME Context, ~manual, NEW a, NEW b, Sound(a), Sound(b), Honest(a), Honest(b),
           Plain(a), Plain(b), ~(FactorMissing /\ NeedsProductFactor(a, b))
    PROVE  LET p == AdjustLevelsAndDepth(a, b) IN p[1].true = p[2].true
  <1> DEFINE p == AdjustLevelsAndDepth(a, b)
  <1>1. /\ a.deg \in {1, 2} /\ a.level \in Int /\ b.deg \in {1, 2} /\ b.level \in Int
    BY SoundAt
  <1>2. /\ TrueScale(a) /\ a.scale = a.true /\ a.true = Nominal(a.level, a.deg)
        /\ TrueScale(b) /\ b.scale = b.true /\ b.true = Nominal(b.level, b.deg)
    BY DEF Honest, TrueScale
  <1>3. CASE a.level < b.level
    <2>1. p = <<Raise(a, b), b>>
      BY <1>3 DEF AdjustLevelsAndDepth
    <2>2. ~(FactorMissing /\ NeedsFactor(a, b))
      BY <1>1, <1>3 DEF NeedsFactor, NeedsProductFactor
    <2>3. Raise(a, b).true = b.scale
      BY <1>2, <1>3, <2>2, RaisedScale
    <2>4. QED
      BY <1>2, <2>1, <2>3
  <1>4. CASE a.level > b.level
    <2>1. p = <<a, Raise(b, a)>> /\ b.level < a.level
      BY <1>1, <1>4 DEF AdjustLevelsAndDepth
    <2>2. ~(FactorMissing /\ NeedsFactor(b, a))
      BY <1>1, <2>1 DEF NeedsFactor, NeedsProductFactor
    <2>3. Raise(b, a).true = a.scale
      BY <1>2, <2>1, <2>2, RaisedScale
    <2>4. QED
      BY <1>2, <2>1, <2>3
  <1>5. CASE a.level = b.level /\ a.deg < b.deg
    <2>1. p = <<RaiseDegree(a), b>> /\ a.deg = 1 /\ b.deg = 2
      BY <1>1, <1>5 DEF AdjustLevelsAndDepth
    <2>2. RaiseDegree(a).true = Nominal(a.level, 2)
      BY <2>1, RaiseDegreeHonest
    <2>3. QED
      BY <1>2, <1>5, <2>1, <2>2
  <1>6. CASE a.level = b.level /\ b.deg < a.deg
    <2>1. p = <<a, RaiseDegree(b)>> /\ b.deg = 1 /\ a.deg = 2
      BY <1>1, <1>6 DEF AdjustLevelsAndDepth
    <2>2. RaiseDegree(b).true = Nominal(b.level, 2)
      BY <2>1, RaiseDegreeHonest
    <2>3. QED
      BY <1>2, <1>6, <2>1, <2>2
  <1>7. CASE a.level = b.level /\ a.deg = b.deg
    <2>1. p = <<a, b>>
      BY <1>1, <1>7 DEF AdjustLevelsAndDepth
    <2>2. QED
      BY <1>2, <1>7, <2>1
  <1>8. QED
    BY <1>1, <1>3, <1>4, <1>5, <1>6, <1>7

\* What the rescaling of both operands of a product leaves of each.
LEMMA BothRescaled ==
    ASSUME Context, ~manual, NEW c, Sound(c), c.deg = 2
    PROVE  LET d == ModReduce(c, 1) IN
           /\ d.thrown <=> c.towers = 1
           /\ c.towers # 1 => /\ d.towers = c.towers - 1 /\ d.level = c.level + 1
                              /\ d.deg = 1
                              /\ d.true = Over(c.true, DroppedFactors(c.towers, 1))
  <1> DEFINE d == ModReduce(c, 1)
  <1>1. Counted(c) /\ ~c.thrown /\ 1 \in Nat \ {0} /\ c.towers \in 1..L /\ L \in Nat
    BY LAssumption DEF Sound, Kept, Counted
  <1>2. 1 < c.towers <=> c.towers # 1
    BY <1>1
  <1>3. /\ 1 < c.towers => /\ d.towers = c.towers - 1 /\ d.level = c.level + 1
                           /\ ~d.thrown /\ d.deg = (c.deg - 1) % Word
        /\ ~(1 < c.towers) => d.thrown
    BY <1>1, ModReduceKeeps, Zenon
  <1>4. 1 < c.towers => d.true = Over(c.true, DroppedFactors(c.towers, 1))
    BY <1>1, ModReduceScales, Zenon
  <1>5. (c.deg - 1) % Word = 1
    BY Wraps
  <1> HIDE DEF d
  <1>6. QED
    BY <1>2, <1>3, <1>4, <1>5 DEF d

\* Under an automatic technique any two ciphertexts are brought to equal towers,
\* level, degree and true scale, and can be multiplied at degree 1 unless both
\* would be at the last modulus (AdjustLevelsAndDepthInPlace and
\* AdjustLevelsAndDepthToOneInPlace of both schemes); the exceptions are the
\* factor of a product under FIXEDAUTO in CKKS, and what comes from an object
\* that EvalMultMutable rescaled twice.
THEOREM OperandsAlignByTableHolds == Spec => []OperandsAlignByTable
  <1>1. IInv /\ AllHonest => OperandsAlignByTable
    <2> SUFFICES ASSUME IInv, AllHonest, ~manual, NEW r \in Regs \ spoilt,
                        NEW s \in Regs \ spoilt, Plain(reg[r]), Plain(reg[s]),
                        ~(FactorMissing /\ NeedsProductFactor(reg[r], reg[s]))
                 PROVE  CanCombine(reg[r], reg[s])
      BY DEF OperandsAlignByTable
    <2> DEFINE p == AdjustLevelsAndDepth(reg[r], reg[s])
               u == ModReduce(p[1], 1)
               v == ModReduce(p[2], 1)
    <2>1. /\ Sound(reg[r]) /\ Sound(reg[s]) /\ Context
          /\ Honest(reg[r]) /\ Honest(reg[s])
      BY DEF IInv, AllHonest
    <2>2. /\ Sound(p[1]) /\ Sound(p[2])
          /\ p[1].deg = p[2].deg /\ p[1].level = p[2].level
      BY <2>1, DepthAdjusted, Zenon
    <2>3. p[1].true = p[2].true
      BY <2>1, ScalesMeet, Zenon
    <2>4. AdjustForAddOrSub(reg[r], reg[s]) = p
      BY DEF AdjustForAddOrSub
    <2>5. AdjustForMult(reg[r], reg[s]) = IF p[1].deg # 2 THEN p
                                          ELSE <<u, IF u.thrown THEN p[2] ELSE v>>
      BY DEF AdjustForMult, AdjustLevelsAndDepthToOne
    <2> HIDE DEF p
    <2>6. /\ ~p[1].thrown /\ ~p[2].thrown /\ p[1].deg \in {1, 2}
          /\ p[1].towers = L - p[1].level /\ p[2].towers = L - p[2].level
      BY <2>2, Zenon DEF Sound, Kept, Counted
    <2>7. Aligned(p[1], p[2])
      BY <2>2, <2>3, <2>6 DEF Aligned
    <2>8. ~Thrown(p)
      BY <2>6 DEF Thrown
    <2>9. CASE p[1].deg # 2
      <3>1. p[1].deg = 1 /\ AdjustForMult(reg[r], reg[s]) = p
        BY <2>5, <2>6, <2>9
      <3>2. QED
        BY <2>4, <2>7, <2>8, <3>1 DEF CanCombine
    <2>10. CASE p[1].deg = 2
      <3> DEFINE w == AdjustForMult(reg[r], reg[s])
      <3>1. w = <<u, IF u.thrown THEN p[2] ELSE v>>
        BY <2>5, <2>10
      <3>2. /\ u.thrown <=> p[1].towers = 1
            /\ p[1].towers # 1 => /\ u.towers = p[1].towers - 1 /\ u.level = p[1].level + 1
                                  /\ u.deg = 1
                                  /\ u.true = Over(p[1].true, DroppedFactors(p[1].towers, 1))
        BY <2>1, <2>2, <2>10, BothRescaled
      <3>3. p[2].deg = 2
        BY <2>2, <2>10
      <3>4. /\ v.thrown <=> p[2].towers = 1
            /\ p[2].towers # 1 => /\ v.towers = p[2].towers - 1 /\ v.level = p[2].level + 1
                                  /\ v.deg = 1
                                  /\ v.true = Over(p[2].true, DroppedFactors(p[2].towers, 1))
        BY <2>1, <2>2, <3>3, BothRescaled
      <3> HIDE DEF u, v, w
      <3>5. CASE p[1].towers = 1
        <4>1. Thrown(w)
          BY <3>1, <3>2, <3>5 DEF Thrown
        <4>2. QED
          BY <2>4, <2>7, <2>8, <2>10, <3>5, <4>1 DEF CanCombine, w
      <3>6. CASE p[1].towers # 1
        <4>1. w[1] = u /\ w[2] = v /\ ~u.thrown /\ ~v.thrown
          BY <2>7, <3>1, <3>2, <3>4, <3>6 DEF Aligned
        <4>2. ~Thrown(w) /\ Aligned(w[1], w[2]) /\ w[1].deg = 1
          BY <2>7, <3>2, <3>4, <3>6, <4>1 DEF Thrown, Aligned
        <4>3. QED
          BY <2>4, <2>7, <2>8, <4>2 DEF CanCombine, w
      <3>7. QED
        BY <3>5, <3>6
    <2>11. QED
      BY <2>9, <2>10
  <1>2. QED
    BY <1>1, InvariantHolds, ScalesHold, PTL
=============================================================================
