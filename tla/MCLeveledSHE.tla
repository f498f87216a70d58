---------------------------- MODULE MCLeveledSHE ----------------------------
(* A small instance of LeveledSHE: five moduli, so that two operands can be *)
(* four levels apart and every branch of the adjustment is taken.           *)
EXTENDS LeveledSHE, TLC

CONSTANTS x, y

MCEncodeLevels == [CKKS |-> 0..4, BGV |-> {0}]

\* CKKS alone.
MCEncodeLevelsCKKS == [CKKS |-> 0..3]

\* The scales of a ciphertext that is torn, off or spoilt decide nothing that
\* is checked: no guard reads a scale, and what it is combined with is marked
\* too.
MCView ==
    <<scheme, technique, spoilt,
      [r \in Regs |-> IF r \notin spoilt /\ Plain(reg[r]) THEN reg[r]
                      ELSE [reg[r] EXCEPT !.scale = One, !.true = One]]>>

MCSymmetry == Permutations(Regs)
=============================================================================
