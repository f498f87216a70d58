---------------------------- MODULE MCAlgorithms ----------------------------
(***************************************************************************)
(* Small instances of the algorithms: ModInverse for every modulus of a    *)
(* signed word of 7 bits; find_free_blocks on every bitmap of a bank of 5  *)
(* blocks; the arithmetic on words of 14 bits, with small operands, the    *)
(* neighbours of powers of two and the largest words, and moduli around    *)
(* powers of two and at the ends of the range; rings of any order.  An NTT *)
(* modulus is a prime just above m * q^2.                                  *)
(***************************************************************************)
EXTENDS Algorithms

SomeModuli == 1 .. 2^(W - 1) - 1

SomeOperands ==
    0 .. 18 \cup {30, 31, 32, 60, 62, 63, 64, 65, 96, 126, 127, 128, 129, 254, 255}
            \cup {1000, 1023, 1024, 4095, 4096, 5559, 8190, 8191, 8192, 16382, 16383}

SomeCallModuli ==
    {2, 3, 4, 5, 7, 8, 13, 15, 16, 17, 31, 32, 61, 64, 97, 127, 128, 255, 512, 1021, 1023}

SomeRings ==
    {[n |-> 2, q |-> 5], [n |-> 2, q |-> 13], [n |-> 4, q |-> 17], [n |-> 4, q |-> 241],
     [n |-> 8, q |-> 97], [n |-> 8, q |-> 113], [n |-> 16, q |-> 97]}

\* Primes, twice primes, and orders that are divided by with NTTs.
SomeArbRings ==
    {[m |-> 3, q |-> 7, nttModulus |-> 193], [m |-> 5, q |-> 11, nttModulus |-> 641],
     [m |-> 7, q |-> 29, nttModulus |-> 5953], [m |-> 6, q |-> 13, nttModulus |-> 1153],
     [m |-> 14, q |-> 29, nttModulus |-> 11777], [m |-> 8, q |-> 17, nttModulus |-> 2417],
     [m |-> 15, q |-> 31, nttModulus |-> 14561], [m |-> 20, q |-> 41, nttModulus |-> 33857]}

SomeNumbers == 1 .. 64 \cup {91, 97, 113, 341, 561}
=============================================================================
