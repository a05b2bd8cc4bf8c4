------------------------------ MODULE Fe25519 ------------------------------
(***************************************************************************)
(* The limb arithmetic of field25519/fe25519.cpp.  An element of GF(P) is  *)
(* a row of LIMBS machine words, each meant to hold one digit base RADIX;  *)
(* additions and subtractions are lazy (no carries), the carries are       *)
(* propagated by the two reduction loops.  In the code LIMBS = 32,         *)
(* RADIX = 256, TOP = 128, C = 19 and WORD = 2^32, so P = 2^255 - 19.      *)
(***************************************************************************)
EXTENDS Integers, Functions

CONSTANTS LIMBS,  \* number of limbs of an element
          RADIX,  \* a reduced limb is below RADIX
          TOP,    \* a reduced top limb is below TOP, RADIX = 2 * TOP
          C,      \* P = RADIX^(LIMBS-1) * TOP - C
          WORD    \* limbs are computed modulo WORD (crypto_uint32)

ASSUME LimbAssumption ==
  /\ LIMBS \in Nat /\ LIMBS >= 2
  /\ TOP \in Nat /\ TOP >= 2
  /\ RADIX = 2 * TOP
  /\ C \in 1 .. (TOP - 1)
  /\ WORD \in Nat /\ WORD > 4 * RADIX

Limb  == 0 .. (LIMBS - 1)
Digit == 0 .. (RADIX - 1)

\* An element as the code holds it: any row of machine words.
Fe == [Limb -> 0 .. (WORD - 1)]

P == RADIX^(LIMBS - 1) * TOP - C

\* The limbs of P: 0xed, 0xff, ..., 0xff, 0x7f in the code.
PLimb(i) == IF i = 0 THEN RADIX - C
            ELSE IF i = LIMBS - 1 THEN TOP - 1 ELSE RADIX - 1

\* What a row of limbs stands for.
Value(x) == SumFunction([i \in Limb |-> x[i] * RADIX^i])

\* The row of digits of a number: how bytes on the wire and constants are read.
DigitsOf(n) == [i \in Limb |-> (n \div RADIX^i) % RADIX]

\* Reduced modulo 2^255: what unpack returns and pack expects.
IsReduced(x) == \A i \in Limb : x[i] \in 0 .. ((IF i = LIMBS - 1 THEN TOP ELSE RADIX) - 1)
IsCanonical(x) == IsReduced(x) /\ Value(x) < P

----------------------------------------------------------------------------
setzero == [i \in Limb |-> 0]
setone  == [i \in Limb |-> IF i = 0 THEN 1 ELSE 0]

unpack(b) == [i \in Limb |-> IF i = LIMBS - 1 THEN b[i] % TOP ELSE b[i]]

add_lazy(x, y) == [i \in Limb |-> (x[i] + y[i]) % WORD]

\* Mutant of sub_lazy: P is added once.
sub_lazy_once(x, y) == [i \in Limb |-> (x[i] + PLimb(i) - y[i]) % WORD]
\* x + 2P - y, limb by limb: no limb goes below zero while y <= 2P limbwise.
sub_lazy(x, y) == [i \in Limb |-> (x[i] + 2 * PLimb(i) - y[i]) % WORD]

\* One round of the reduction loops: the top limb folds into limb 0 with
\* factor C, then the carries ripple upwards.
ReducePass(x) ==
  LET t    == ((x[LIMBS - 1] \div TOP) * C) % WORD
      y    == [x EXCEPT ![LIMBS - 1] = @ % TOP, ![0] = (@ + t) % WORD]
      carried[i \in Limb] == IF i = 0 THEN y[0]
                             ELSE (y[i] + carried[i - 1] \div RADIX) % WORD
  IN  [i \in Limb |-> IF i = LIMBS - 1 THEN carried[i] ELSE carried[i] % RADIX]

reduce_add_sub(x) == ReducePass(ReducePass(ReducePass(ReducePass(x))))
\* Mutant of reduce_mul: one round.
reduce_mul_once(x) == ReducePass(x)
reduce_mul(x)     == ReducePass(ReducePass(x))

\* Column j of the schoolbook product, and the fold of the upper columns
\* (RADIX^LIMBS is 2C modulo P).
Column(x, y, j) ==
  SumFunction([i \in Limb |-> IF j - i \in Limb THEN x[i] * y[j - i] ELSE 0]) % WORD
FoldColumns(t) ==
  [i \in Limb |-> IF i = LIMBS - 1 THEN t[i] ELSE (t[i] + 2 * C * t[i + LIMBS]) % WORD]

mul(x, y) == reduce_mul(FoldColumns([j \in 0 .. (2 * LIMBS - 2) |-> Column(x, y, j)]))

\* The squaring loop computes each cross product once and doubles it.
square(x) ==
  LET cross(i, j) == IF i = j THEN x[i] * x[i] ELSE 2 * x[i] * x[j]
      term(j) == [i \in Limb |-> IF j - i \in i .. (LIMBS - 1) THEN cross(i, j - i) ELSE 0]
  IN  reduce_mul(FoldColumns([j \in 0 .. (2 * LIMBS - 2) |-> SumFunction(term(j)) % WORD]))

----------------------------------------------------------------------------
\* Mutants of AtLeastP: the lowest limb is not looked at; P itself is left out.
AtLeastP_high(x) == \A i \in 1 .. (LIMBS - 1) : x[i] = PLimb(i)
AtLeastP_strict(x) == /\ \A i \in 1 .. (LIMBS - 1) : x[i] = PLimb(i)
                      /\ x[0] > PLimb(0)
\* Subtract P once when the limbs are those of a number from P upwards.
AtLeastP(x) == /\ \A i \in 1 .. (LIMBS - 1) : x[i] = PLimb(i)
               /\ x[0] >= PLimb(0)
freeze(x) == IF AtLeastP(x) THEN [i \in Limb |-> x[i] - PLimb(i)] ELSE x

\* pack repeats the test of freeze on the bytes; its loop ends before byte 1,
\* the subtraction loop does not.
PackTest(b) == /\ \A i \in 2 .. (LIMBS - 1) : b[i] = PLimb(i)
               /\ LIMBS = 2 => b[1] = PLimb(1)
               /\ b[0] >= PLimb(0)
\* Mutant of pack: the lowest byte is left out of the subtraction.
pack_keepLow(x) ==
  LET b == [i \in Limb |-> x[i] % RADIX]
  IN  IF PackTest(b) THEN [i \in Limb |-> IF i = 0 THEN b[i] ELSE (b[i] - PLimb(i)) % RADIX] ELSE b
pack(x) ==
  LET b == [i \in Limb |-> x[i] % RADIX]
  IN  IF PackTest(b) THEN [i \in Limb |-> (b[i] - PLimb(i)) % RADIX] ELSE b

iszero(x) == \A i \in Limb : x[i] = 0

neg(x) == reduce_add_sub(sub_lazy(setzero, x))

\* operator==: the lazy difference is frozen without having been reduced.
Equal(x, y) == iszero(freeze(sub_lazy(x, y)))
============================================================================
