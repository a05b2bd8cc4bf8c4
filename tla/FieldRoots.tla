------------------------------ MODULE FieldRoots ------------------------------
(***************************************************************************)
(* Square roots and Legendre symbols of fe25519.cpp on residues.  The code *)
(* relies on p = 5 modulo 8 and on the low byte of p - 1 (236) having its  *)
(* top bit set; a behaviour computes the functions for one element of *)
(* one small prime with the first of these properties, the second is the   *)
(* name MINUS_ONE.  PowChains shows that the exponents are those of p.     *)
(***************************************************************************)
EXTENDS Integers

CONSTANT Primes
\* What an instance has to satisfy.
RootsAssumption == \A p \in Primes : p % 8 = 5 /\ \A q \in 2 .. (p - 1) : p % q # 0

VARIABLES p, x, parity, result
vars == <<p, x, parity, result>>

Pow(a, n) ==
  LET pw[i \in Nat] == IF i = 0 THEN 1
                       ELSE LET h == pw[i \div 2]
                            IN  (((h * h) % p) * (IF i % 2 = 1 THEN a ELSE 1)) % p
  IN  pw[n]

MINUS_ONE == p - 1
\* The code's literals: a square root of -1 and one more, whose square is twice that root.
primitive_fourth_root == p - Pow(2, (p - 1) \div 4)
half_to_the_power_e == (primitive_fourth_root + 1) % p

fe25519_issquare(a) == Pow(a, (p - 1) \div 2) \in {0, 1}

\* Mutant of CorrectedRoot: the second correction is taken from the first root.
CorrectedRoot_stale(a, s, root, nonresidue) ==
  LET s1 == IF nonresidue THEN (s * half_to_the_power_e) % p ELSE s
  IN  IF root # 1 THEN (s1 * primitive_fourth_root) % p ELSE s1

\* The two conditional moves: s and its root for a nonresidue, then s once more
\* when the root so far is not 1.
CorrectedRoot(a, s, root, nonresidue) ==
  LET s1 == IF nonresidue THEN (s * half_to_the_power_e) % p ELSE s
      root1 == IF nonresidue THEN (root * primitive_fourth_root) % p ELSE root
  IN  IF root1 # 1 THEN (s1 * primitive_fourth_root) % p ELSE s1

\* s = a^((p-5)/8); root = s*s*a is a fourth root of unity or zero.
legendre_symbol_with_s(a) ==
  LET s == Pow(a, (p - 5) \div 8)
      root == (((s * s) % p) * a) % p
      legendre == (root * root) % p
  IN  [symbol |-> IF legendre = MINUS_ONE THEN 255 ELSE legendre,
       s |-> CorrectedRoot(a, s, root, legendre = MINUS_ONE)]

\* Mutant of RootOf: the case of a fourth power residue is not told apart.
RootOf_one(a) == Pow(a, (p + 3) \div 8)

RootOf(a) ==
  IF Pow(a, (p - 1) \div 4) = 1 THEN Pow(a, (p + 3) \div 8)
  ELSE (2 * a * Pow((4 * a) % p, (p - 5) \div 8)) % p

\* -1 for a nonresidue, else the root whose lowest bit is par.
fe25519_sqrt_vartime(a, par) ==
  IF ~ fe25519_issquare(a) THEN [ret |-> -1, r |-> 0]
  ELSE [ret |-> 0, r |-> IF RootOf(a) % 2 = par THEN RootOf(a) ELSE (p - RootOf(a)) % p]

----------------------------------------------------------------------------
Pending == [done |-> FALSE]

Init ==
  /\ p \in Primes /\ x \in 0 .. (p - 1) /\ parity \in {0, 1}
  /\ result = Pending

Compute ==
  /\ result = Pending
  /\ result' = [done |-> TRUE,
                sqrt |-> fe25519_sqrt_vartime(x, parity),
                withS |-> legendre_symbol_with_s(x),
                square |-> fe25519_issquare(x)]
  /\ UNCHANGED <<p, x, parity>>

Next == Compute
Spec == Init /\ [][Next]_vars

----------------------------------------------------------------------------
IsSquare == \E y \in 0 .. (p - 1) : (y * y) % p = x

\* issquare tells squares apart, sqrt_vartime returns 0 exactly for them and then a
\* root of the parity that was asked for; the root of zero has no odd form.
SquareRootRight ==
  result.done =>
    /\ result.square = IsSquare
    /\ (result.sqrt.ret = 0) <=> IsSquare
    /\ result.sqrt.ret = 0 => (result.sqrt.r * result.sqrt.r) % p = x
    /\ result.sqrt.ret = 0 /\ x # 0 => result.sqrt.r % 2 = parity

\* legendre_symbol_with_s: x*s*s is 0, 1 or 2 as the symbol is 0, 1 or 255, so s is
\* a certificate of the symbol; the two corrections compose for every fourth root.
CertificateRight ==
  result.done =>
    (x * ((result.withS.s * result.withS.s) % p)) % p =
      IF result.withS.symbol = 255 THEN 2 ELSE result.withS.symbol
=============================================================================
