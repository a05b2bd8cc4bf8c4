------------------------------ MODULE PowChains ------------------------------
(***************************************************************************)
(* The straight-line exponentiations of fast_residue_25519.h and           *)
(* fe25519.cpp.  Every one of them keeps powers of one element x, so a     *)
(* field element is the exponent of x, squaring doubles it and a product   *)
(* adds.  Exponents have 255 bits; a behaviour follows one function modulo *)
(* one small prime, and the primes of Moduli together exceed 2^256, so     *)
(* agreement modulo each of them is equality.                              *)
(***************************************************************************)
EXTENDS Integers, Sequences, SequencesExt

CONSTANTS Moduli,    \* primes below 2^15.5 whose product exceeds 2^256
          Functions  \* the exponentiations to follow

EPS == 781764
\* EPS * Y + 1 is this multiple of D = (p-1)/EPS.
CofactorY == 386083

\* What an instance has to satisfy.
ChainAssumption ==
  /\ \A q \in Moduli : q \in 2 .. 46340 /\ EPS % q # 0
  /\ Functions \subseteq {"eps", "D", "Y", "invert", "legendre", "legendre_s",
                          "issquare", "quarter", "sqrt1", "sqrt2"}

----------------------------------------------------------------------------
(* The programs.  An instruction <<n, r, d>> squares n times, multiplies   *)
(* by register r and, when d # 0, copies the result to register d.         *)
(* Register 0 holds 1, register 1 holds x.                                 *)

Windows(pairs) == [i \in DOMAIN pairs |-> <<pairs[i][1], pairs[i][2], 0>>]
Squarings(n) == <<<<n, 0, 0>>>>

\* Sliding windows: the register t starts from, then the windows.
\* Mutant of pow_eps: one squaring is missing before x13.
pow_eps_short == [first |-> 11, code |-> Windows(<<<<3, 7>>, <<4, 13>>, <<2, 3>>, <<4, 1>>>>) \o Squarings(2)]

pow_eps == [first |-> 11, code |-> Windows(<<<<3, 7>>, <<5, 13>>, <<2, 3>>, <<4, 1>>>>) \o Squarings(2)]

\* D = (p-1)/EPS.
pow_D ==
  [first |-> 21,
   code |-> Windows(<<
     <<6, 29>>, <<6, 31>>, <<5, 3>>, <<7, 13>>, <<3, 3>>, <<8, 9>>, <<6, 19>>, <<4, 15>>,
     <<2, 1>>, <<8, 15>>, <<7, 25>>, <<3, 3>>, <<8, 11>>, <<7, 25>>, <<6, 21>>, <<4, 13>>,
     <<6, 23>>, <<9, 25>>, <<7, 27>>, <<6, 31>>, <<6, 25>>, <<4, 11>>, <<7, 25>>, <<6, 5>>,
     <<8, 17>>, <<5, 19>>, <<5, 25>>, <<2, 3>>, <<9, 13>>, <<6, 27>>, <<4, 15>>, <<12, 9>>,
     <<8, 19>>, <<8, 31>>, <<6, 25>>, <<7, 1>>, <<9, 21>>, <<1, 1>>>>)]

\* Y with Y * EPS = -1 modulo D.
pow_Y ==
  [first |-> 21,
   code |-> Windows(<<
     <<7, 25>>, <<7, 31>>, <<1, 1>>, <<10, 31>>, <<3, 3>>, <<7, 13>>, <<9, 13>>, <<6, 25>>,
     <<3, 5>>, <<7, 29>>, <<5, 19>>, <<6, 5>>, <<10, 17>>, <<5, 21>>, <<3, 5>>, <<11, 19>>,
     <<5, 23>>, <<7, 17>>, <<5, 9>>, <<6, 21>>, <<8, 19>>, <<2, 3>>, <<7, 13>>, <<2, 1>>,
     <<11, 29>>, <<4, 1>>, <<9, 23>>, <<5, 19>>, <<6, 11>>, <<9, 27>>, <<4, 7>>, <<7, 15>>,
     <<8, 21>>, <<7, 17>>, <<3, 5>>, <<10, 23>>, <<2, 3>>>>) \o Squarings(3)]

\* Mutant of Ladder250: z2_50_0 is used where z2_100_0 is due, before it is written.
Ladder250_swapped ==
  <<<<1, 0, 2>>, <<2, 1, 9>>, <<0, 2, 11>>, <<1, 9, 5>>, <<5, 5, 10>>, <<10, 10, 20>>,
    <<20, 20, 0>>, <<10, 10, 50>>, <<50, 100, 100>>, <<100, 100, 0>>, <<50, 50, 0>>>>

\* The ladder shared by invert and the Legendre symbols, up to 2^250 - 1:
\* register 2 is z2, 9 z9, 11 z11 and 5, 10, 20, 50, 100 are z2_5_0 to z2_100_0.
Ladder250 ==
  <<<<1, 0, 2>>, <<2, 1, 9>>, <<0, 2, 11>>, <<1, 9, 5>>, <<5, 5, 10>>, <<10, 10, 20>>,
    <<20, 20, 0>>, <<10, 10, 50>>, <<50, 50, 100>>, <<100, 100, 0>>, <<50, 50, 0>>>>

invert == [first |-> 1, code |-> Ladder250 \o <<<<5, 11, 0>>>>]
legendre_symbol == [first |-> 1, code |-> Ladder250 \o <<<<3, 1, 0>>, <<0, 2, 0>>, <<1, 0, 0>>>>]
legendre_symbol_with_s == [first |-> 1, code |-> Ladder250 \o <<<<2, 1, 0>>>>]

\* fe25519_pow: fixed windows of WINDOWSIZE bits over the 32 bytes of e, top byte
\* first.  All exponents of the code are bytes 255 between a low and a high byte.
WINDOWSIZE == 4
fe25519_pow(low, high) ==
  LET byte(i) == IF i = 1 THEN low ELSE IF i = 32 THEN high ELSE 255
      nibble(n) == IF n % 2 = 1 THEN byte(32 - n \div 2) \div 2^WINDOWSIZE
                                ELSE byte(33 - n \div 2) % 2^WINDOWSIZE
  IN  [first |-> 0, code |-> [n \in 1 .. 64 |-> <<WINDOWSIZE, nibble(n), 0>>]]

Program ==
  [eps |-> pow_eps, D |-> pow_D, Y |-> pow_Y,
   invert |-> invert, legendre |-> legendre_symbol, legendre_s |-> legendre_symbol_with_s,
   issquare |-> fe25519_pow(246, 63),  \* (p-1)/2
   quarter |-> fe25519_pow(251, 31),   \* (p-1)/4
   sqrt1 |-> fe25519_pow(254, 15),     \* (p+3)/8
   sqrt2 |-> fe25519_pow(253, 15)]     \* (p-5)/8

\* The last entry of the table of powers that is computed first.
TableEnd == [f \in DOMAIN Program |->
  CASE f = "eps" -> 15 [] f \in {"D", "Y"} -> 31
    [] f \in {"issquare", "quarter", "sqrt1", "sqrt2"} -> 2^WINDOWSIZE - 1
    [] OTHER -> 1]

----------------------------------------------------------------------------
VARIABLES fn, m,  \* the function and the modulus of this behaviour
          reg,    \* the registers written so far
          t,      \* the running product
          pc, sq  \* instruction and how many of its squarings are done
vars == <<fn, m, reg, t, pc, sq>>

Init ==
  /\ fn \in Functions /\ m \in Moduli
  /\ reg = [r \in {0, 1} |-> r]
  /\ t = 0 /\ pc = 0 /\ sq = 0

Put(d, v) == [r \in DOMAIN reg \cup {d} |-> IF r = d THEN v ELSE reg[r]]
Top == Max(DOMAIN reg)
Sliding == {"eps", "D", "Y"}

\* x3 = x2 * x, x5 = x2 * x3, ...: the next odd power.
PrecomputeOdd ==
  /\ pc = 0 /\ fn \in Sliding /\ Top < TableEnd[fn]
  /\ reg' = Put(Top + 2, (2 * reg[1] + reg[Top]) % m)
  /\ UNCHANGED <<fn, m, t, pc, sq>>

\* pre[i] is the square of pre[i/2] and pre[i+1] = pre[i] * x.
PrecomputeAll ==
  /\ pc = 0 /\ fn \notin Sliding /\ Top < TableEnd[fn]
  /\ reg' = LET i == Top + 1
            IN  Put(i, IF i % 2 = 0 THEN (2 * reg[i \div 2]) % m ELSE (reg[Top] + reg[1]) % m)
  /\ UNCHANGED <<fn, m, t, pc, sq>>

\* t = x21, or whatever the program starts from.
Start ==
  /\ pc = 0 /\ TableEnd[fn] \in DOMAIN reg
  /\ t' = reg[Program[fn].first] /\ pc' = 1
  /\ UNCHANGED <<fn, m, reg, sq>>

Instr == Program[fn].code[pc]
Running == pc \in 1 .. Len(Program[fn].code)

Square ==
  /\ Running /\ sq < Instr[1]
  /\ t' = (2 * t) % m /\ sq' = sq + 1
  /\ UNCHANGED <<fn, m, reg, pc>>

\* A register that was never written has no value: the behaviour stops there.
Multiply ==
  /\ Running /\ sq = Instr[1] /\ Instr[2] \in DOMAIN reg
  /\ t' = (t + reg[Instr[2]]) % m
  /\ reg' = IF Instr[3] = 0 THEN reg ELSE Put(Instr[3], t')
  /\ pc' = pc + 1 /\ sq' = 0
  /\ UNCHANGED <<fn, m>>

Next == PrecomputeOdd \/ PrecomputeAll \/ Start \/ Square \/ Multiply
Spec == Init /\ [][Next]_vars

----------------------------------------------------------------------------
\* A product only reads registers that were written before: the ladder's z2_50_0 and
\* z2_100_0, and every odd power a window asks for.
RegistersWritten == Running => Instr[2] \in DOMAIN reg

Finished == pc = Len(Program[fn].code) + 1
Two(n) == FoldLeft(LAMBDA a, b : (2 * a) % m, 1, [i \in 1 .. n |-> i])
Mod(n) == n % m

\* Every generated exponentiation computes the exponent it is named for: with
\* p = 2^255 - 19, pow_eps is EPS, pow_D is (p-1)/EPS, pow_Y is the negated
\* inverse of EPS modulo D that makes (prod v)^Y cancel in the last constraint
\* of the proof, invert is p-2, the Legendre symbols are (p-1)/2 and (p-5)/8, and the byte
\* strings of issquare and sqrt_vartime are (p-1)/2, (p-1)/4, (p+3)/8 and (p-5)/8.
ChainsExact ==
  Finished =>
    CASE fn = "eps" -> t = Mod(EPS)
      [] fn = "D" -> Mod(Mod(EPS) * t) = Mod(Two(255) - 20)
      [] fn = "Y" -> Mod(Mod(EPS) * Mod(Mod(EPS) * t + 1)) = Mod(Mod(CofactorY) * Mod(Two(255) - 20))
      [] fn = "invert" -> t = Mod(Two(255) - 21)
      [] fn \in {"legendre", "issquare"} -> t = Mod(Two(254) - 10)
      [] fn \in {"legendre_s", "sqrt2"} -> t = Mod(Two(252) - 3)
      [] fn = "quarter" -> t = Mod(Two(253) - 5)
      [] fn = "sqrt1" -> t = Mod(Two(252) - 2)
=============================================================================
