------------------------------ MODULE XorSpace ------------------------------
(***************************************************************************)
(* The vector space over GF(2) the OT extensions compute in, with formal   *)
(* values: a block is the set of opaque terms it is the XOR of.  A random  *)
(* pad, a hash or a key is a term of its own, so that two values are equal *)
(* here exactly when the protocol makes them equal for every choice of the *)
(* pads, and a product by a random challenge is a tag on every term.       *)
(***************************************************************************)
EXTENDS Naturals, FiniteSets, FiniteSetsExt

ZeroBlock == {}
Xor(a, b) == (a \ b) \cup (b \ a)
XorAll(S, f(_)) == FoldSet(LAMBDA i, acc : Xor(f(i), acc), ZeroBlock, S)
If(bit, v) == IF bit THEN v ELSE ZeroBlock
Times(chi, v) == {<<chi, a>> : a \in v}
Opaque(a) == {a}

DivCeil(a, b) == (a + b - 1) \div b
RoundUpTo(a, b) == DivCeil(a, b) * b
Least(a, b) == IF a < b THEN a ELSE b
=============================================================================
