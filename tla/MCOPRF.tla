------------------------------- MODULE MCOPRF -------------------------------
(* Offsets of the small instance: four of l' and three of l.  The second     *)
(* choice has 31, the unreduced form of zero that random_fe25519 can draw.   *)
EXTENDS OPRF
Offs(s) == [i \in 0 .. 6 |-> s[i + 1]]
DistinctOffsets == {Offs(<<3, 7, 14, 25, 12, 20, 27>>), Offs(<<9, 31, 2, 18, 4, 16, 22>>)}
=============================================================================
