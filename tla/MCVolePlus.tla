----------------------------- MODULE MCVolePlus -----------------------------
(* Instances of VolePlus: P = 5, one value and its mask, two correlations.  *)
EXTENDS VolePlus
Mat(a, b, c, d) == [ij \in I \X J |-> CASE ij = <<0, 0>> -> a [] ij = <<0, 1>> -> b
                                        [] ij = <<1, 0>> -> c [] OTHER -> d]
UMatrices == {Mat(1, 2, 3, 4), Mat(0, 4, 4, 1)}
VMatrices == {Mat(1, 0, 2, 3), Mat(3, 3, 3, 1), Mat(4, 2, 0, 0)}
AllPoints == [I -> {0, 2, 3}]
Values == {[u |-> [j \in J |-> 3 * j], v |-> [j \in J |-> 1 + j]],
           [u |-> [j \in J |-> 4 - j], v |-> [j \in J |-> 2 * j]]}
HashValues == {0, 3}
GammaVectors == {[j \in J |-> IF j = Length THEN 1 ELSE g] : g \in {0, 3}}
LambdaVectors == {[i \in I |-> 1 + 2 * i], [i \in I |-> 4 * i]}
None == [msg |-> "none", at |-> 0, err |-> 0]
DerandTampers == [msg : {"derand"}, at : {<<1, 0>>, <<1, 1>>}, err : {1, 3}]
CheckTampers == [msg : {"cu"}, at : {0, 1}, err : {2}] \cup [msg : {"cv"}, at : {0}, err : {4}]
UvTampers == [msg : {"u", "v"}, at : {0, 1}, err : {1}]
AllTampers == {None} \cup DerandTampers \cup CheckTampers \cup UvTampers
=============================================================================
