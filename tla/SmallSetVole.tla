---------------------------- MODULE SmallSetVole ----------------------------
(***************************************************************************)
(* smallSetVoleFast.h, as OPRF.h runs it on both sides after the PPRF:     *)
(* the sender holds all N leaves of every tree, the receiver all but the   *)
(* one at points[tree], where its buffer holds some other block.  Each     *)
(* side turns every tree into one VOLE correlation o = u + h * v with h    *)
(* its point, in two calls: the VOLE+ instance takes the KVp trees from    *)
(* offset KZk on, then the ZK instance the KZk trees from offset 0.        *)
(*                                                                         *)
(* One coordinate of the vectors is modelled: a leaf is the number its     *)
(* PRNG yields there.  The two threads run independently.  su[t][i] is the *)
(* sender's accumulator u of tree t once the leaves N-1 down to i are in;  *)
(* the code keeps the latest entry only, the earlier ones are history.     *)
(***************************************************************************)
EXTENDS Integers

CONSTANTS N,        \* leaves of a tree, 1 << small_set_bits
          KZk,      \* trees of the ZK instance, prover->k_vole
          KVp,      \* trees of the VOLE+ instance, volePlus->k_vole
          Rows,     \* leaf vectors a PPRF tree may produce
          Junk,     \* numbers the receiver's block at the punctured leaf may yield
          LeafMax,  \* largest number a leaf yields per lane (2^32 - 1)
          LaneCap,  \* a lane above this is cut by bytes_to_fe25519 (2^56 - 1)
          Modulus   \* the field's prime

Tree == 0 .. (KZk + KVp - 1)
Leaf == 0 .. (N - 1)

ASSUME VoleAssumption ==
  /\ N \in Nat /\ N > 0 /\ N % 4 = 0
  /\ KZk \in Nat /\ KVp \in Nat /\ KZk + KVp > 0
  /\ LeafMax \in Nat
  /\ Rows \subseteq [Leaf -> 0 .. LeafMax]
  /\ Junk \subseteq 0 .. LeafMax
  /\ LaneCap \in Nat /\ N * N * LeafMax <= LaneCap
  /\ Modulus \in Nat /\ Modulus > 1

VARIABLES leaves, points, junk,  \* the PPRF's output, fixed
          stask, su, sv, sAt,    \* sender: task, accumulators, leaves left per tree
          rtask, ru, rv, rAt     \* receiver: the same
vars == <<leaves, points, junk, stask, su, sv, sAt, rtask, ru, rv, rAt>>

\* Mutant of RLeaf: the upper half of the 64-bit lane is not masked off.
RLeaf_unmasked(t, i) == (LeafMax + 2) * (IF i = points[t] THEN junk[t] ELSE leaves[t][i])

\* Entry `a[a_offset*N + N*j + i]` of the receiver's PPRF output.
RLeaf(t, i) == IF i = points[t] THEN junk[t] ELSE leaves[t][i]

\* The k-th tree expanded: ssVole*VolePlus with offset KZk, then ssVole*ZKP
\* with offset 0.
TreeOf(k) == IF k < KVp THEN KZk + k ELSE k - KVp

Index == 0 .. N
Acc == [Tree -> [Index -> Nat]]

TypeOK ==
  /\ leaves \in [Tree -> [Leaf -> 0 .. LeafMax]]
  /\ points \in [Tree -> Leaf]
  /\ junk \in [Tree -> 0 .. LeafMax]
  /\ stask \in 0 .. (KZk + KVp) /\ rtask \in 0 .. (KZk + KVp)
  /\ su \in Acc /\ sv \in Acc /\ ru \in Acc /\ rv \in Acc
  /\ sAt \in [Tree -> Index] /\ rAt \in [Tree -> Index]

Empty == [t \in Tree |-> [i \in Index |-> 0]]

Init == /\ leaves \in [Tree -> Rows]
        /\ points \in [Tree -> Leaf]
        /\ junk \in [Tree -> Junk]
        /\ stask = 0 /\ rtask = 0
        /\ su = Empty /\ sv = Empty /\ ru = Empty /\ rv = Empty
        /\ sAt = [t \in Tree |-> N] /\ rAt = [t \in Tree |-> N]

\* Mutants: v grows before it is added to u; v shrinks; the loop over the
\* leaves stops one turn early.
ExpandU_late(u, v, a, b, c, d) == u + (v + a) + (v + a + b) + (v + a + b + c) + (v + a + b + c + d)
ExpandV_minus(v, a, b, c, d) == v - a - b - c - d
NextTask_early(task, i) == IF i <= 8 THEN task + 1 ELSE task

\* avx2_expand_and_add4: four times "u += v; v += leaf", on the leaves
\* a, b, c, d in this order.
ExpandU(u, v, a, b, c, d) == u + v + (v + a) + (v + a + b) + (v + a + b + c)
ExpandV(v, a, b, c, d) == v + a + b + c + d

\* The loop over the trees goes on after the last four leaves of one.
NextTask(task, i) == IF i = 4 THEN task + 1 ELSE task

\* One turn of the loop over i in send: the four leaves below sAt.
SenderExpand ==
  /\ stask < KZk + KVp
  /\ LET t == TreeOf(stask)
         i == sAt[t]
         u == ExpandU(su[t][i], sv[t][i],
                      leaves[t][i-1], leaves[t][i-2], leaves[t][i-3], leaves[t][i-4])
         v == ExpandV(sv[t][i],
                      leaves[t][i-1], leaves[t][i-2], leaves[t][i-3], leaves[t][i-4])
     IN  /\ su' = [su EXCEPT ![t][i-4] = u]
         /\ sv' = [sv EXCEPT ![t][i-4] = v]
         /\ sAt' = [sAt EXCEPT ![t] = i - 4]
         /\ stask' = NextTask(stask, i)
  /\ UNCHANGED <<leaves, points, junk, rtask, ru, rv, rAt>>

\* The same turn in receive, on the receiver's leaves.
ReceiverExpand ==
  /\ rtask < KZk + KVp
  /\ LET t == TreeOf(rtask)
         i == rAt[t]
         u == ExpandU(ru[t][i], rv[t][i],
                      RLeaf(t, i-1), RLeaf(t, i-2), RLeaf(t, i-3), RLeaf(t, i-4))
         v == ExpandV(rv[t][i],
                      RLeaf(t, i-1), RLeaf(t, i-2), RLeaf(t, i-3), RLeaf(t, i-4))
     IN  /\ ru' = [ru EXCEPT ![t][i-4] = u]
         /\ rv' = [rv EXCEPT ![t][i-4] = v]
         /\ rAt' = [rAt EXCEPT ![t] = i - 4]
         /\ rtask' = NextTask(rtask, i)
  /\ UNCHANGED <<leaves, points, junk, stask, su, sv, sAt>>

Next == SenderExpand \/ ReceiverExpand

Spec == Init /\ [][Next]_vars

----------------------------------------------------------------------------
\* bytes_to_fe25519 reads a lane back as a field element.
FeOf(lane) == lane % Modulus

\* The sender's outputs for a tree: u and the negated v.
OutU(t) == FeOf(su[t][0])
OutV(t) == FeOf(- FeOf(sv[t][0]))

\* The receiver's: h is the point, o subtracts h times the second accumulator.
OutH(t) == points[t]
OutO(t) == FeOf(FeOf(ru[t][0]) - FeOf(OutH(t) * FeOf(rv[t][0])))

\* Number j of an instance: what VolePlus and the ZKP index by i.
VpTree(j) == KZk + j
ZkTree(j) == j

SenderDone == stask = KZk + KVp
ReceiverDone == rtask = KZk + KVp

----------------------------------------------------------------------------
\* Every correlation handed to VOLE+ and to the ZK proof satisfies
\* o = u + h * v in the field, whatever block sat at the punctured leaf.
Correlation ==
  SenderDone /\ ReceiverDone =>
    /\ \A j \in 0 .. (KVp - 1) : LET t == VpTree(j) IN OutO(t) = (OutU(t) + OutH(t) * OutV(t)) % Modulus
    /\ \A j \in 0 .. (KZk - 1) : LET t == ZkTree(j) IN OutO(t) = (OutU(t) + OutH(t) * OutV(t)) % Modulus

\* No accumulator outgrows the 56 bits bytes_to_fe25519 can read from a lane.
LanesFit ==
  \A t \in Tree, i \in Index :
    /\ su[t][i] <= LaneCap /\ sv[t][i] <= LaneCap
    /\ ru[t][i] <= LaneCap /\ rv[t][i] <= LaneCap

\* No tree feeds both instances, and none of the trees paid for by the OT
\* extension is left over: when a side is done, all its trees are expanded
\* to the last leaf.
TreesAllUsed ==
  /\ SenderDone => \A t \in Tree : sAt[t] = 0
  /\ ReceiverDone => \A t \in Tree : rAt[t] = 0

============================================================================
