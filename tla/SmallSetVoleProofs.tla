------------------------- MODULE SmallSetVoleProofs -------------------------
(***************************************************************************)
(* Proofs about SmallSetVole for every number of trees, every tree size    *)
(* that is a multiple of four and all leaves: the correlation o = u + h*v, *)
(* the bound on the lanes, and the coverage of the trees.                  *)
(*                                                                         *)
(* Half says what one side alone maintains: which trees are expanded how   *)
(* far, that every entry of the history is the four-leaf step of the entry *)
(* before it, and the bound on the entries.  Agree relates the two sides   *)
(* at an index both have reached: equal above the punctured leaf, and off  *)
(* by the difference of the two blocks there (times the distance to the    *)
(* point for u) from it on downwards.                                      *)
(***************************************************************************)
EXTENDS SmallSetVole, TLAPS

K == KZk + KVp

\* The position of a tree in the order of expansion: the inverse of TreeOf.
Rank(t) == IF t >= KZk THEN t - KZk ELSE t + KVp

RLeaves == [t \in Tree |-> [i \in Leaf |-> RLeaf(t, i)]]
LeafRows == [Tree -> [Leaf -> 0 .. LeafMax]]

HalfType(task, u, v, at) ==
  /\ task \in 0 .. K
  /\ u \in Acc /\ v \in Acc
  /\ at \in [Tree -> Index]

Progress(task, at) ==
  \A t \in Tree : /\ at[t] % 4 = 0
                  /\ Rank(t) < task => at[t] = 0
                  /\ Rank(t) = task => at[t] > 0
                  /\ Rank(t) > task => at[t] = N

StepAt(u, v, lv, t, i) ==
  /\ u[t][i] = ExpandU(u[t][i+4], v[t][i+4], lv[t][i+3], lv[t][i+2], lv[t][i+1], lv[t][i])
  /\ v[t][i] = ExpandV(v[t][i+4], lv[t][i+3], lv[t][i+2], lv[t][i+1], lv[t][i])

History(u, v, at, lv) ==
  \A t \in Tree : /\ u[t][N] = 0 /\ v[t][N] = 0
                  /\ \A i \in Index : i % 4 = 0 /\ at[t] <= i /\ i < N => StepAt(u, v, lv, t, i)

Bounded(u, v) ==
  \A t \in Tree, i \in Index : /\ u[t][i] <= (LeafMax * N) * (N - i)
                               /\ v[t][i] <= LeafMax * (N - i)

Half(task, u, v, at, lv) ==
  /\ HalfType(task, u, v, at)
  /\ Progress(task, at)
  /\ History(u, v, at, lv)
  /\ Bounded(u, v)

\* One turn of the loop over the leaves, on either side.
Turn(task, u, v, at, lv, task1, u1, v1, at1) ==
  /\ task < K
  /\ LET t == TreeOf(task)
         i == at[t]
     IN  /\ u1 = [u EXCEPT ![t][i-4] =
                    ExpandU(u[t][i], v[t][i], lv[t][i-1], lv[t][i-2], lv[t][i-3], lv[t][i-4])]
         /\ v1 = [v EXCEPT ![t][i-4] =
                    ExpandV(v[t][i], lv[t][i-1], lv[t][i-2], lv[t][i-3], lv[t][i-4])]
         /\ at1 = [at EXCEPT ![t] = i - 4]
         /\ task1 = NextTask(task, i)

\* The difference between the two sides' blocks at the punctured leaf.
Gap(t) == junk[t] - leaves[t][points[t]]

AgreeOn(u, v, ur, vr, t, i) ==
  IF i > points[t]
  THEN ur[t][i] = u[t][i] /\ vr[t][i] = v[t][i]
  ELSE /\ vr[t][i] = v[t][i] + Gap(t)
       /\ ur[t][i] = u[t][i] + (points[t] - i) * Gap(t)

Agree(t, i) == AgreeOn(su, sv, ru, rv, t, i)

AgreeUpTo ==
  \A t \in Tree : \A i \in Index : i % 4 = 0 /\ sAt[t] <= i /\ rAt[t] <= i => Agree(t, i)

PprfType == /\ leaves \in LeafRows
            /\ points \in [Tree -> Leaf]
            /\ junk \in [Tree -> 0 .. LeafMax]

IInv == /\ PprfType
        /\ Half(stask, su, sv, sAt, leaves)
        /\ Half(rtask, ru, rv, rAt, RLeaves)
        /\ AgreeUpTo

----------------------------------------------------------------------------
\* The order of expansion reaches every tree: TreeOf and Rank are inverse.
LEMMA RankTree ==
  /\ \A k \in 0 .. (K - 1) : TreeOf(k) \in Tree /\ Rank(TreeOf(k)) = k
  /\ \A t \in Tree : Rank(t) \in 0 .. (K - 1) /\ TreeOf(Rank(t)) = t
BY VoleAssumption DEF K, TreeOf, Rank, Tree

\* Products with a non-negative factor keep the order.
LEMMA MulMono ==
  ASSUME NEW a \in Nat, NEW x \in Int, NEW y \in Int, x <= y
  PROVE  a * x <= a * y /\ a * x \in Int /\ a * y \in Int
<1>1. a * (y - x) >= 0
  BY SMT
<1> QED
  BY <1>1, SMT

\* The receiver's leaves are leaves.
LEMMA RLeavesType == PprfType => RLeaves \in LeafRows
BY DEF PprfType, RLeaves, LeafRows, RLeaf

\* The bound of the v accumulator survives four more leaves.
LEMMA BoundStepV ==
  ASSUME NEW i \in Nat, i >= 4, i <= N,
         NEW v \in Nat, v <= LeafMax * (N - i),
         NEW a \in 0 .. LeafMax, NEW b \in 0 .. LeafMax,
         NEW c \in 0 .. LeafMax, NEW d \in 0 .. LeafMax
  PROVE  ExpandV(v, a, b, c, d) <= LeafMax * (N - (i - 4))
<1>1. LeafMax \in Nat /\ N \in Nat
  BY VoleAssumption
<1>2. LeafMax * (N - (i - 4)) = LeafMax * (N - i) + 4 * LeafMax
  BY <1>1, SMT
<1>3. LeafMax * (N - i) \in Int
  BY <1>1, SMT
<1> QED
  BY <1>1, <1>2, <1>3, SMT DEF ExpandV

\* The bound of the u accumulator does, too: four times v plus six leaves is
\* at most four times the heaviest tree.
LEMMA BoundStepU ==
  ASSUME NEW i \in Nat, i >= 4, i <= N,
         NEW u \in Nat, NEW v \in Nat,
         v <= LeafMax * (N - i), u <= (LeafMax * N) * (N - i),
         NEW a \in 0 .. LeafMax, NEW b \in 0 .. LeafMax,
         NEW c \in 0 .. LeafMax, NEW d \in 0 .. LeafMax
  PROVE  ExpandU(u, v, a, b, c, d) <= (LeafMax * N) * (N - (i - 4))
<1> DEFINE m == LeafMax * N
<1>1. LeafMax \in Nat /\ N \in Nat /\ m \in Nat
  BY VoleAssumption, SMT
<1>2. LeafMax * (N - i) = m - LeafMax * i
  BY <1>1, SMT
<1>3. LeafMax * 4 <= LeafMax * i /\ LeafMax * i \in Int
  BY <1>1, MulMono
<1> HIDE DEF m
<1>4. m * (N - (i - 4)) = m * (N - i) + 4 * m /\ m * (N - i) \in Int
  BY <1>1, SMT
<1>5. ExpandU(u, v, a, b, c, d) <= m * (N - (i - 4))
  <2>1. u <= m * (N - i)
    BY DEF m
  <2> QED
    BY <2>1, <1>1, <1>2, <1>3, <1>4, SMT DEF ExpandU
<1> QED
  BY <1>5 DEF m

\* One turn of the loop keeps everything a side maintains by itself.
LEMMA HalfTurn ==
  ASSUME NEW task, NEW u, NEW v, NEW at, NEW lv \in LeafRows,
         NEW task1, NEW u1, NEW v1, NEW at1,
         Half(task, u, v, at, lv),
         Turn(task, u, v, at, lv, task1, u1, v1, at1)
  PROVE  Half(task1, u1, v1, at1, lv)
<1> DEFINE t0 == TreeOf(task)
           i0 == at[t0]
           uu == ExpandU(u[t0][i0], v[t0][i0], lv[t0][i0-1], lv[t0][i0-2], lv[t0][i0-3], lv[t0][i0-4])
           vv == ExpandV(v[t0][i0], lv[t0][i0-1], lv[t0][i0-2], lv[t0][i0-3], lv[t0][i0-4])
<1>1. /\ u1 = [u EXCEPT ![t0][i0-4] = uu]
      /\ v1 = [v EXCEPT ![t0][i0-4] = vv]
      /\ at1 = [at EXCEPT ![t0] = i0 - 4]
      /\ task1 = IF i0 = 4 THEN task + 1 ELSE task
      /\ task < K
  BY DEF Turn, NextTask
<1>2. HalfType(task, u, v, at) /\ Progress(task, at) /\ History(u, v, at, lv) /\ Bounded(u, v)
  BY DEF Half
<1>3. task \in 0 .. (K - 1) /\ t0 \in Tree /\ Rank(t0) = task
  BY <1>1, <1>2, RankTree, VoleAssumption DEF HalfType, K
<1>4. i0 \in Index /\ i0 >= 4 /\ i0 % 4 = 0 /\ i0 - 4 \in Index /\ (i0 - 4) % 4 = 0
  <2>1. i0 \in Index /\ i0 > 0 /\ i0 % 4 = 0
    BY <1>2, <1>3 DEF HalfType, Progress
  <2> HIDE DEF i0
  <2> QED
    BY <2>1, VoleAssumption, SMT DEF Index
<1>5. /\ u[t0][i0] \in Nat /\ v[t0][i0] \in Nat
      /\ lv[t0][i0-1] \in 0 .. LeafMax /\ lv[t0][i0-2] \in 0 .. LeafMax
      /\ lv[t0][i0-3] \in 0 .. LeafMax /\ lv[t0][i0-4] \in 0 .. LeafMax
  <2>1. i0-1 \in Leaf /\ i0-2 \in Leaf /\ i0-3 \in Leaf /\ i0-4 \in Leaf
    BY <1>4, VoleAssumption, SMT DEF Index, Leaf
  <2>2. lv[t0] \in [Leaf -> 0 .. LeafMax] /\ u[t0] \in [Index -> Nat] /\ v[t0] \in [Index -> Nat]
    BY <1>2, <1>3 DEF LeafRows, HalfType, Acc
  <2> QED
    BY <2>1, <2>2, <1>4
<1>6. uu \in Nat /\ vv \in Nat
  BY <1>5, VoleAssumption, SMT DEF ExpandU, ExpandV
<1> HIDE DEF t0, i0, uu, vv
<1>7. /\ \A t \in Tree, i \in Index :
           /\ u1[t][i] = (IF t = t0 /\ i = i0 - 4 THEN uu ELSE u[t][i])
           /\ v1[t][i] = (IF t = t0 /\ i = i0 - 4 THEN vv ELSE v[t][i])
      /\ u1 \in Acc /\ v1 \in Acc
  BY <1>1, <1>2, <1>3, <1>4, <1>6 DEF HalfType, Acc
<1>8. HalfType(task1, u1, v1, at1)
  BY <1>1, <1>2, <1>3, <1>4, <1>7, VoleAssumption DEF HalfType, K
<1>9. Progress(task1, at1)
  <2> SUFFICES ASSUME NEW t \in Tree
               PROVE  /\ at1[t] % 4 = 0
                      /\ Rank(t) < task1 => at1[t] = 0
                      /\ Rank(t) = task1 => at1[t] > 0
                      /\ Rank(t) > task1 => at1[t] = N
    BY DEF Progress
  <2>1. /\ at[t] % 4 = 0
        /\ Rank(t) < task => at[t] = 0
        /\ Rank(t) = task => at[t] > 0
        /\ Rank(t) > task => at[t] = N
    BY <1>2 DEF Progress
  <2>2. Rank(t) \in Int /\ task \in Int /\ at[t] \in Int
    BY RankTree, <1>3, <1>2 DEF HalfType, Index
  <2>3. CASE t = t0
    BY <2>3, <2>1, <2>2, <1>1, <1>2, <1>3, <1>4 DEF HalfType, Index
  <2>4. CASE t /= t0
    <3>1. Rank(t) /= task
      BY <2>4, <1>3, RankTree DEF t0
    <3>2. at1[t] = at[t]
      BY <2>4, <1>1, <1>2 DEF HalfType
    <3> QED
      BY <3>1, <3>2, <2>1, <2>2, <1>1, VoleAssumption
  <2> QED
    BY <2>3, <2>4
<1>10. History(u1, v1, at1, lv)
  <2> SUFFICES ASSUME NEW t \in Tree
               PROVE  /\ u1[t][N] = 0 /\ v1[t][N] = 0
                      /\ \A i \in Index : i % 4 = 0 /\ at1[t] <= i /\ i < N => StepAt(u1, v1, lv, t, i)
    BY DEF History
  <2>1. u1[t][N] = 0 /\ v1[t][N] = 0
    <3>1. N \in Index /\ N /= i0 - 4
      BY <1>4, VoleAssumption DEF Index
    <3> QED
      BY <3>1, <1>7, <1>2 DEF History
  <2>2. ASSUME NEW i \in Index, i % 4 = 0, at1[t] <= i, i < N
        PROVE  StepAt(u1, v1, lv, t, i)
    <3>1. i + 4 \in Index
      BY <2>2, VoleAssumption, SMT DEF Index
    <3>2. CASE t = t0 /\ i = i0 - 4
      <4>1. i + 4 = i0 /\ i + 3 = i0 - 1 /\ i + 2 = i0 - 2 /\ i + 1 = i0 - 3 /\ i + 4 /= i
        BY <3>2, <1>4 DEF Index
      <4>2. u1[t][i] = uu /\ v1[t][i] = vv /\ u1[t][i0] = u[t0][i0] /\ v1[t][i0] = v[t0][i0]
        BY <3>2, <4>1, <1>4, <1>7
      <4> QED
        BY <3>2, <4>1, <4>2 DEF StepAt, uu, vv
    <3>3. CASE t = t0 /\ i /= i0 - 4
      <4>1. at1[t] = i0 - 4
        BY <3>3, <1>1, <1>3, <1>2 DEF HalfType
      <4>2. i >= i0 /\ i + 4 /= i0 - 4
        BY <4>1, <3>3, <2>2, <1>4, SMT DEF Index
      <4>3. StepAt(u, v, lv, t, i)
        BY <4>2, <3>3, <2>2, <1>2 DEF History, i0
      <4> QED
        BY <4>3, <4>2, <3>3, <3>1, <1>7 DEF StepAt
    <3>4. CASE t /= t0
      <4>1. at1[t] = at[t]
        BY <3>4, <1>1, <1>2 DEF HalfType
      <4>2. StepAt(u, v, lv, t, i)
        BY <4>1, <2>2, <1>2 DEF History
      <4> QED
        BY <4>2, <3>4, <3>1, <1>7 DEF StepAt
    <3> QED
      BY <3>2, <3>3, <3>4
  <2> QED
    BY <2>1, <2>2
<1>11. Bounded(u1, v1)
  <2>1. u[t0][i0] <= (LeafMax * N) * (N - i0) /\ v[t0][i0] <= LeafMax * (N - i0)
    BY <1>2, <1>3, <1>4 DEF Bounded
  <2>a. i0 \in Nat /\ i0 >= 4 /\ i0 <= N
    BY <1>4, VoleAssumption DEF Index
  <2>2. vv <= LeafMax * (N - (i0 - 4))
    BY <2>1, <2>a, <1>5, BoundStepV DEF vv
  <2>3. uu <= (LeafMax * N) * (N - (i0 - 4))
    BY <2>1, <2>a, <1>5, BoundStepU DEF uu
  <2> QED
    BY <2>2, <2>3, <1>2, <1>7 DEF Bounded
<1> QED
  BY <1>8, <1>9, <1>10, <1>11 DEF Half

\* Accumulators that are off by q and g before a step are off by q + 4g and g
\* after it.
LEMMA ExpandShift ==
  ASSUME NEW u \in Int, NEW v \in Int, NEW q \in Int, NEW g \in Int,
         NEW a \in Int, NEW b \in Int, NEW c \in Int, NEW d
  PROVE  ExpandU(u + q, v + g, a, b, c, d) = ExpandU(u, v, a, b, c, d) + (q + 4 * g)
BY SMT DEF ExpandU

\* Agreement carries over from one multiple of four to the one below it when
\* both sides have taken the step.
LEMMA AgreeStep ==
  ASSUME PprfType, NEW t \in Tree, NEW i \in Index, i + 4 \in Index,
         NEW u \in Acc, NEW v \in Acc, NEW ur \in Acc, NEW vr \in Acc,
         StepAt(u, v, leaves, t, i), StepAt(ur, vr, RLeaves, t, i),
         AgreeOn(u, v, ur, vr, t, i + 4)
  PROVE  AgreeOn(u, v, ur, vr, t, i)
<1> DEFINE p == points[t]
           g == Gap(t)
<1>1. i \in Leaf /\ i+1 \in Leaf /\ i+2 \in Leaf /\ i+3 \in Leaf /\ p \in Leaf
  BY VoleAssumption DEF Index, Leaf, PprfType
<1>2. /\ \A l \in Leaf : /\ leaves[t][l] \in Int
                         /\ RLeaves[t][l] = leaves[t][l] + (IF l = p THEN g ELSE 0)
      /\ g \in Int
  BY <1>1, VoleAssumption DEF PprfType, RLeaves, RLeaf, LeafRows, Gap
<1>3. /\ u[t][i+4] \in Int /\ v[t][i+4] \in Int
      /\ ur[t][i+4] \in Int /\ vr[t][i+4] \in Int
  BY DEF Acc
<1>4. AgreeOn(u, v, ur, vr, t, i + 4) = IF i + 4 > p
        THEN ur[t][i+4] = u[t][i+4] /\ vr[t][i+4] = v[t][i+4]
        ELSE vr[t][i+4] = v[t][i+4] + g /\ ur[t][i+4] = u[t][i+4] + (p - (i + 4)) * g
  BY DEF AgreeOn
<1>5. AgreeOn(u, v, ur, vr, t, i) = IF i > p
        THEN ur[t][i] = u[t][i] /\ vr[t][i] = v[t][i]
        ELSE vr[t][i] = v[t][i] + g /\ ur[t][i] = u[t][i] + (p - i) * g
  BY DEF AgreeOn
<1> HIDE DEF p, g
<1>6. i \in Int /\ p \in Int
  BY <1>1 DEF Leaf
<1>7. CASE p >= i + 4
  <2>1. p /= i /\ p /= i+1 /\ p /= i+2 /\ p /= i+3 /\ ~ (i > p) /\ ~ (i + 4 > p)
    BY <1>7, <1>6
  <2> DEFINE q == (p - (i + 4)) * g
             w == (p - i) * g
  <2>2. q + 4 * g = w /\ w \in Int /\ q \in Int
    BY <1>2, <1>6, SMT
  <2>3. vr[t][i+4] = v[t][i+4] + g /\ ur[t][i+4] = u[t][i+4] + q
    BY <2>1, <1>4
  <2>4. AgreeOn(u, v, ur, vr, t, i) = (vr[t][i] = v[t][i] + g /\ ur[t][i] = u[t][i] + w)
    BY <2>1, <1>5
  <2> HIDE DEF q, w
  <2>5. \A l \in {i, i+1, i+2, i+3} : RLeaves[t][l] = leaves[t][l] /\ leaves[t][l] \in Int
    BY <2>1, <1>1, <1>2, <1>6
  <2>6. vr[t][i] = v[t][i] + g
    BY <2>3, <2>5, <1>2, <1>3 DEF StepAt, ExpandV
  <2>7. ur[t][i] = u[t][i] + w
    <3>1. g \in Int
      BY <1>2
    <3>2. /\ leaves[t][i] \in Int /\ leaves[t][i+1] \in Int /\ leaves[t][i+2] \in Int
          /\ leaves[t][i+3] \in Int
          /\ RLeaves[t][i+1] = leaves[t][i+1] /\ RLeaves[t][i+2] = leaves[t][i+2]
          /\ RLeaves[t][i+3] = leaves[t][i+3]
      BY <2>5
    <3>3. ur[t][i] = ExpandU(u[t][i+4] + q, v[t][i+4] + g,
                             leaves[t][i+3], leaves[t][i+2], leaves[t][i+1], leaves[t][i])
      BY <2>3, <2>5, <3>2 DEF StepAt
    <3>4. q \in Int
      BY <2>2
    <3>5. ExpandU(u[t][i+4] + q, v[t][i+4] + g,
                  leaves[t][i+3], leaves[t][i+2], leaves[t][i+1], leaves[t][i])
          = ExpandU(u[t][i+4], v[t][i+4],
                    leaves[t][i+3], leaves[t][i+2], leaves[t][i+1], leaves[t][i]) + (q + 4 * g)
      BY <3>1, <3>2, <3>4, <1>3, ExpandShift
    <3>6. u[t][i] = ExpandU(u[t][i+4], v[t][i+4],
                             leaves[t][i+3], leaves[t][i+2], leaves[t][i+1], leaves[t][i])
      BY DEF StepAt
    <3> QED
      BY <2>2, <3>3, <3>5, <3>6
  <2> QED
    BY <2>4, <2>6, <2>7
<1>8. CASE p < i
  BY <1>8, <1>1, <1>2, <1>3, <1>4, <1>5, <1>6 DEF StepAt, ExpandU, ExpandV
<1>9. CASE p \in i .. (i + 3)
  <2>1. (p - i) * g = (IF p = i THEN 0 ELSE IF p = i+1 THEN g ELSE IF p = i+2 THEN 2 * g ELSE 3 * g)
    BY <1>9, <1>2, <1>6, SMT
  <2> QED
    BY <2>1, <1>9, <1>1, <1>2, <1>3, <1>4, <1>5, <1>6 DEF StepAt, ExpandU, ExpandV
<1> QED
  BY <1>6, <1>7, <1>8, <1>9

----------------------------------------------------------------------------
\* Division with remainder by the modulus.
LEMMA ModDef ==
  ASSUME NEW x \in Int
  PROVE  \E q \in Int, m \in 0 .. (Modulus - 1) : m = x % Modulus /\ x = Modulus * q + m
<1>1. ASSUME NEW q, q = x \div Modulus, NEW m, m = x % Modulus
      PROVE  x = Modulus * q + m
  BY <1>1, VoleAssumption, SMT
<1>2. x \div Modulus \in Int /\ x % Modulus \in 0 .. (Modulus - 1)
  BY VoleAssumption, SMT
<1> QED
  BY <1>1, <1>2

\* The remainder is the only one in range.
LEMMA ModUnique ==
  ASSUME NEW x \in Int, NEW q \in Int, NEW m \in 0 .. (Modulus - 1), x = q * Modulus + m
  PROVE  x % Modulus = m
BY VoleAssumption, SMTT(30)

\* Multiples of the modulus do not change a remainder.
LEMMA ModShift ==
  ASSUME NEW z \in Int, NEW k \in Int
  PROVE  (z + Modulus * k) % Modulus = z % Modulus
<1>1. PICK q \in Int, m \in 0 .. (Modulus - 1) : m = z % Modulus /\ z = Modulus * q + m
  BY ModDef
<1>2. /\ z + Modulus * k = (q + k) * Modulus + m
      /\ z + Modulus * k \in Int /\ q + k \in Int
  BY <1>1, VoleAssumption, SMT
<1> QED
  BY <1>1, <1>2, ModUnique

\* A summand may be reduced first.
LEMMA ModAdd ==
  ASSUME NEW x \in Int, NEW y \in Int
  PROVE  ((x % Modulus) + y) % Modulus = (x + y) % Modulus
<1>1. PICK q \in Int, m \in 0 .. (Modulus - 1) : m = x % Modulus /\ x = Modulus * q + m
  BY ModDef
<1>2. m + y \in Int /\ x + y = (m + y) + Modulus * q
  BY <1>1, VoleAssumption, SMT
<1> QED
  BY <1>1, <1>2, ModShift

\* A factor of a summand may be reduced first.
LEMMA ModMul ==
  ASSUME NEW x \in Int, NEW h \in Int, NEW y \in Int
  PROVE  (x + h * (y % Modulus)) % Modulus = (x + h * y) % Modulus
<1>1. PICK q \in Int, m \in 0 .. (Modulus - 1) : m = y % Modulus /\ y = Modulus * q + m
  BY ModDef
<1>2. /\ x + h * m \in Int /\ h * q \in Int
      /\ h * y = h * m + Modulus * (h * q)
  BY <1>1, VoleAssumption, SMT
<1>3. x + h * y = (x + h * m) + Modulus * (h * q)
  BY <1>1, <1>2, VoleAssumption, SMT
<1> QED
  BY <1>1, <1>2, <1>3, ModShift

\* The outputs computed from accumulators (u, v) and (u + h*g, v + g).
Correlated(u, v, g, h) ==
  FeOf(FeOf(u + h * g) - FeOf(h * FeOf(v + g))) = (FeOf(u) + h * FeOf(- FeOf(v))) % Modulus

\* What the two sides output from accumulators that agree at index 0.
LEMMA FieldCorrelation ==
  ASSUME NEW u \in Int, NEW v \in Int, NEW g \in Int, NEW h \in Int
  PROVE  Correlated(u, v, g, h)
<1> DEFINE M == Modulus
           U == u + h * g
           V == v + g
<1>a. U \in Int /\ V \in Int /\ V = v + g /\ U = u + h * g
  BY SMT
<1> HIDE DEF U, V
<1>0. /\ V % M \in Int /\ v % M \in Int /\ h * (V % M) \in Int /\ h * V \in Int /\ h * v \in Int
      /\ U % M \in Int /\ (- (v % M)) % M \in Int /\ u % M \in Int /\ -h \in Int
      /\ -(v % M) \in Int /\ h * ((- (v % M)) % M) \in Int /\ h * (-(v % M)) \in Int
      /\ h * (v % M) \in Int
  <2>1. /\ V % M \in Int /\ v % M \in Int /\ U % M \in Int /\ u % M \in Int
    BY <1>a, VoleAssumption, SMT
  <2>2. (- (v % M)) % M \in Int
    BY <2>1, VoleAssumption, SMT
  <2> HIDE DEF M
  <2> QED
    BY <1>a, <2>1, <2>2, SMT
<1>1. ((U % M) - ((h * (V % M)) % M)) % M = (U - h * V) % M
  <2> DEFINE a == U % M
             b == h * (V % M)
  <2>1. (a + (-1) * (b % M)) % M = (a + (-1) * b) % M
    <3>1. a \in Int /\ b \in Int /\ -1 \in Int
      BY <1>a, <1>0
    <3> HIDE DEF a, b
    <3> QED
      BY <1>a, <3>1, ModMul
  <2>2. (a + (-1) * b) % M = (U + (-1) * b) % M
    <3>1. (-1) * b \in Int
      BY <1>a, <1>0, SMT
    <3> QED
      BY <1>a, <3>1, ModAdd
  <2>3. (U + (-h) * (V % M)) % M = (U + (-h) * V) % M
    BY <1>a, <1>0, ModMul
  <2>4. (-1) * b = (-h) * (V % M) /\ U + (-h) * V = U - h * V
    BY <1>a, <1>0, SMT
  <2>5. a - (b % M) = a + (-1) * (b % M)
    BY <1>a, <1>0, VoleAssumption, SMT
  <2> QED
    BY <2>1, <2>2, <2>3, <2>4, <2>5
<1>2. ((u % M) + h * ((- (v % M)) % M)) % M = (u - h * v) % M
  <2> DEFINE c == - (v % M)
             d == h * (c % M)
  <2>1. ((u % M) + d) % M = (u + d) % M
    <3>1. d \in Int
      BY <1>a, <1>0
    <3> QED
      BY <1>a, <3>1, ModAdd
  <2>2. (u + h * (c % M)) % M = (u + h * c) % M
    <3>1. c \in Int
      BY <1>a, <1>0
    <3> HIDE DEF c
    <3> QED
      BY <1>a, <3>1, ModMul
  <2>3. (u + (-h) * (v % M)) % M = (u + (-h) * v) % M
    BY <1>a, <1>0, ModMul
  <2>4. h * c = (-h) * (v % M) /\ u + (-h) * v = u - h * v
    BY <1>a, <1>0, SMT
  <2> QED
    BY <2>1, <2>2, <2>3, <2>4
<1>3. U - h * V = u - h * v
  BY SMT DEF U, V
<1>4. ((U % M) - ((h * (V % M)) % M)) % M = ((u % M) + h * ((- (v % M)) % M)) % M
  BY <1>1, <1>2, <1>3
<1> QED
  BY <1>4 DEF Correlated, FeOf, U, V

----------------------------------------------------------------------------
\* A side that has expanded nothing.
LEMMA HalfInit ==
  ASSUME NEW lv
  PROVE  Half(0, Empty, Empty, [t \in Tree |-> N], lv)
<1> DEFINE at == [t \in Tree |-> N]
<1>1. HalfType(0, Empty, Empty, at)
  BY VoleAssumption DEF HalfType, Empty, Acc, Index, K
<1>2. Progress(0, at)
  BY RankTree, VoleAssumption DEF Progress, K
<1>3. History(Empty, Empty, at, lv)
  <2>1. N \in Index
    BY VoleAssumption DEF Index
  <2> QED
    BY <2>1, VoleAssumption DEF History, Empty, Index
<1>4. Bounded(Empty, Empty)
  <2> SUFFICES ASSUME NEW i \in Index
               PROVE  0 <= (LeafMax * N) * (N - i) /\ 0 <= LeafMax * (N - i)
    BY DEF Bounded, Empty
  <2>1. LeafMax \in Nat /\ N - i \in Nat /\ N \in Nat
    BY VoleAssumption DEF Index
  <2>2. LeafMax * N \in Nat
    BY <2>1, SMT
  <2> QED
    BY <2>1, <2>2, SMT
<1> QED
  BY <1>1, <1>2, <1>3, <1>4 DEF Half

\* The invariant holds initially.
LEMMA InvInit == Init => IInv
<1> SUFFICES ASSUME Init PROVE IInv
  OBVIOUS
<1>1. PprfType
  BY VoleAssumption DEF Init, PprfType, LeafRows
<1>2. Half(stask, su, sv, sAt, leaves) /\ Half(rtask, ru, rv, rAt, RLeaves)
  BY HalfInit DEF Init
<1>3. AgreeUpTo
  <2> SUFFICES ASSUME NEW t \in Tree, NEW i \in Index, sAt[t] <= i
               PROVE  Agree(t, i)
    BY DEF AgreeUpTo
  <2>1. i = N /\ N > points[t]
    BY <1>1, VoleAssumption DEF Init, Index, PprfType, Leaf
  <2> QED
    BY <2>1 DEF Agree, AgreeOn, Init, Empty
<1> QED
  BY <1>1, <1>2, <1>3 DEF IInv

\* A step of either side keeps the agreement, given what each side maintains.
LEMMA AgreeAfter ==
  ASSUME PprfType,
         NEW sk, NEW u, NEW v, NEW si, Half(sk, u, v, si, leaves),
         NEW rk, NEW ur, NEW vr, NEW ri, Half(rk, ur, vr, ri, RLeaves),
         NEW t \in Tree, NEW i \in Index, i % 4 = 0, si[t] <= i, ri[t] <= i,
         i < N => AgreeOn(u, v, ur, vr, t, i + 4)
  PROVE  AgreeOn(u, v, ur, vr, t, i)
<1>1. CASE i = N
  <2>1. N > points[t]
    BY VoleAssumption DEF PprfType, Leaf
  <2> QED
    BY <1>1, <2>1 DEF Half, History, AgreeOn
<1>2. CASE i < N
  <2>1. i + 4 \in Index
    BY <1>2, VoleAssumption, SMT DEF Index
  <2>2. StepAt(u, v, leaves, t, i) /\ StepAt(ur, vr, RLeaves, t, i)
    BY <1>2 DEF Half, History
  <2>3. u \in Acc /\ v \in Acc /\ ur \in Acc /\ vr \in Acc
    BY DEF Half, HalfType
  <2> QED
    BY <1>2, <2>1, <2>2, <2>3, AgreeStep
<1> QED
  BY <1>1, <1>2, VoleAssumption DEF Index

\* Only the entry four below the old position changes in a turn.
LEMMA TurnFrame ==
  ASSUME NEW task, NEW u, NEW v, NEW at, NEW lv,
         NEW task1, NEW u1, NEW v1, NEW at1,
         Half(task, u, v, at, lv), Turn(task, u, v, at, lv, task1, u1, v1, at1),
         NEW t \in Tree, NEW i \in Index, i % 4 = 0, at1[t] <= i
  PROVE  \/ at[t] <= i /\ u1[t][i] = u[t][i] /\ v1[t][i] = v[t][i]
         \/ /\ i + 4 \in Index /\ at[t] = i + 4
            /\ u1[t][i+4] = u[t][i+4] /\ v1[t][i+4] = v[t][i+4]
<1> DEFINE t0 == TreeOf(task)
           i0 == at[t0]
<1>1. task \in 0 .. (K - 1) /\ t0 \in Tree /\ Rank(t0) = task
  BY RankTree, VoleAssumption DEF Turn, NextTask, Half, HalfType, K
<1>2. i0 \in Index /\ i0 > 0 /\ i0 % 4 = 0
  BY <1>1 DEF Half, HalfType, Progress
<1>3. /\ at \in [Tree -> Index] /\ u \in Acc /\ v \in Acc
      /\ at1 = [at EXCEPT ![t0] = i0 - 4]
      /\ \E x : u1 = [u EXCEPT ![t0][i0-4] = x]
      /\ \E x : v1 = [v EXCEPT ![t0][i0-4] = x]
  BY DEF Half, HalfType, Turn
<1> HIDE DEF t0, i0
<1>4. i0 >= 4 /\ i0 - 4 \in Index
  BY <1>2, VoleAssumption, SMT DEF Index
<1>5. /\ \A s \in Tree, j \in Index : ~ (s = t0 /\ j = i0 - 4) => u1[s][j] = u[s][j] /\ v1[s][j] = v[s][j]
      /\ \A s \in Tree : s /= t0 => at1[s] = at[s]
      /\ at1[t0] = i0 - 4
  BY <1>1, <1>3 DEF Acc
<1>6. CASE t /= t0
  BY <1>5, <1>6
<1>7. CASE t = t0 /\ i = i0 - 4
  <2>1. i + 4 = i0 /\ i + 4 /= i0 - 4
    BY <1>7, <1>2, <1>4 DEF Index
  <2> QED
    BY <1>5, <1>7, <1>2, <2>1 DEF i0
<1>8. CASE t = t0 /\ i /= i0 - 4
  <2>1. i0 <= i
    BY <1>8, <1>5, <1>2, SMT DEF Index
  <2> QED
    BY <1>5, <1>8, <2>1 DEF i0
<1> QED
  BY <1>6, <1>7, <1>8

\* Every step keeps the invariant.
LEMMA InvNext == IInv /\ [Next]_vars => IInv'
<1> SUFFICES ASSUME IInv, [Next]_vars PROVE IInv'
  OBVIOUS
<1>1. CASE SenderExpand
  <2>1. PprfType' /\ (RLeaves' = RLeaves) /\ (leaves' = leaves) /\ (leaves \in LeafRows)
    BY <1>1 DEF SenderExpand, IInv, PprfType, RLeaves, RLeaf
  <2>2. Turn(stask, su, sv, sAt, leaves, stask', su', sv', sAt')
    BY <1>1 DEF SenderExpand, Turn, K
  <2>6. Half(stask', su', sv', sAt', leaves)
    BY <2>1, <2>2, HalfTurn DEF IInv
  <2>3. Half(stask, su, sv, sAt, leaves)'
    BY <2>6, <2>1
  <2>4. Half(rtask, ru, rv, rAt, RLeaves)'
    BY <1>1, <2>1 DEF SenderExpand, IInv
  <2>5. AgreeUpTo'
    <3> SUFFICES ASSUME NEW t \in Tree, NEW i \in Index, i % 4 = 0, sAt'[t] <= i, rAt'[t] <= i
                 PROVE  Agree(t, i)'
      BY DEF AgreeUpTo
    <3>0. ru' = ru /\ rv' = rv /\ rAt' = rAt /\ points' = points /\ junk' = junk
      BY <1>1 DEF SenderExpand
    <3>1. CASE sAt[t] <= i /\ su'[t][i] = su[t][i] /\ sv'[t][i] = sv[t][i]
      BY <3>0, <3>1, <2>1 DEF IInv, AgreeUpTo, Agree, AgreeOn, Gap
    <3>2. CASE /\ i + 4 \in Index /\ sAt[t] = i + 4
               /\ su'[t][i+4] = su[t][i+4] /\ sv'[t][i+4] = sv[t][i+4]
      <4>1. Agree(t, i + 4)
        <5>1. (i + 4) % 4 = 0 /\ rAt[t] <= i + 4 /\ sAt[t] <= i + 4
          <6>1. rAt[t] \in Int
            BY DEF IInv, Half, HalfType, Index
          <6> QED
            BY <6>1, <3>0, <3>2, SMT DEF Index
        <5> QED
          BY <5>1, <3>2 DEF IInv, AgreeUpTo
      <4>2. AgreeOn(su', sv', ru, rv, t, i + 4)
        BY <4>1, <3>2 DEF Agree, AgreeOn
      <4>3. AgreeOn(su', sv', ru, rv, t, i)
        BY <4>2, <3>0, <2>6, AgreeAfter DEF IInv
      <4> QED
        BY <4>3, <3>0, <2>1 DEF Agree, AgreeOn, Gap
    <3> QED
      BY <3>1, <3>2, <2>2, TurnFrame DEF IInv
  <2> QED
    BY <2>1, <2>3, <2>4, <2>5 DEF IInv
<1>2. CASE ReceiverExpand
  <2>1. PprfType' /\ (RLeaves' = RLeaves) /\ (leaves' = leaves) /\ (RLeaves \in LeafRows)
    BY <1>2, RLeavesType DEF ReceiverExpand, IInv, PprfType, RLeaves, RLeaf
  <2>2. Turn(rtask, ru, rv, rAt, RLeaves, rtask', ru', rv', rAt')
    <3> DEFINE t0 == TreeOf(rtask)
               i0 == rAt[t0]
    <3>1. rtask \in 0 .. (K - 1) /\ t0 \in Tree /\ Rank(t0) = rtask
      BY <1>2, RankTree, VoleAssumption DEF ReceiverExpand, IInv, Half, HalfType, K
    <3>2. i0 \in Index /\ i0 > 0 /\ i0 % 4 = 0
      BY <3>1 DEF IInv, Half, HalfType, Progress
    <3>3. i0-1 \in Leaf /\ i0-2 \in Leaf /\ i0-3 \in Leaf /\ i0-4 \in Leaf
      <4> HIDE DEF i0
      <4> QED
        BY <3>2, VoleAssumption, SMT DEF Index, Leaf
    <3>4. /\ RLeaves[t0][i0-1] = RLeaf(t0, i0-1) /\ RLeaves[t0][i0-2] = RLeaf(t0, i0-2)
          /\ RLeaves[t0][i0-3] = RLeaf(t0, i0-3) /\ RLeaves[t0][i0-4] = RLeaf(t0, i0-4)
      BY <3>1, <3>3 DEF RLeaves
    <3> QED
      BY <1>2, <3>4 DEF ReceiverExpand, Turn, K
  <2>6. Half(rtask', ru', rv', rAt', RLeaves)
    BY <2>1, <2>2, HalfTurn DEF IInv
  <2>3. Half(rtask, ru, rv, rAt, RLeaves)'
    BY <2>6, <2>1
  <2>4. Half(stask, su, sv, sAt, leaves)'
    BY <1>2, <2>1 DEF ReceiverExpand, IInv
  <2>5. AgreeUpTo'
    <3> SUFFICES ASSUME NEW t \in Tree, NEW i \in Index, i % 4 = 0, sAt'[t] <= i, rAt'[t] <= i
                 PROVE  Agree(t, i)'
      BY DEF AgreeUpTo
    <3>0. su' = su /\ sv' = sv /\ sAt' = sAt /\ points' = points /\ junk' = junk
      BY <1>2 DEF ReceiverExpand
    <3>1. CASE rAt[t] <= i /\ ru'[t][i] = ru[t][i] /\ rv'[t][i] = rv[t][i]
      BY <3>0, <3>1, <2>1 DEF IInv, AgreeUpTo, Agree, AgreeOn, Gap
    <3>2. CASE /\ i + 4 \in Index /\ rAt[t] = i + 4
               /\ ru'[t][i+4] = ru[t][i+4] /\ rv'[t][i+4] = rv[t][i+4]
      <4>1. Agree(t, i + 4)
        <5>1. (i + 4) % 4 = 0 /\ rAt[t] <= i + 4 /\ sAt[t] <= i + 4
          <6>1. sAt[t] \in Int
            BY DEF IInv, Half, HalfType, Index
          <6> QED
            BY <6>1, <3>0, <3>2, SMT DEF Index
        <5> QED
          BY <5>1, <3>2 DEF IInv, AgreeUpTo
      <4>2. AgreeOn(su, sv, ru', rv', t, i + 4)
        BY <4>1, <3>2 DEF Agree, AgreeOn
      <4>3. AgreeOn(su, sv, ru', rv', t, i)
        BY <4>2, <3>0, <2>6, AgreeAfter DEF IInv
      <4> QED
        BY <4>3, <3>0, <2>1 DEF Agree, AgreeOn, Gap
    <3> QED
      BY <3>1, <3>2, <2>2, TurnFrame DEF IInv
  <2> QED
    BY <2>1, <2>3, <2>4, <2>5 DEF IInv
<1>3. CASE UNCHANGED vars
  BY <1>3 DEF vars, IInv, PprfType, AgreeUpTo, Agree, AgreeOn, Gap, RLeaves, RLeaf
<1> QED
  BY <1>1, <1>2, <1>3 DEF Next

----------------------------------------------------------------------------
\* The inductive invariant holds of every behaviour.
THEOREM Invariance == Spec => []IInv
BY InvInit, InvNext, PTL DEF Spec

\* The accumulators of send and receive keep their types: the accumulators
\* stay natural numbers and the positions stay within the trees.
THEOREM TypeCorrect == Spec => []TypeOK
<1>1. IInv => TypeOK
  BY DEF IInv, TypeOK, PprfType, LeafRows, Half, HalfType, K
<1> QED
  BY <1>1, Invariance, PTL

\* A side that is done has expanded every tree to its last leaf.
LEMMA DoneAll ==
  ASSUME NEW u, NEW v, NEW at, NEW lv, Half(K, u, v, at, lv)
  PROVE  \A t \in Tree : at[t] = 0
BY RankTree, VoleAssumption DEF Half, Progress, K

\* TreesAllUsed: between them the VOLE+ and the ZK call of a side expand every
\* tree of the PPRF, for every split of the trees.
THEOREM AllTreesExpanded == Spec => []TreesAllUsed
<1>1. IInv => TreesAllUsed
  BY DoneAll DEF IInv, TreesAllUsed, SenderDone, ReceiverDone, K
<1> QED
  BY <1>1, Invariance, PTL

\* LanesFit: no accumulator of either side outgrows what bytes_to_fe25519
\* reads, for every tree size and leaf size with N * N * LeafMax <= LaneCap.
THEOREM LanesNeverOverflow == Spec => []LanesFit
<1>1. ASSUME NEW u \in Acc, NEW v \in Acc, Bounded(u, v), NEW t \in Tree, NEW i \in Index
      PROVE  u[t][i] <= LaneCap /\ v[t][i] <= LaneCap
  <2>1. /\ u[t][i] \in Int /\ v[t][i] \in Int
        /\ u[t][i] <= (LeafMax * N) * (N - i) /\ v[t][i] <= LeafMax * (N - i)
    BY <1>1 DEF Bounded, Acc
  <2>2. LeafMax \in Nat /\ N \in Nat /\ N >= 1 /\ N - i \in Int /\ N - i <= N /\ LaneCap \in Nat
    BY VoleAssumption DEF Index
  <2>3. LeafMax * N \in Nat
    BY <2>2, SMT
  <2>4. (LeafMax * N) * (N - i) <= (LeafMax * N) * N /\ LeafMax * (N - i) <= LeafMax * N
    BY <2>2, <2>3, MulMono
  <2>5. (LeafMax * N) * 1 <= (LeafMax * N) * N
    BY <2>2, <2>3, MulMono
  <2>6. (LeafMax * N) * N = N * N * LeafMax
    BY <2>2, SMT
  <2>7. N * N * LeafMax <= LaneCap
    BY VoleAssumption
  <2>8. (LeafMax * N) * (N - i) \in Int /\ LeafMax * (N - i) \in Int /\ (LeafMax * N) * N \in Int
        /\ (LeafMax * N) * 1 = LeafMax * N
    BY <2>2, <2>3, SMT
  <2> QED
    BY <2>1, <2>2, <2>3, <2>4, <2>5, <2>6, <2>7, <2>8
<1>2. IInv => LanesFit
  <2> SUFFICES ASSUME IInv PROVE LanesFit
    OBVIOUS
  <2>1. /\ su \in Acc /\ sv \in Acc /\ ru \in Acc /\ rv \in Acc
        /\ Bounded(su, sv) /\ Bounded(ru, rv)
    BY DEF IInv, Half, HalfType
  <2> QED
    BY <2>1, <1>1 DEF LanesFit
<1> QED
  BY <1>2, Invariance, PTL

\* Correlation: every pair of outputs of send and receive satisfies
\* o = u + h * v modulo the prime, for all trees, leaves and points.
THEOREM VoleCorrect == Spec => []Correlation
<1>1. ASSUME IInv, SenderDone, ReceiverDone, NEW t \in Tree
      PROVE  OutO(t) = (OutU(t) + OutH(t) * OutV(t)) % Modulus
  <2>1. sAt[t] = 0 /\ rAt[t] = 0
    BY <1>1, DoneAll DEF IInv, SenderDone, ReceiverDone, K
  <2>2. 0 \in Index /\ 0 % 4 = 0
    BY VoleAssumption, SMT DEF Index
  <2>3. Agree(t, 0)
    BY <2>1, <2>2, <1>1 DEF IInv, AgreeUpTo
  <2>4. points[t] \in Nat /\ Gap(t) \in Int
    BY <1>1, VoleAssumption DEF IInv, PprfType, LeafRows, Leaf, Gap
  <2>5. su[t][0] \in Int /\ sv[t][0] \in Int /\ ru[t][0] \in Int /\ rv[t][0] \in Int
    BY <1>1, <2>2 DEF IInv, Half, HalfType, Acc
  <2>6. rv[t][0] = sv[t][0] + Gap(t) /\ ru[t][0] = su[t][0] + points[t] * Gap(t)
    BY <2>3, <2>4 DEF Agree, AgreeOn
  <2>7. points[t] \in Int
    BY <2>4
  <2>8. FeOf(FeOf(ru[t][0]) - FeOf(points[t] * FeOf(rv[t][0])))
        = (FeOf(su[t][0]) + points[t] * FeOf(- FeOf(sv[t][0]))) % Modulus
    <3> DEFINE u == su[t][0]
               v == sv[t][0]
               U == ru[t][0]
               V == rv[t][0]
               g == Gap(t)
               h == points[t]
    <3>0. u \in Int /\ v \in Int /\ g \in Int /\ h \in Int
      BY <2>4, <2>5, <2>7
    <3>1. V = v + g /\ U = u + h * g
      BY <2>6
    <3> HIDE DEF u, v, U, V, g, h
    <3>2. Correlated(u, v, g, h)
      BY <3>0, FieldCorrelation
    <3>3. FeOf(FeOf(U) - FeOf(h * FeOf(V))) = (FeOf(u) + h * FeOf(- FeOf(v))) % Modulus
      BY <3>1, <3>2 DEF Correlated
    <3> QED
      BY <3>3 DEF u, v, U, V, h
  <2> QED
    BY <2>8 DEF OutO, OutU, OutV, OutH
<1>2. IInv => Correlation
  <2>1. /\ \A j \in 0 .. (KVp - 1) : VpTree(j) \in Tree
        /\ \A j \in 0 .. (KZk - 1) : ZkTree(j) \in Tree
    BY VoleAssumption DEF VpTree, ZkTree, Tree
  <2> QED
    BY <1>1, <2>1 DEF Correlation
<1> QED
  BY <1>2, Invariance, PTL
============================================================================
