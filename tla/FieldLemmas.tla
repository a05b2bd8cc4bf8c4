----------------------------- MODULE FieldLemmas -----------------------------
(***************************************************************************)
(* What the proofs about field values need of integers: residues modulo M,  *)
(* Euclid's lemma for a prime M, induction over an interval, and the sums   *)
(* and inner products a loop computes.                                      *)
(*                                                                         *)
(* Induction comes from the well-foundedness of the finite subsets of Nat:  *)
(* a nonempty set T of numbers has a least element, because {0..n : n in T} *)
(* has a minimal member.  LoopInduction and LoopExists follow: a loop that  *)
(* computes each value from an earlier one has a value at every index,     *)
(* which makes the recursive functions of the models usable in proofs.     *)
(***************************************************************************)
EXTENDS Integers, FiniteSetTheorems, WellFoundedInduction, TLAPS

CONSTANT M \* the modulus

\* The residue of a number.
Res(x) == x % M

\* The least element of a nonempty set of natural numbers.
LEMMA LeastElement ==
  ASSUME NEW T, T \subseteq Nat, T # {}
  PROVE  \E n \in T : \A m \in T : n <= m
<1> DEFINE R == StrictSubsetOrdering(Nat)
           Below == {0 .. n : n \in T}
<1>1. IsWellFoundedOn(R, FiniteSubsetsOf(Nat))
  BY FS_StrictSubsetOrderingWellFounded
<1>2. Below \subseteq FiniteSubsetsOf(Nat)
  <2>1. ASSUME NEW n \in T PROVE 0 .. n \in FiniteSubsetsOf(Nat)
    <3>1. n \in Int
      OBVIOUS
    <3>2. IsFiniteSet(0 .. n)
      BY <3>1, FS_Interval
    <3> QED
      BY <3>2 DEF FiniteSubsetsOf
  <2> QED
    BY <2>1
<1>3. Below # {}
  OBVIOUS
<1>4. PICK x \in Below : \A y \in Below : ~ (<<y, x>> \in R)
  <2> HIDE DEF R, Below
  <2> QED
    BY <1>1, <1>2, <1>3, WFMin
<1>5. PICK n \in T : x = 0 .. n
  BY <1>4
<1>6. ASSUME NEW m \in T, m < n PROVE FALSE
  <2>1. 0 .. m \subseteq 0 .. n /\ n \in 0 .. n /\ n \notin 0 .. m
    BY <1>6
  <2>2. <<0 .. m, 0 .. n>> \in R
    BY <2>1 DEF StrictSubsetOrdering
  <2> QED
    BY <2>2, <1>4, <1>5
<1> QED
  BY <1>6

\* Strong induction, for a set of natural numbers.
LEMMA StrongInduction ==
  ASSUME NEW T, NEW n \in Nat,
         \A j \in 0 .. n : (\A i \in 0 .. (j - 1) : i \in T) => j \in T
  PROVE  0 .. n \subseteq T
<1> DEFINE Out == {j \in 0 .. n : j \notin T}
<1> SUFFICES ASSUME Out # {} PROVE FALSE
  OBVIOUS
<1>1. Out \subseteq Nat
  OBVIOUS
<1>2. PICK j \in Out : \A m \in Out : j <= m
  <2> HIDE DEF Out
  <2> QED
    BY <1>1, LeastElement
<1> QED
  BY <1>2

\* Induction along a loop from 0 to n.
LEMMA LoopInduction ==
  ASSUME NEW T, NEW n \in Nat, 0 \in T,
         \A j \in 1 .. n : j - 1 \in T => j \in T
  PROVE  0 .. n \subseteq T
<1>1. \A j \in 0 .. n : (\A i \in 0 .. (j - 1) : i \in T) => j \in T
  OBVIOUS
<1> QED
  BY <1>1, StrongInduction

\* A loop that starts from a and goes on with step; its index j may look back at any
\* earlier index back[j].
Loop(f, n, a, back, step) == /\ f[0] = a
                             /\ \A j \in 1 .. n : f[j] = step[<<j, f[back[j]]>>]
LooksBack(back, n) == \A j \in 1 .. n : back[j] \in 0 .. (j - 1)
Closed(step, n, S) == \A j \in 1 .. n : \A v \in S : step[<<j, v>>] \in S

\* Such a loop has a value at every index.
LEMMA LoopExists ==
  ASSUME NEW S, NEW n \in Nat, NEW a \in S,
         NEW back, LooksBack(back, n),
         NEW step, Closed(step, n, S)
  PROVE  \E f \in [0 .. n -> S] : Loop(f, n, a, back, step)
<1> DEFINE Runs(f, m) == /\ f \in [0 .. m -> S] /\ f[0] = a
                         /\ \A j \in 1 .. m : f[j] = step[<<j, f[back[j]]>>]
           T == {m \in 0 .. n : \E f : Runs(f, m)}
<1>1. 0 \in T
  <2> DEFINE g == [j \in 0 .. 0 |-> a]
  <2>1. g \in [0 .. 0 -> S] /\ g[0] = a /\ 1 .. 0 = {}
    OBVIOUS
  <2>2. Runs(g, 0)
    BY <2>1
  <2> HIDE DEF Runs, g
  <2> QED
    BY <2>2
<1>2. ASSUME NEW m \in 1 .. n, m - 1 \in T PROVE m \in T
  <2>1. PICK f : Runs(f, m - 1)
    BY <1>2
  <2> DEFINE last == step[<<m, f[back[m]]>>]
             g == [j \in 0 .. m |-> IF j = m THEN last ELSE f[j]]
  <2>2. \A j \in 1 .. m : back[j] \in 0 .. (m - 1) /\ back[j] \in 0 .. (j - 1)
    BY DEF LooksBack
  <2>3. last \in S
    BY <2>1, <2>2 DEF Closed
  <2>4. g \in [0 .. m -> S] /\ g[0] = a
    <3> HIDE DEF last
    <3> QED
      BY <2>1, <2>3
  <2>5. ASSUME NEW j \in 1 .. m PROVE g[j] = step[<<j, g[back[j]]>>]
    <3>1. g[back[j]] = f[back[j]]
      BY <2>2
    <3>2. CASE j = m
      <4>1. g[m] = last
        OBVIOUS
      <4> HIDE DEF g
      <4> QED
        BY <4>1, <3>1, <3>2
    <3>3. CASE j # m
      <4>1. j \in 1 .. (m - 1) /\ g[j] = f[j]
        BY <3>3
      <4>2. f[j] = step[<<j, f[back[j]]>>]
        BY <4>1, <2>1
      <4> HIDE DEF g
      <4> QED
        BY <4>1, <4>2, <3>1
    <3> QED
      BY <3>2, <3>3
  <2>6. Runs(g, m)
    <3> HIDE DEF g
    <3> QED
      BY <2>4, <2>5
  <2> HIDE DEF Runs, g
  <2> QED
    BY <2>6
<1>3. n \in T
  <2> HIDE DEF T
  <2>1. \A m \in 1 .. n : m - 1 \in T => m \in T
    BY <1>2
  <2>2. 0 .. n \subseteq T
    BY <1>1, <2>1, LoopInduction
  <2> QED
    BY <2>2
<1> QED
  BY <1>3 DEF Loop
----------------------------------------------------------------------------
\* Division with remainder.
LEMMA ModDef ==
  ASSUME M \in Nat \ {0}
  PROVE  \A x \in Int : x % M \in 0 .. (M - 1) /\ \E q \in Int : x = q * M + (x % M)
<1> TAKE x \in Int
<1>1. x \div M \in Int /\ x % M \in 0 .. (M - 1)
  BY SMT
<1>2. x = (x \div M) * M + (x % M)
  BY SMT
<1> QED
  BY <1>1, <1>2

\* The remainder is the only number in range.
LEMMA ModUnique ==
  ASSUME M \in Nat \ {0}
  PROVE  \A x, q \in Int : \A m \in 0 .. (M - 1) : x = q * M + m => x % M = m
BY SMTT(30)

\* Two numbers have the same remainder exactly when they differ by a multiple.
LEMMA ModEq ==
  ASSUME M \in Nat \ {0}
  PROVE  \A x, y \in Int : x % M = y % M <=> \E k \in Int : x = y + k * M
<1> TAKE x, y \in Int
<1>1. PICK p \in Int : x = p * M + (x % M)
  BY ModDef
<1>2. PICK q \in Int : y = q * M + (y % M)
  BY ModDef
<1>3. x % M \in 0 .. (M - 1) /\ y % M \in 0 .. (M - 1)
  BY ModDef
<1>4. ASSUME x % M = y % M PROVE \E k \in Int : x = y + k * M
  <2>1. p - q \in Int /\ x = y + (p - q) * M
    BY <1>1, <1>2, <1>3, <1>4, SMT
  <2> QED
    BY <2>1
<1>5. ASSUME NEW k \in Int, x = y + k * M PROVE x % M = y % M
  <2> DEFINE r == q + k
             m == y % M
  <2>1. r \in Int /\ m \in 0 .. (M - 1) /\ x = r * M + m
    BY <1>2, <1>3, <1>5, SMT
  <2> HIDE DEF r, m
  <2>2. x % M = m
    BY <2>1, ModUnique
  <2> QED
    BY <2>2 DEF m
<1> QED
  BY <1>4, <1>5

\* A residue is in range.
LEMMA ResRange ==
  ASSUME M \in Nat \ {0}
  PROVE  \A x \in Int : Res(x) \in 0 .. (M - 1) /\ Res(x) \in Int
BY ModDef DEF Res

\* Congruent numbers differ by a multiple of the modulus.
LEMMA ResDiffer ==
  ASSUME M \in Nat \ {0}
  PROVE  \A x, y \in Int : Res(x) = Res(y) => \E k \in Int : x = y + k * M
BY ModEq DEF Res

\* Multiples of the modulus do not change a residue.
LEMMA ResShift ==
  ASSUME M \in Nat \ {0}, NEW x \in Int, NEW y \in Int, NEW k \in Int, x = y + k * M
  PROVE  Res(x) = Res(y)
BY ModEq DEF Res

\* A number in range is its own residue, and a residue may be taken twice.
LEMMA ResSmall ==
  ASSUME M \in Nat \ {0}
  PROVE  /\ \A x \in 0 .. (M - 1) : Res(x) = x
         /\ \A x \in Int : Res(Res(x)) = Res(x)
         /\ Res(0) = 0 /\ Res(M) = 0
<1>1. \A x \in 0 .. (M - 1) : Res(x) = x
  <2> TAKE x \in 0 .. (M - 1)
  <2>1. 0 \in Int /\ x \in Int /\ x = 0 * M + x
    OBVIOUS
  <2> QED
    BY <2>1, ModUnique DEF Res
<1>2. \A x \in Int : Res(x) \in 0 .. (M - 1)
  BY ResRange
<1>3. 0 \in 0 .. (M - 1) /\ M \in Int /\ 1 \in Int /\ M = 0 + 1 * M
  OBVIOUS
<1>4. Res(M) = Res(0)
  BY <1>3, ResShift
<1> QED
  BY <1>1, <1>2, <1>3, <1>4

\* Sums, differences and products of congruent numbers are congruent.
LEMMA ResOps ==
  ASSUME M \in Nat \ {0}, NEW a \in Int, NEW b \in Int, NEW c \in Int, NEW d \in Int,
         Res(a) = Res(b), Res(c) = Res(d)
  PROVE  /\ Res(a + c) = Res(b + d)
         /\ Res(a - c) = Res(b - d)
         /\ Res(a * c) = Res(b * d)
<1>1. PICK k \in Int : a = b + k * M
  BY ResDiffer
<1>2. PICK n \in Int : c = d + n * M
  BY ResDiffer
<1>3. Res(a + c) = Res(b + d)
  <2> DEFINE x == a + c
             y == b + d
             z == k + n
  <2>1. x \in Int /\ y \in Int /\ z \in Int /\ x = y + z * M
    BY <1>1, <1>2, SMT
  <2> HIDE DEF x, y, z
  <2>2. Res(x) = Res(y)
    BY <2>1, ResShift
  <2> QED
    BY <2>2 DEF x, y
<1>4. Res(a - c) = Res(b - d)
  <2> DEFINE x == a - c
             y == b - d
             z == k - n
  <2>1. x \in Int /\ y \in Int /\ z \in Int /\ x = y + z * M
    BY <1>1, <1>2, SMT
  <2> HIDE DEF x, y, z
  <2>2. Res(x) = Res(y)
    BY <2>1, ResShift
  <2> QED
    BY <2>2 DEF x, y
<1>5. Res(a * c) = Res(b * d)
  <2> DEFINE x == a * c
             y == b * d
             z == b * n + k * d + k * n * M
  <2>1. x \in Int /\ y \in Int /\ z \in Int /\ x = y + z * M
    BY <1>1, <1>2, SMT
  <2> HIDE DEF x, y, z
  <2>2. Res(x) = Res(y)
    BY <2>1, ResShift
  <2> QED
    BY <2>2 DEF x, y
<1> QED
  BY <1>3, <1>4, <1>5

\* An operand may be reduced first.
LEMMA ResReduce ==
  ASSUME M \in Nat \ {0}, NEW x \in Int, NEW y \in Int
  PROVE  /\ Res(Res(x) + y) = Res(x + y)
         /\ Res(x + Res(y)) = Res(x + y)
         /\ Res(Res(x) - y) = Res(x - y)
         /\ Res(x - Res(y)) = Res(x - y)
         /\ Res(Res(x) * y) = Res(x * y)
         /\ Res(x * Res(y)) = Res(x * y)
<1>1. Res(x) \in Int /\ Res(y) \in Int /\ Res(Res(x)) = Res(x) /\ Res(Res(y)) = Res(y)
  BY ResRange, ResSmall
<1> DEFINE r == Res(x)
           s == Res(y)
<1>2. r \in Int /\ s \in Int /\ Res(r) = Res(x) /\ Res(s) = Res(y) /\ Res(x) = Res(x) /\ Res(y) = Res(y)
  BY <1>1
<1> HIDE DEF r, s
<1>3. Res(r + y) = Res(x + y) /\ Res(r - y) = Res(x - y) /\ Res(r * y) = Res(x * y)
  BY <1>2, ResOps
<1>4. Res(x + s) = Res(x + y) /\ Res(x - s) = Res(x - y) /\ Res(x * s) = Res(x * y)
  BY <1>2, ResOps
<1> QED
  BY <1>3, <1>4 DEF r, s

----------------------------------------------------------------------------
(* Sums along a loop.                                                      *)

Total(t, n) ==
  LET acc[j \in 0 .. n] == IF j = 0 THEN t[0] ELSE acc[j - 1] + t[j] IN acc[n]

\* The loop has a value at every index.
LEMMA SumLoop ==
  ASSUME NEW n \in Nat, NEW t \in [0 .. n -> Int]
  PROVE  \E acc \in [0 .. n -> Int] : /\ acc[0] = t[0]
                                      /\ \A j \in 1 .. n : acc[j] = acc[j - 1] + t[j]
                                      /\ Total(t, n) = acc[n]
<1> DEFINE Acc(f) == f = [j \in 0 .. n |-> IF j = 0 THEN t[0] ELSE f[j - 1] + t[j]]
           acc == CHOOSE f : Acc(f)
<1>1. \E f : Acc(f)
  <2> DEFINE d == [j \in 1 .. n |-> j - 1]
             step == [jv \in (1 .. n) \X Int |-> jv[2] + t[jv[1]]]
  <2>1. LooksBack(d, n) /\ Closed(step, n, Int) /\ t[0] \in Int
    BY DEF LooksBack, Closed
  <2>4. PICK f \in [0 .. n -> Int] : Loop(f, n, t[0], d, step)
    <3> HIDE DEF d, step
    <3> QED
      BY <2>1, LoopExists
  <2>5. ASSUME NEW j \in 1 .. n
        PROVE  f[j] = f[j - 1] + t[j]
    <3>1. d[j] = j - 1 /\ f[j - 1] \in Int
      OBVIOUS
    <3>2. step[<<j, f[j - 1]>>] = f[j - 1] + t[j]
      BY <3>1
    <3> HIDE DEF d, step
    <3> QED
      BY <2>4, <3>1, <3>2 DEF Loop
  <2> HIDE DEF d, step
  <2>6. Acc(f)
    BY <2>4, <2>5 DEF Loop
  <2> QED
    BY <2>6
<1>2. Acc(acc)
  <2> HIDE DEF Acc
  <2> QED
    BY <1>1
<1>3. Total(t, n) = acc[n]
  BY DEF Total
<1> HIDE DEF acc
<1>4. /\ acc[0] = t[0]
      /\ \A j \in 1 .. n : acc[j] = acc[j - 1] + t[j]
  BY <1>2
<1>5. acc \in [0 .. n -> Int]
  <2> DEFINE T == {j \in 0 .. n : acc[j] \in Int}
  <2>1. 0 \in T /\ \A j \in 1 .. n : j - 1 \in T => j \in T
    BY <1>4
  <2>2. 0 .. n \subseteq T
    <3> HIDE DEF T
    <3> QED
      BY <2>1, LoopInduction
  <2>3. DOMAIN acc = 0 .. n /\ acc = [j \in 0 .. n |-> acc[j]]
    BY <1>2
  <2> QED
    BY <2>2, <2>3
<1> QED
  BY <1>3, <1>4, <1>5

\* The sum of two rows.
LEMMA SumAdd ==
  ASSUME NEW n \in Nat, NEW s \in [0 .. n -> Int], NEW t \in [0 .. n -> Int], NEW c \in Int
  PROVE  Total([j \in 0 .. n |-> s[j] + c * t[j]], n) = Total(s, n) + c * Total(t, n)
<1> DEFINE r == [j \in 0 .. n |-> s[j] + c * t[j]]
<1>1. r \in [0 .. n -> Int] /\ \A j \in 0 .. n : r[j] = s[j] + c * t[j]
  BY SMT
<1> HIDE DEF r
<1>2. PICK x \in [0 .. n -> Int] : /\ x[0] = r[0]
                                   /\ \A j \in 1 .. n : x[j] = x[j - 1] + r[j]
                                   /\ Total(r, n) = x[n]
  BY <1>1, SumLoop
<1>3. PICK y \in [0 .. n -> Int] : /\ y[0] = s[0]
                                   /\ \A j \in 1 .. n : y[j] = y[j - 1] + s[j]
                                   /\ Total(s, n) = y[n]
  BY SumLoop
<1>4. PICK z \in [0 .. n -> Int] : /\ z[0] = t[0]
                                   /\ \A j \in 1 .. n : z[j] = z[j - 1] + t[j]
                                   /\ Total(t, n) = z[n]
  BY SumLoop
<1> DEFINE T == {j \in 0 .. n : x[j] = y[j] + c * z[j]}
<1>5. 0 \in T
  BY <1>1, <1>2, <1>3, <1>4
<1>6. ASSUME NEW j \in 1 .. n, j - 1 \in T PROVE j \in T
  <2>1. j - 1 \in 0 .. n /\ j \in 0 .. n /\ x[j - 1] = y[j - 1] + c * z[j - 1]
    BY <1>6
  <2>2. /\ y[j - 1] \in Int /\ z[j - 1] \in Int /\ s[j] \in Int /\ t[j] \in Int
        /\ x[j] = x[j - 1] + (s[j] + c * t[j])
        /\ y[j] = y[j - 1] + s[j]
        /\ z[j] = z[j - 1] + t[j]
    BY <1>1, <1>2, <1>3, <1>4, <2>1
  <2> DEFINE p == y[j - 1]
             q == z[j - 1]
             sj == s[j]
             tj == t[j]
  <2>3. p \in Int /\ q \in Int /\ sj \in Int /\ tj \in Int /\ x[j - 1] = p + c * q
        /\ x[j] = x[j - 1] + (sj + c * tj) /\ y[j] = p + sj /\ z[j] = q + tj
    BY <2>1, <2>2
  <2> HIDE DEF p, q, sj, tj
  <2>4. (p + c * q) + (sj + c * tj) = (p + sj) + c * (q + tj)
    BY <2>3, SMT
  <2>5. x[j] = y[j] + c * z[j]
    BY <2>3, <2>4
  <2> QED
    BY <2>1, <2>5
<1>7. 0 .. n \subseteq T
  <2> HIDE DEF T
  <2> QED
    BY <1>5, <1>6, LoopInduction
<1> QED
  BY <1>2, <1>3, <1>4, <1>7 DEF r

\* A row with one entry.
LEMMA SumSingle ==
  ASSUME NEW n \in Nat, NEW t \in [0 .. n -> Int], NEW at \in 0 .. n,
         \A j \in 0 .. n : j # at => t[j] = 0
  PROVE  Total(t, n) = t[at]
<1>1. PICK x \in [0 .. n -> Int] : /\ x[0] = t[0]
                                   /\ \A j \in 1 .. n : x[j] = x[j - 1] + t[j]
                                   /\ Total(t, n) = x[n]
  BY SumLoop
<1> DEFINE T == {j \in 0 .. n : x[j] = IF j < at THEN 0 ELSE t[at]}
<1>2. 0 \in T
  BY <1>1
<1>3. ASSUME NEW j \in 1 .. n, j - 1 \in T PROVE j \in T
  <2>1. x[j] = x[j - 1] + t[j] /\ t[j] \in Int /\ t[at] \in Int
    BY <1>1
  <2>2. CASE j = at
    BY <1>3, <2>1, <2>2
  <2>3. CASE j # at
    BY <1>3, <2>1, <2>3
  <2> QED
    BY <2>2, <2>3
<1>4. 0 .. n \subseteq T
  <2> HIDE DEF T
  <2> QED
    BY <1>2, <1>3, LoopInduction
<1> QED
  BY <1>1, <1>4

\* A sum is an integer, and congruent rows have congruent sums.
LEMMA SumInt ==
  ASSUME NEW n \in Nat, NEW t \in [0 .. n -> Int]
  PROVE  Total(t, n) \in Int
<1>1. PICK x \in [0 .. n -> Int] : Total(t, n) = x[n]
  BY SumLoop
<1> QED
  BY <1>1

\* Rows that are congruent entry by entry have congruent sums.
LEMMA SumCongruent ==
  ASSUME M \in Nat \ {0}, NEW n \in Nat, NEW s \in [0 .. n -> Int], NEW t \in [0 .. n -> Int],
         \A j \in 0 .. n : Res(s[j]) = Res(t[j])
  PROVE  Res(Total(s, n)) = Res(Total(t, n))
<1>1. ASSUME NEW j \in 0 .. n
      PROVE  \E k \in Int : s[j] = t[j] + k * M
  <2>1. s[j] \in Int /\ t[j] \in Int /\ Res(s[j]) = Res(t[j])
    OBVIOUS
  <2> QED
    BY <2>1, ResDiffer
<1> DEFINE k == [j \in 0 .. n |-> CHOOSE m \in Int : s[j] = t[j] + m * M]
<1>2. k \in [0 .. n -> Int] /\ \A j \in 0 .. n : s[j] = t[j] + k[j] * M
  BY <1>1
<1> HIDE DEF k
<1>3. M \in Int
  OBVIOUS
<1>4. s = [j \in 0 .. n |-> t[j] + M * k[j]]
  BY <1>2, <1>3, SMT
<1>5. Total(s, n) = Total(t, n) + M * Total(k, n)
  BY <1>2, <1>3, <1>4, SumAdd
<1> DEFINE x == Total(s, n)
           y == Total(t, n)
           z == Total(k, n)
<1>6. x \in Int /\ y \in Int /\ z \in Int /\ x = y + z * M
  <2>1. x \in Int /\ y \in Int /\ z \in Int
    BY <1>2, SumInt
  <2> HIDE DEF x, y, z
  <2>2. x = y + M * z
    BY <1>5 DEF x, y, z
  <2> QED
    BY <1>3, <2>1, <2>2, SMT
<1> HIDE DEF x, y, z
<1>7. Res(x) = Res(y)
  BY <1>6, ResShift
<1> QED
  BY <1>7 DEF x, y

\* An inner product.
Inner(n, g, x) == Total([j \in 0 .. n |-> g[j] * x[j]], n)

\* An inner product of integers is an integer.
LEMMA InnerInt ==
  ASSUME NEW n \in Nat, NEW g \in [0 .. n -> Int], NEW x \in [0 .. n -> Int]
  PROVE  Inner(n, g, x) \in Int
<1>1. [j \in 0 .. n |-> g[j] * x[j]] \in [0 .. n -> Int]
  BY SMT
<1> QED
  BY <1>1, SumInt DEF Inner

\* The row x + c*y.
Plus(n, x, c, y) == [j \in 0 .. n |-> x[j] + c * y[j]]

\* What the entries of x + c*y are.
LEMMA PlusInt ==
  ASSUME NEW n \in Nat, NEW c \in Int,
         NEW x \in [0 .. n -> Int], NEW y \in [0 .. n -> Int]
  PROVE  /\ Plus(n, x, c, y) \in [0 .. n -> Int]
         /\ \A j \in 0 .. n : Plus(n, x, c, y)[j] = x[j] + c * y[j]
BY SMT DEF Plus

\* Inner products are linear.
LEMMA InnerAdd ==
  ASSUME NEW n \in Nat, NEW g \in [0 .. n -> Int], NEW c \in Int,
         NEW x \in [0 .. n -> Int], NEW y \in [0 .. n -> Int]
  PROVE  Inner(n, g, Plus(n, x, c, y)) = Inner(n, g, x) + c * Inner(n, g, y)
<1> DEFINE s == [j \in 0 .. n |-> g[j] * x[j]]
           t == [j \in 0 .. n |-> g[j] * y[j]]
           z == [j \in 0 .. n |-> x[j] + c * y[j]]
<1>1. s \in [0 .. n -> Int] /\ t \in [0 .. n -> Int]
  BY SMT
<1>2. ASSUME NEW j \in 0 .. n
      PROVE  g[j] * z[j] = s[j] + c * t[j]
  <2> DEFINE a == g[j]
             p == x[j]
             q == y[j]
  <2>1. a \in Int /\ p \in Int /\ q \in Int
    OBVIOUS
  <2> HIDE DEF a, p, q
  <2>2. a * (p + c * q) = a * p + c * (a * q)
    BY <2>1, SMT
  <2> QED
    BY <2>2 DEF a, p, q
<1>3. [j \in 0 .. n |-> g[j] * z[j]] = [j \in 0 .. n |-> s[j] + c * t[j]]
  BY <1>2
<1> HIDE DEF s, t, z
<1>4. Total([j \in 0 .. n |-> s[j] + c * t[j]], n) = Total(s, n) + c * Total(t, n)
  BY <1>1, SumAdd
<1> QED
  BY <1>3, <1>4 DEF Inner, Plus, s, t, z

\* Congruent rows have congruent inner products.
LEMMA InnerCongruent ==
  ASSUME M \in Nat \ {0}, NEW n \in Nat, NEW g \in [0 .. n -> Int],
         NEW x \in [0 .. n -> Int], NEW y \in [0 .. n -> Int],
         \A j \in 0 .. n : Res(x[j]) = Res(y[j])
  PROVE  Res(Inner(n, g, x)) = Res(Inner(n, g, y))
<1> DEFINE s == [j \in 0 .. n |-> g[j] * x[j]]
           t == [j \in 0 .. n |-> g[j] * y[j]]
<1>1. s \in [0 .. n -> Int] /\ t \in [0 .. n -> Int]
  BY SMT
<1>2. ASSUME NEW j \in 0 .. n
      PROVE  Res(s[j]) = Res(t[j])
  <2> DEFINE a == g[j]
             p == x[j]
             q == y[j]
             e == a * p
             f == a * q
  <2>1. a \in Int /\ p \in Int /\ q \in Int /\ Res(p) = Res(q) /\ s[j] = e /\ t[j] = f /\ M \in Int
    OBVIOUS
  <2>2. PICK k \in Int : p = q + k * M
    <3> HIDE DEF p, q, s, t
    <3> QED
      BY <2>1, ResDiffer
  <2>3. e \in Int /\ f \in Int /\ a * k \in Int /\ e = f + (a * k) * M
    <3> HIDE DEF a, p, q, s, t
    <3> QED
      BY <2>1, <2>2, SMT
  <2>4. Res(e) = Res(f)
    <3> DEFINE m == a * k
    <3>1. m \in Int /\ e = f + m * M
      BY <2>3
    <3> HIDE DEF e, f, m
    <3> QED
      BY <2>3, <3>1, ResShift
  <2> QED
    BY <2>1, <2>4
<1> HIDE DEF s, t
<1>3. Res(Total(s, n)) = Res(Total(t, n))
  BY <1>1, <1>2, SumCongruent
<1> QED
  BY <1>3 DEF Inner, s, t

\* The inner product with a row of one entry.
LEMMA InnerSingle ==
  ASSUME NEW n \in Nat, NEW g \in [0 .. n -> Int], NEW x \in [0 .. n -> Int], NEW at \in 0 .. n,
         \A j \in 0 .. n : j # at => x[j] = 0
  PROVE  Inner(n, g, x) = g[at] * x[at]
<1> DEFINE t == [j \in 0 .. n |-> g[j] * x[j]]
<1>1. t \in [0 .. n -> Int]
  BY SMT
<1>2. \A j \in 0 .. n : j # at => t[j] = 0
  <2> TAKE j \in 0 .. n
  <2> HAVE j # at
  <2>1. g[j] \in Int /\ x[j] = 0
    OBVIOUS
  <2> QED
    BY <2>1
<1>3. t[at] = g[at] * x[at]
  OBVIOUS
<1> HIDE DEF t
<1>4. Total(t, n) = t[at]
  BY <1>1, <1>2, SumSingle
<1> QED
  BY <1>3, <1>4 DEF Inner, t

\* The row r is u + a*(v + e), entry by entry and modulo M.
IsShifted(n, r, u, a, v, e) == \A j \in 0 .. n : Res(r[j]) = Res(u[j] + a * (v[j] + e[j]))

\* So is its inner product with g.
ProductShifted(n, g, r, u, a, v, e) ==
  Res(Inner(n, g, r)) = Res(Inner(n, g, u) + a * (Inner(n, g, v) + Inner(n, g, e)))

\* The inner product with a shifted row is the shifted inner product.
LEMMA InnerShifted ==
  ASSUME M \in Nat \ {0}, NEW n \in Nat, NEW g \in [0 .. n -> Int], NEW a \in Int,
         NEW u \in [0 .. n -> Int], NEW v \in [0 .. n -> Int], NEW e \in [0 .. n -> Int],
         NEW r \in [0 .. n -> Int], IsShifted(n, r, u, a, v, e)
  PROVE  ProductShifted(n, g, r, u, a, v, e)
<1>0. 1 \in Int
  OBVIOUS
<1> DEFINE z == Plus(n, v, 1, e)
<1>1. z \in [0 .. n -> Int] /\ \A j \in 0 .. n : z[j] = v[j] + 1 * e[j]
  <2>1. /\ Plus(n, v, 1, e) \in [0 .. n -> Int]
        /\ \A j \in 0 .. n : Plus(n, v, 1, e)[j] = v[j] + 1 * e[j]
    BY <1>0, PlusInt, ZenonT(40)
  <2> QED
    BY <2>1
<1> HIDE DEF z
<1> DEFINE w == Plus(n, u, a, z)
<1>2. w \in [0 .. n -> Int] /\ \A j \in 0 .. n : w[j] = u[j] + a * z[j]
  <2>1. z \in [0 .. n -> Int]
    BY <1>1
  <2>2. /\ Plus(n, u, a, z) \in [0 .. n -> Int]
        /\ \A j \in 0 .. n : Plus(n, u, a, z)[j] = u[j] + a * z[j]
    BY <2>1, PlusInt, ZenonT(40)
  <2> QED
    BY <2>2
<1>3. \A j \in 0 .. n : Res(r[j]) = Res(w[j])
  <2> HIDE DEF w
  <2> TAKE j \in 0 .. n
  <2>1. e[j] \in Int /\ v[j] \in Int /\ z[j] = v[j] + 1 * e[j] /\ w[j] = u[j] + a * z[j]
    BY <1>1, <1>2
  <2>2. z[j] = v[j] + e[j]
    BY <2>1
  <2>3. w[j] = u[j] + a * (v[j] + e[j])
    BY <2>1, <2>2
  <2> QED
    BY <2>3 DEF IsShifted
<1>4. Inner(n, g, w) = Inner(n, g, u) + a * Inner(n, g, z)
  <2>1. Inner(n, g, Plus(n, u, a, z)) = Inner(n, g, u) + a * Inner(n, g, z)
    BY <1>1, InnerAdd, ZenonT(40)
  <2> QED
    BY <2>1
<1> HIDE DEF w
<1>5. Res(Inner(n, g, r)) = Res(Inner(n, g, w))
  BY <1>2, <1>3, InnerCongruent
<1>6. Inner(n, g, z) = Inner(n, g, v) + 1 * Inner(n, g, e)
  <2>1. Inner(n, g, Plus(n, v, 1, e)) = Inner(n, g, v) + 1 * Inner(n, g, e)
    BY <1>0, InnerAdd, ZenonT(40)
  <2> QED
    BY <2>1 DEF z
<1>7. Inner(n, g, e) \in Int
  BY InnerInt
<1> QED
  BY <1>4, <1>5, <1>6, <1>7 DEF ProductShifted

\* The inner product with zeros.
LEMMA InnerZero ==
  ASSUME NEW n \in Nat, NEW g \in [0 .. n -> Int], NEW x \in [0 .. n -> Int],
         \A j \in 0 .. n : x[j] = 0
  PROVE  Inner(n, g, x) = 0
<1>1. 0 \in 0 .. n /\ g[0] \in Int /\ x[0] = 0
  OBVIOUS
<1>2. Inner(n, g, x) = g[0] * x[0]
  BY <1>1, InnerSingle
<1> QED
  BY <1>1, <1>2

----------------------------------------------------------------------------
(* Polynomials at a point: rows of coefficients against rows of powers.    *)

\* A loop's sum, one step further.
LEMMA TotalStep ==
  ASSUME NEW n \in Nat, NEW t, NEW m \in 0 .. n, \A j \in 0 .. n : t[j] \in Int
  PROVE  /\ Total(t, m) \in Int
         /\ m = 0 => Total(t, m) = t[0]
         /\ m > 0 => Total(t, m) = Total(t, m - 1) + t[m]
<1> DEFINE s(k) == [j \in 0 .. k |-> t[j]]
<1>1. ASSUME NEW k \in 0 .. n
      PROVE  \E acc \in [0 .. k -> Int] : /\ acc[0] = t[0]
                                          /\ \A j \in 1 .. k : acc[j] = acc[j - 1] + t[j]
                                          /\ Total(t, k) = acc[k]
  <2>1. k \in Nat /\ s(k) \in [0 .. k -> Int] /\ \A j \in 0 .. k : s(k)[j] = t[j]
    OBVIOUS
  <2>2. Total(s(k), k) = Total(t, k)
    <3>1. [j \in 0 .. k |-> t[j]][0] = t[0]
      OBVIOUS
    <3>2. \A f : [j \in 0 .. k |-> IF j = 0 THEN s(k)[0] ELSE f[j - 1] + s(k)[j]]
                  = [j \in 0 .. k |-> IF j = 0 THEN t[0] ELSE f[j - 1] + t[j]]
      BY <2>1
    <3> HIDE DEF s
    <3> QED
      BY <3>2 DEF Total
  <2> HIDE DEF s
  <2>3. PICK acc \in [0 .. k -> Int] : /\ acc[0] = s(k)[0]
                                       /\ \A j \in 1 .. k : acc[j] = acc[j - 1] + s(k)[j]
                                       /\ Total(s(k), k) = acc[k]
    BY <2>1, SumLoop
  <2>4. \A j \in 0 .. k : s(k)[j] = t[j]
    BY <2>1
  <2>5. acc[0] = t[0] /\ Total(t, k) = acc[k]
    BY <2>1, <2>2, <2>3
  <2>6. \A j \in 1 .. k : acc[j] = acc[j - 1] + t[j]
    BY <2>3, <2>4
  <2> QED
    BY <2>5, <2>6
<1>2. PICK x \in [0 .. m -> Int] : /\ x[0] = t[0]
                                   /\ \A j \in 1 .. m : x[j] = x[j - 1] + t[j]
                                   /\ Total(t, m) = x[m]
  BY <1>1
<1>3. ASSUME m > 0
      PROVE  Total(t, m) = Total(t, m - 1) + t[m]
  <2>1. m - 1 \in 0 .. n
    BY <1>3
  <2>2. PICK y \in [0 .. (m - 1) -> Int] : /\ y[0] = t[0]
                                           /\ \A j \in 1 .. (m - 1) : y[j] = y[j - 1] + t[j]
                                           /\ Total(t, m - 1) = y[m - 1]
    BY <1>1, <2>1
  <2> DEFINE T == {j \in 0 .. (m - 1) : x[j] = y[j]}
  <2>3. 0 \in T /\ \A j \in 1 .. (m - 1) : j - 1 \in T => j \in T
    BY <1>2, <1>3, <2>2
  <2>4. 0 .. (m - 1) \subseteq T
    <3> HIDE DEF T
    <3>1. m - 1 \in Nat
      BY <1>3
    <3> QED
      BY <2>3, <3>1, LoopInduction
  <2>5. x[m - 1] = y[m - 1]
    BY <1>3, <2>4
  <2> QED
    BY <1>2, <1>3, <2>2, <2>5
<1> QED
  BY <1>2, <1>3

\* The powers of pw[1] up to the n-th.
IsPowers(pw, n) == /\ pw \in [0 .. n -> Int] /\ pw[0] = 1
                   /\ \A i \in 1 .. n : pw[i] = pw[1] * pw[i - 1]

\* The value at pw[1] of the polynomial of degree d with the coefficients p.
Ev(d, pw, p) == Total([i \in 0 .. d |-> pw[i] * p[i]], d)

\* Exponents add up.
LEMMA PowerSum ==
  ASSUME NEW n \in Nat, NEW pw, IsPowers(pw, n), NEW j \in 0 .. n
  PROVE  \A i \in 0 .. (n - j) : pw[i + j] = pw[i] * pw[j]
<1> DEFINE T == {i \in 0 .. (n - j) : pw[i + j] = pw[i] * pw[j]}
<1>1. pw \in [0 .. n -> Int] /\ pw[0] = 1 /\ \A i \in 1 .. n : pw[i] = pw[1] * pw[i - 1]
  BY DEF IsPowers
<1>2. n - j \in Nat
  OBVIOUS
<1>3. 0 \in T
  BY <1>1
<1>4. ASSUME NEW i \in 1 .. (n - j), i - 1 \in T
      PROVE  i \in T
  <2>1. i \in 1 .. n /\ i + j \in 1 .. n /\ (i + j) - 1 = (i - 1) + j /\ 1 \in 0 .. n /\ i - 1 \in 0 .. n
        /\ i \in 0 .. (n - j)
    OBVIOUS
  <2>2. pw[i] = pw[1] * pw[i - 1] /\ pw[i + j] = pw[1] * pw[(i - 1) + j]
    BY <1>1, <2>1
  <2>3. pw[(i - 1) + j] = pw[i - 1] * pw[j]
    BY <1>4
  <2> DEFINE a == pw[1]
             b == pw[i - 1]
             c == pw[j]
  <2>4. a \in Int /\ b \in Int /\ c \in Int
    BY <1>1, <2>1
  <2> HIDE DEF a, b, c
  <2>5. a * (b * c) = (a * b) * c
    BY <2>4, SMT
  <2>6. pw[i + j] = pw[i] * pw[j]
    BY <2>2, <2>3, <2>5 DEF a, b, c
  <2> QED
    BY <2>1, <2>6
<1>5. 0 .. (n - j) \subseteq T
  <2> HIDE DEF T
  <2> QED
    BY <1>2, <1>3, <1>4, LoopInduction
<1> QED
  BY <1>5

\* A value is an integer.
LEMMA EvInt ==
  ASSUME NEW d \in Nat, NEW n \in Nat, d <= n, NEW pw, IsPowers(pw, n), NEW p \in [0 .. d -> Int]
  PROVE  Ev(d, pw, p) \in Int
<1>1. ASSUME NEW i \in 0 .. d
      PROVE  pw[i] * p[i] \in Int
  <2> DEFINE a == pw[i]
             b == p[i]
  <2>1. a \in Int /\ b \in Int
    BY DEF IsPowers
  <2> HIDE DEF a, b
  <2>2. a * b \in Int
    BY <2>1, SMT
  <2> QED
    BY <2>2 DEF a, b
<1>2. [i \in 0 .. d |-> pw[i] * p[i]] \in [0 .. d -> Int]
  BY <1>1
<1> QED
  BY <1>2, SumInt DEF Ev

\* Values are linear.
LEMMA EvAdd ==
  ASSUME NEW d \in Nat, NEW n \in Nat, d <= n, NEW pw, IsPowers(pw, n), NEW c \in Int,
         NEW p \in [0 .. d -> Int], NEW q \in [0 .. d -> Int]
  PROVE  Ev(d, pw, Plus(d, p, c, q)) = Ev(d, pw, p) + c * Ev(d, pw, q)
<1> DEFINE g == [i \in 0 .. d |-> pw[i]]
<1>1. g \in [0 .. d -> Int] /\ \A i \in 0 .. d : g[i] = pw[i]
  BY DEF IsPowers
<1> HIDE DEF g
<1>2. \A r : Inner(d, g, r) = Ev(d, pw, r)
  <2> TAKE r
  <2>1. [i \in 0 .. d |-> g[i] * r[i]] = [i \in 0 .. d |-> pw[i] * r[i]]
    BY <1>1
  <2> QED
    BY <2>1 DEF Inner, Ev
<1>3. Inner(d, g, Plus(d, p, c, q)) = Inner(d, g, p) + c * Inner(d, g, q)
  BY <1>1, InnerAdd, ZenonT(40)
<1> QED
  BY <1>2, <1>3

\* The row r is p + c*q.
IsSum(d, r, p, c, q) == \A i \in 0 .. d : r[i] = p[i] + c * q[i]

\* So is its value.
IsValueSum(d, pw, r, p, c, q) == Ev(d, pw, r) = Ev(d, pw, p) + c * Ev(d, pw, q)

\* The value of such a row.
LEMMA EvSum ==
  ASSUME NEW d \in Nat, NEW n \in Nat, d <= n, NEW pw, IsPowers(pw, n), NEW c \in Int,
         NEW r \in [0 .. d -> Int], NEW p \in [0 .. d -> Int], NEW q \in [0 .. d -> Int],
         IsSum(d, r, p, c, q)
  PROVE  IsValueSum(d, pw, r, p, c, q)
<1>1. r = Plus(d, p, c, q)
  BY DEF IsSum, Plus
<1>2. Ev(d, pw, Plus(d, p, c, q)) = Ev(d, pw, p) + c * Ev(d, pw, q)
  BY EvAdd, ZenonT(40)
<1> QED
  BY <1>1, <1>2 DEF IsValueSum

\* Two rows of congruent coefficients, and two congruent values.
SameRow(d, p, q) == \A i \in 0 .. d : Res(p[i]) = Res(q[i])
SameValue(d, pw, p, q) == Res(Ev(d, pw, p)) = Res(Ev(d, pw, q))

\* Congruent coefficients give congruent values.
LEMMA EvCongruent ==
  ASSUME M \in Nat \ {0}, NEW d \in Nat, NEW n \in Nat, d <= n, NEW pw, IsPowers(pw, n),
         NEW p \in [0 .. d -> Int], NEW q \in [0 .. d -> Int],
         SameRow(d, p, q)
  PROVE  SameValue(d, pw, p, q)
<1> DEFINE g == [i \in 0 .. d |-> pw[i]]
<1>1. g \in [0 .. d -> Int] /\ \A i \in 0 .. d : g[i] = pw[i]
  BY DEF IsPowers
<1> HIDE DEF g
<1>2. \A r : Inner(d, g, r) = Ev(d, pw, r)
  <2> TAKE r
  <2>1. [i \in 0 .. d |-> g[i] * r[i]] = [i \in 0 .. d |-> pw[i] * r[i]]
    BY <1>1
  <2> QED
    BY <2>1 DEF Inner, Ev
<1>3. Res(Inner(d, g, p)) = Res(Inner(d, g, q))
  BY <1>1, InnerCongruent DEF SameRow
<1> QED
  BY <1>2, <1>3 DEF SameValue

\* The coefficients p of degree d lifted by s, as a row up to e.
Place(e, s, d, p) == [i \in 0 .. e |-> IF i \in s .. (s + d) THEN p[i - s] ELSE 0]

\* What such a row holds.
LEMMA PlaceInt ==
  ASSUME NEW d \in Nat, NEW s \in Nat, NEW e \in Nat, s + d <= e, NEW p \in [0 .. d -> Int]
  PROVE  Place(e, s, d, p) \in [0 .. e -> Int]
<1>1. ASSUME NEW i \in 0 .. e
      PROVE  (IF i \in s .. (s + d) THEN p[i - s] ELSE 0) \in Int
  <2>1. CASE i \in s .. (s + d)
    <3>1. i - s \in 0 .. d
      BY <2>1
    <3> QED
      BY <2>1, <3>1
  <2>2. CASE i \notin s .. (s + d)
    BY <2>2
  <2> QED
    BY <2>1, <2>2
<1> QED
  BY <1>1 DEF Place

\* The value of p lifted by s.
PlaceValue(e, s, d, pw, p) == Ev(e, pw, Place(e, s, d, p)) = pw[s] * Ev(d, pw, p)

\* Lifting multiplies the value by a power.
LEMMA EvPlace ==
  ASSUME NEW d \in Nat, NEW s \in Nat, NEW e \in Nat, s + d <= e, NEW n \in Nat, e <= n,
         NEW pw, IsPowers(pw, n), NEW p \in [0 .. d -> Int]
  PROVE  PlaceValue(e, s, d, pw, p)
<1> DEFINE r == Place(e, s, d, p)
           t == [i \in 0 .. e |-> pw[i] * r[i]]
           u == [i \in 0 .. d |-> pw[i] * p[i]]
           least(j) == IF j - s <= d THEN j - s ELSE d
           T == {j \in 0 .. e : Total(t, j) = IF j < s THEN 0 ELSE pw[s] * Total(u, least(j))}
<1>0. pw \in [0 .. n -> Int] /\ pw[0] = 1 /\ pw[s] \in Int
  BY DEF IsPowers
<1>1. /\ \A i \in 0 .. e : t[i] \in Int
      /\ \A i \in 0 .. e : i \notin s .. (s + d) => t[i] = 0
      /\ \A i \in s .. (s + d) : t[i] = pw[s] * u[i - s]
      /\ \A i \in 0 .. d : u[i] \in Int
  <2>1. ASSUME NEW i \in 0 .. e, i \notin s .. (s + d)
        PROVE  t[i] = 0
    <3>1. r[i] = 0 /\ pw[i] \in Int
      BY <1>0, <2>1 DEF Place
    <3>2. t[i] = pw[i] * r[i]
      OBVIOUS
    <3> HIDE DEF r, t
    <3> QED
      BY <3>1, <3>2
  <2>2. ASSUME NEW i \in 0 .. d
        PROVE  u[i] \in Int
    <3> DEFINE a == pw[i]
               b == p[i]
    <3>1. a \in Int /\ b \in Int /\ u[i] = a * b
      BY <1>0
    <3> HIDE DEF a, b, u
    <3> QED
      BY <3>1, SMT
  <2>3. ASSUME NEW i \in s .. (s + d)
        PROVE  t[i] = pw[s] * u[i - s] /\ t[i] \in Int
    <3> DEFINE a == pw[i - s]
               b == p[i - s]
               c == pw[s]
    <3>1. i \in 0 .. e /\ i - s \in 0 .. d /\ i - s \in 0 .. (n - s) /\ (i - s) + s = i /\ s \in 0 .. n
      OBVIOUS
    <3>2. r[i] = b /\ u[i - s] = a * b /\ t[i] = pw[i] * r[i]
      BY <3>1 DEF Place
    <3>3. pw[i] = a * c
      BY <3>1, PowerSum
    <3>4. a \in Int /\ b \in Int /\ c \in Int
      BY <1>0, <3>1
    <3> HIDE DEF a, b, c, r, t, u
    <3>5. (a * c) * b = c * (a * b) /\ (a * c) * b \in Int
      BY <3>4, SMT
    <3>6. t[i] = c * u[i - s] /\ t[i] \in Int
      BY <3>2, <3>3, <3>5
    <3> QED
      BY <3>6 DEF c
  <2>4. ASSUME NEW i \in 0 .. e
        PROVE  t[i] \in Int
    <3> HIDE DEF t, u
    <3>1. CASE i \in s .. (s + d)
      BY <2>3, <3>1
    <3>2. CASE i \notin s .. (s + d)
      BY <2>1, <3>2
    <3> QED
      BY <3>1, <3>2
  <2> HIDE DEF t, u
  <2> QED
    BY <2>1, <2>2, <2>3, <2>4
<1> HIDE DEF t, u, r
<1>2. /\ \A j \in 0 .. e : /\ Total(t, j) \in Int
                           /\ j = 0 => Total(t, j) = t[0]
                           /\ j > 0 => Total(t, j) = Total(t, j - 1) + t[j]
      /\ \A j \in 0 .. d : /\ Total(u, j) \in Int
                           /\ j = 0 => Total(u, j) = u[0]
                           /\ j > 0 => Total(u, j) = Total(u, j - 1) + u[j]
  BY <1>1, TotalStep
<1>3. 0 \in T
  <2>1. Total(t, 0) = t[0]
    BY <1>2
  <2>2. CASE s = 0
    <3>1. t[0] = pw[0] * u[0] /\ Total(u, 0) = u[0] /\ least(0) = 0
      BY <1>1, <1>2, <2>2
    <3> QED
      BY <2>1, <2>2, <3>1
  <2>3. CASE s > 0
    BY <1>1, <2>1, <2>3
  <2> QED
    BY <2>2, <2>3
<1>4. ASSUME NEW j \in 1 .. e, j - 1 \in T
      PROVE  j \in T
  <2>0. j \in 0 .. e /\ j - 1 \in 0 .. e
    OBVIOUS
  <2>1. Total(t, j) = Total(t, j - 1) + t[j]
    BY <1>2
  <2>2. Total(t, j - 1) = IF j - 1 < s THEN 0 ELSE pw[s] * Total(u, least(j - 1))
    BY <1>4
  <2>3. CASE j < s
    <3>1. t[j] = 0 /\ Total(t, j - 1) = 0
      BY <1>1, <2>0, <2>2, <2>3
    <3> QED
      BY <2>0, <2>1, <2>3, <3>1
  <2>4. CASE j = s
    <3>1. t[j] = pw[s] * u[0] /\ Total(u, 0) = u[0] /\ least(j) = 0 /\ Total(t, j - 1) = 0
      BY <1>1, <1>2, <2>0, <2>2, <2>4
    <3>2. u[0] \in Int /\ t[j] \in Int
      BY <1>1, <2>0
    <3> QED
      BY <2>0, <2>1, <2>4, <3>1, <3>2
  <2>5. CASE j > s /\ j <= s + d
    <3>1. j - s \in 1 .. d /\ j - s \in 0 .. d /\ (j - 1) - s \in 0 .. d /\ j \in s .. (s + d) /\ ~ (j - 1 < s) /\ ~ (j < s)
          /\ least(j) = j - s /\ least(j - 1) = (j - s) - 1
      BY <2>5
    <3> DEFINE a == Total(u, (j - s) - 1)
               b == u[j - s]
               c == pw[s]
    <3>2. Total(u, j - s) = a + b /\ t[j] = c * b /\ Total(t, j - 1) = c * a
      BY <1>1, <1>2, <2>2, <3>1
    <3>3. a \in Int /\ b \in Int /\ c \in Int
      BY <1>0, <1>1, <1>2, <3>1
    <3> HIDE DEF a, b, c
    <3>4. c * a + c * b = c * (a + b)
      BY <3>3, SMT
    <3>5. Total(t, j) = c * Total(u, least(j))
      BY <2>1, <3>1, <3>2, <3>4
    <3> QED
      BY <2>0, <3>1, <3>5 DEF c
  <2>6. CASE j > s + d
    <3>1. t[j] = 0 /\ ~ (j < s) /\ ~ (j - 1 < s) /\ least(j) = d /\ least(j - 1) = d
      BY <1>1, <2>0, <2>6
    <3>2. Total(t, j - 1) = pw[s] * Total(u, d) /\ Total(t, j - 1) \in Int
      BY <1>2, <2>0, <2>2, <3>1
    <3> QED
      BY <2>0, <2>1, <3>1, <3>2
  <2> QED
    BY <2>3, <2>4, <2>5, <2>6
<1>5. 0 .. e \subseteq T
  <2> HIDE DEF T
  <2> QED
    BY <1>3, <1>4, LoopInduction
<1>6. Total(t, e) = pw[s] * Total(u, d)
  <2>1. e \in T /\ ~ (e < s)
    BY <1>5
  <2>2. least(e) = d
    OBVIOUS
  <2> QED
    BY <2>1, <2>2
<1> QED
  BY <1>6 DEF PlaceValue, Ev, t, u, r

\* The product of p and q, of degrees d and e, with the terms of p[0] to p[m].
Convolve(f, d, e, p, q, m) ==
  [k \in 0 .. f |-> Total([i \in 0 .. d |-> p[i] * Place(f, i, e, q)[k]], m)]

Zeros(f) == [k \in 0 .. f |-> 0]

\* The coefficients of a product are integers, and a further term adds a lifted row.
LEMMA ConvolveStep ==
  ASSUME NEW d \in Nat, NEW e \in Nat, NEW f \in Nat, f = d + e,
         NEW p \in [0 .. d -> Int], NEW q \in [0 .. e -> Int], NEW m \in 0 .. d
  PROVE  /\ Convolve(f, d, e, p, q, m) \in [0 .. f -> Int]
         /\ m = 0 => IsSum(f, Convolve(f, d, e, p, q, m), Zeros(f), p[m], Place(f, m, e, q))
         /\ m > 0 => IsSum(f, Convolve(f, d, e, p, q, m), Convolve(f, d, e, p, q, m - 1), p[m],
                          Place(f, m, e, q))
<1> DEFINE t(k) == [i \in 0 .. d |-> p[i] * Place(f, i, e, q)[k]]
<1>1. ASSUME NEW k \in 0 .. f, NEW i \in 0 .. d
      PROVE  /\ t(k)[i] = p[i] * Place(f, i, e, q)[k]
             /\ t(k)[i] \in Int
  <2> DEFINE a == p[i]
             b == Place(f, i, e, q)[k]
  <2>1. i \in Nat /\ i + e <= f
    OBVIOUS
  <2>2. Place(f, i, e, q) \in [0 .. f -> Int]
    BY <2>1, PlaceInt
  <2>3. a \in Int /\ b \in Int /\ t(k)[i] = a * b
    BY <2>2
  <2> HIDE DEF a, b, t
  <2>4. a * b \in Int
    BY <2>3, SMT
  <2> QED
    BY <2>3, <2>4 DEF a, b
<1> HIDE DEF t
<1>2. ASSUME NEW k \in 0 .. f
      PROVE  /\ Total(t(k), m) \in Int
             /\ m = 0 => Total(t(k), m) = t(k)[0]
             /\ m > 0 => Total(t(k), m) = Total(t(k), m - 1) + t(k)[m]
  <2>1. \A i \in 0 .. d : t(k)[i] \in Int
    BY <1>1
  <2> QED
    BY <2>1, TotalStep
<1>3. \A j : Convolve(f, d, e, p, q, j) = [k \in 0 .. f |-> Total(t(k), j)]
  BY DEF Convolve, t
<1>4. Convolve(f, d, e, p, q, m) \in [0 .. f -> Int]
  <2>1. [k \in 0 .. f |-> Total(t(k), m)] \in [0 .. f -> Int]
    BY <1>2
  <2> QED
    BY <1>3, <2>1
<1>5. ASSUME m = 0
      PROVE  IsSum(f, Convolve(f, d, e, p, q, m), Zeros(f), p[m], Place(f, m, e, q))
  <2> SUFFICES ASSUME NEW k \in 0 .. f
               PROVE  Convolve(f, d, e, p, q, m)[k] = Zeros(f)[k] + p[m] * Place(f, m, e, q)[k]
    BY DEF IsSum
  <2>1. Convolve(f, d, e, p, q, m)[k] = t(k)[m] /\ t(k)[m] \in Int
    BY <1>1, <1>2, <1>3, <1>5
  <2>2. t(k)[m] = p[m] * Place(f, m, e, q)[k] /\ Zeros(f)[k] = 0
    BY <1>1 DEF Zeros
  <2> DEFINE a == p[m] * Place(f, m, e, q)[k]
  <2>3. a \in Int /\ Convolve(f, d, e, p, q, m)[k] = a
    BY <2>1, <2>2
  <2> HIDE DEF a
  <2>4. 0 + a = a
    BY <2>3
  <2> QED
    BY <2>2, <2>3, <2>4 DEF a
<1>6. ASSUME m > 0
      PROVE  IsSum(f, Convolve(f, d, e, p, q, m), Convolve(f, d, e, p, q, m - 1), p[m], Place(f, m, e, q))
  <2> SUFFICES ASSUME NEW k \in 0 .. f
               PROVE  Convolve(f, d, e, p, q, m)[k]
                        = Convolve(f, d, e, p, q, m - 1)[k] + p[m] * Place(f, m, e, q)[k]
    BY DEF IsSum
  <2>1. Convolve(f, d, e, p, q, m)[k] = Total(t(k), m) /\ Convolve(f, d, e, p, q, m - 1)[k] = Total(t(k), m - 1)
    BY <1>3
  <2>2. t(k)[m] = p[m] * Place(f, m, e, q)[k]
    BY <1>1
  <2> QED
    BY <1>2, <1>6, <2>1, <2>2
<1> QED
  BY <1>4, <1>5, <1>6

\* The value of the product of p and q is the product of their values.
ProductValue(f, d, e, pw, p, q) == Ev(f, pw, Convolve(f, d, e, p, q, d)) = Ev(d, pw, p) * Ev(e, pw, q)

\* It is.
LEMMA EvConvolve ==
  ASSUME NEW d \in Nat, NEW e \in Nat, NEW f \in Nat, f = d + e,
         NEW n \in Nat, f <= n, NEW pw, IsPowers(pw, n),
         NEW p \in [0 .. d -> Int], NEW q \in [0 .. e -> Int]
  PROVE  ProductValue(f, d, e, pw, p, q)
<1> DEFINE t == [i \in 0 .. d |-> pw[i] * p[i]]
           c(m) == Convolve(f, d, e, p, q, m)
           row(m) == Place(f, m, e, q)
           y == Ev(e, pw, q)
           T == {m \in 0 .. d : Ev(f, pw, c(m)) = Total(t, m) * y}
<1>0. pw \in [0 .. n -> Int] /\ pw[0] = 1 /\ e <= n
  BY DEF IsPowers
<1>1. y \in Int
  BY <1>0, EvInt
<1>2. \A i \in 0 .. d : t[i] \in Int /\ t[i] = pw[i] * p[i]
  <2> TAKE i \in 0 .. d
  <2> DEFINE a == pw[i]
             b == p[i]
  <2>1. a \in Int /\ b \in Int /\ t[i] = a * b
    BY <1>0
  <2> HIDE DEF a, b, t
  <2>2. a * b \in Int
    BY <2>1, SMT
  <2> QED
    BY <2>1, <2>2 DEF a, b
<1> HIDE DEF t
<1>3. \A m \in 0 .. d : /\ Total(t, m) \in Int
                        /\ m = 0 => Total(t, m) = t[0]
                        /\ m > 0 => Total(t, m) = Total(t, m - 1) + t[m]
  BY <1>2, TotalStep
<1>4. ASSUME NEW m \in 0 .. d
      PROVE  /\ row(m) \in [0 .. f -> Int]
             /\ Ev(f, pw, row(m)) = pw[m] * y
  <2>1. m \in Nat /\ m + e <= f
    OBVIOUS
  <2>2. Place(f, m, e, q) \in [0 .. f -> Int]
    BY <2>1, PlaceInt
  <2>3. Ev(f, pw, Place(f, m, e, q)) = pw[m] * Ev(e, pw, q)
    BY <2>1, EvPlace DEF PlaceValue
  <2> QED
    BY <2>2, <2>3
<1>5. ASSUME NEW m \in 0 .. d
      PROVE  /\ c(m) \in [0 .. f -> Int]
             /\ m = 0 => IsSum(f, c(m), Zeros(f), p[m], row(m))
             /\ m > 0 => IsSum(f, c(m), c(m - 1), p[m], row(m))
  BY ConvolveStep
<1> HIDE DEF c, row, y
<1>6. 0 \in T
  <2> DEFINE z == Zeros(f)
             b == p[0]
             s == row(0)
             r == c(0)
  <2>1. z \in [0 .. f -> Int] /\ b \in Int /\ s \in [0 .. f -> Int] /\ 0 \in 0 .. d /\ r \in [0 .. f -> Int]
    <3>1. 0 \in 0 .. d /\ z \in [0 .. f -> Int] /\ b \in Int
      BY DEF Zeros
    <3>2. s \in [0 .. f -> Int]
      BY <1>4, <3>1
    <3>3. r \in [0 .. f -> Int]
      BY <1>5, <3>1
    <3> QED
      BY <3>1, <3>2, <3>3
  <2>2. Ev(f, pw, z) = 0
    <3> DEFINE g == [i \in 0 .. f |-> pw[i]]
    <3>1. g \in [0 .. f -> Int] /\ \A i \in 0 .. f : z[i] = 0
      BY <1>0 DEF Zeros
    <3>2. Inner(f, g, z) = 0
      <4> HIDE DEF g, z
      <4> QED
        BY <1>0, <2>1, <3>1, InnerZero
    <3>3. [i \in 0 .. f |-> g[i] * z[i]] = [i \in 0 .. f |-> pw[i] * z[i]]
      OBVIOUS
    <3> HIDE DEF g, z
    <3> QED
      BY <3>2, <3>3 DEF Inner, Ev
  <2>3. IsSum(f, r, z, b, s)
    BY <1>5, <2>1
  <2> HIDE DEF z, b, s, r
  <2>4. Ev(f, pw, r) = Ev(f, pw, z) + b * Ev(f, pw, s)
    <3>1. IsValueSum(f, pw, r, z, b, s)
      BY <2>1, <2>3, EvSum
    <3> QED
      BY <3>1 DEF IsValueSum
  <2>5. Ev(f, pw, s) = 1 * y
    BY <1>0, <1>4, <2>1 DEF s
  <2>6. Ev(f, pw, c(0)) = b * y
    <3>1. b * y \in Int /\ 1 * y = y
      BY <1>1, <2>1, SMT
    <3> QED
      BY <2>2, <2>4, <2>5, <3>1 DEF r
  <2>7. Total(t, 0) = b
    <3>1. Total(t, 0) = 1 * p[0]
      BY <1>0, <1>2, <1>3, <2>1
    <3> QED
      BY <2>1, <3>1 DEF b
  <2> QED
    BY <2>1, <2>6, <2>7
<1>7. ASSUME NEW m \in 1 .. d, m - 1 \in T
      PROVE  m \in T
  <2> DEFINE b == p[m]
             a == pw[m]
             s == row(m)
             old == c(m - 1)
             r == c(m)
             v == Total(t, m - 1)
  <2>0. m \in 0 .. d /\ m - 1 \in 0 .. d
    OBVIOUS
  <2>1. old \in [0 .. f -> Int] /\ b \in Int /\ a \in Int /\ s \in [0 .. f -> Int] /\ v \in Int
    <3>1. old \in [0 .. f -> Int]
      BY <1>5, <2>0
    <3>2. s \in [0 .. f -> Int]
      BY <1>4, <2>0
    <3>3. b \in Int /\ a \in Int
      BY <1>0, <2>0
    <3>4. v \in Int
      BY <1>3, <2>0
    <3> QED
      BY <3>1, <3>2, <3>3, <3>4
  <2>2. IsSum(f, r, old, b, s) /\ r \in [0 .. f -> Int]
    BY <1>5, <2>0
  <2>3. Ev(f, pw, old) = v * y
    BY <1>7
  <2>4. Ev(f, pw, s) = a * y
    BY <1>4, <2>0
  <2>5. Total(t, m) = v + a * b
    BY <1>2, <1>3, <2>0
  <2> HIDE DEF old, b, s, a, v, r
  <2>6. Ev(f, pw, r) = Ev(f, pw, old) + b * Ev(f, pw, s)
    <3>1. IsValueSum(f, pw, r, old, b, s)
      BY <2>1, <2>2, EvSum
    <3> QED
      BY <3>1 DEF IsValueSum
  <2>7. v * y + b * (a * y) = (v + a * b) * y
    BY <1>1, <2>1, SMT
  <2>8. Ev(f, pw, c(m)) = Total(t, m) * y
    BY <2>3, <2>4, <2>5, <2>6, <2>7 DEF r
  <2> QED
    BY <2>0, <2>8
<1>8. 0 .. d \subseteq T
  <2> HIDE DEF T
  <2> QED
    BY <1>6, <1>7, LoopInduction
<1>9. Ev(f, pw, c(d)) = Total(t, d) * y
  <2>1. d \in T
    BY <1>8
  <2> QED
    BY <2>1
<1> QED
  BY <1>9 DEF ProductValue, c, y, t, Ev

\* The leading coefficient of a product.
LEMMA ConvolveTop ==
  ASSUME NEW d \in Nat, NEW e \in Nat, NEW f \in Nat, f = d + e,
         NEW p \in [0 .. d -> Int], NEW q \in [0 .. e -> Int]
  PROVE  Convolve(f, d, e, p, q, d)[f] = p[d] * q[e]
<1> DEFINE t == [i \in 0 .. d |-> p[i] * Place(f, i, e, q)[f]]
<1>1. ASSUME NEW i \in 0 .. d, i # d
      PROVE  t[i] = 0
  <2>1. f \notin i .. (i + e) /\ f \in 0 .. f /\ p[i] \in Int
    BY <1>1
  <2>2. Place(f, i, e, q)[f] = 0
    BY <2>1 DEF Place
  <2>3. t[i] = p[i] * 0
    BY <2>2
  <2> HIDE DEF t
  <2> QED
    BY <2>1, <2>3
<1>2. t[d] = p[d] * q[e] /\ t[d] \in Int
  <2>1. f \in d .. (d + e) /\ f \in 0 .. f /\ f - d = e /\ d \in 0 .. d
    OBVIOUS
  <2>2. Place(f, d, e, q)[f] = q[e]
    BY <2>1 DEF Place
  <2> DEFINE a == p[d]
             b == q[e]
  <2>3. t[d] = a * b /\ a \in Int /\ b \in Int
    BY <2>1, <2>2
  <2> HIDE DEF a, b, t
  <2>4. a * b \in Int
    BY <2>3, SMT
  <2> QED
    BY <2>3, <2>4 DEF a, b
<1>3. t \in [0 .. d -> Int]
  <2>1. \A i \in 0 .. d : t[i] \in Int
    <3> HIDE DEF t
    <3> QED
      BY <1>1, <1>2
  <2> QED
    BY <2>1
<1>4. Convolve(f, d, e, p, q, d)[f] = Total(t, d)
  BY DEF Convolve
<1> HIDE DEF t
<1>5. Total(t, d) = t[d]
  <2>1. d \in 0 .. d
    OBVIOUS
  <2> QED
    BY <1>1, <1>3, <2>1, SumSingle
<1> QED
  BY <1>2, <1>4, <1>5

\* The sum of the polynomials row[0] to row[m], all of degree d.
RowSum(d, n, row, m) == [i \in 0 .. d |-> Total([k \in 0 .. n |-> row[k][i]], m)]

\* What a row of polynomials is.
AreRows(d, n, row) == \A k \in 0 .. n : row[k] \in [0 .. d -> Int]

\* The coefficients of the sum are integers, and a further term adds a polynomial.
LEMMA RowSumStep ==
  ASSUME NEW d \in Nat, NEW n \in Nat, NEW row, AreRows(d, n, row), NEW m \in 0 .. n
  PROVE  /\ RowSum(d, n, row, m) \in [0 .. d -> Int]
         /\ m = 0 => RowSum(d, n, row, m) = row[0]
         /\ m > 0 => IsSum(d, RowSum(d, n, row, m), RowSum(d, n, row, m - 1), 1, row[m])
<1> DEFINE t(i) == [k \in 0 .. n |-> row[k][i]]
<1>1. ASSUME NEW i \in 0 .. d
      PROVE  /\ Total(t(i), m) \in Int
             /\ m = 0 => Total(t(i), m) = row[0][i]
             /\ m > 0 => Total(t(i), m) = Total(t(i), m - 1) + row[m][i]
  <2>1. \A k \in 0 .. n : t(i)[k] \in Int /\ t(i)[k] = row[k][i]
    BY DEF AreRows
  <2> HIDE DEF t
  <2>2. /\ Total(t(i), m) \in Int
        /\ m = 0 => Total(t(i), m) = t(i)[0]
        /\ m > 0 => Total(t(i), m) = Total(t(i), m - 1) + t(i)[m]
    BY <2>1, TotalStep
  <2>3. t(i)[m] = row[m][i] /\ t(i)[0] = row[0][i]
    BY <2>1
  <2> QED
    BY <2>2, <2>3
<1>2. \A j : RowSum(d, n, row, j) = [i \in 0 .. d |-> Total(t(i), j)]
  BY DEF RowSum
<1> HIDE DEF t
<1>3. RowSum(d, n, row, m) \in [0 .. d -> Int]
  <2>1. [i \in 0 .. d |-> Total(t(i), m)] \in [0 .. d -> Int]
    BY <1>1
  <2> QED
    BY <1>2, <2>1
<1>4. ASSUME m = 0
      PROVE  RowSum(d, n, row, m) = row[0]
  <2>1. row[0] \in [0 .. d -> Int]
    BY <1>4 DEF AreRows
  <2>2. RowSum(d, n, row, m) = [i \in 0 .. d |-> row[0][i]]
    BY <1>1, <1>2, <1>4
  <2> QED
    BY <2>1, <2>2
<1>5. ASSUME m > 0
      PROVE  IsSum(d, RowSum(d, n, row, m), RowSum(d, n, row, m - 1), 1, row[m])
  <2> SUFFICES ASSUME NEW i \in 0 .. d
               PROVE  RowSum(d, n, row, m)[i] = RowSum(d, n, row, m - 1)[i] + 1 * row[m][i]
    BY DEF IsSum
  <2>1. RowSum(d, n, row, m)[i] = Total(t(i), m) /\ RowSum(d, n, row, m - 1)[i] = Total(t(i), m - 1)
    BY <1>2
  <2> DEFINE b == row[m][i]
  <2>2. b \in Int
    BY DEF AreRows
  <2>3. Total(t(i), m) = Total(t(i), m - 1) + b
    BY <1>1, <1>5
  <2> HIDE DEF b
  <2>4. 1 * b = b
    BY <2>2
  <2> QED
    BY <2>1, <2>3, <2>4 DEF b
<1> QED
  BY <1>3, <1>4, <1>5

\* The value of the sum of the polynomials of row is the sum of their values.
RowSumValue(d, pw, n, row) ==
  Ev(d, pw, RowSum(d, n, row, n)) = Total([k \in 0 .. n |-> Ev(d, pw, row[k])], n)

\* It is.
LEMMA EvRowSum ==
  ASSUME NEW d \in Nat, NEW l \in Nat, d <= l, NEW pw, IsPowers(pw, l),
         NEW n \in Nat, NEW row, AreRows(d, n, row)
  PROVE  RowSumValue(d, pw, n, row)
<1> DEFINE t == [k \in 0 .. n |-> Ev(d, pw, row[k])]
           c(m) == RowSum(d, n, row, m)
           T == {m \in 0 .. n : Ev(d, pw, c(m)) = Total(t, m)}
<1>1. \A k \in 0 .. n : row[k] \in [0 .. d -> Int]
  BY DEF AreRows
<1>2. ASSUME NEW k \in 0 .. n
      PROVE  t[k] \in Int /\ t[k] = Ev(d, pw, row[k])
  BY <1>1, EvInt
<1> HIDE DEF t
<1>3. \A m \in 0 .. n : /\ Total(t, m) \in Int
                        /\ m = 0 => Total(t, m) = t[0]
                        /\ m > 0 => Total(t, m) = Total(t, m - 1) + t[m]
  BY <1>2, TotalStep
<1>4. ASSUME NEW m \in 0 .. n
      PROVE  /\ c(m) \in [0 .. d -> Int]
             /\ m = 0 => c(m) = row[0]
             /\ m > 0 => IsSum(d, c(m), c(m - 1), 1, row[m])
  BY RowSumStep
<1> HIDE DEF c
<1>5. 0 \in T
  <2>1. 0 \in 0 .. n
    OBVIOUS
  <2>2. c(0) = row[0]
    BY <1>4, <2>1
  <2> QED
    BY <1>2, <1>3, <2>1, <2>2
<1>6. ASSUME NEW m \in 1 .. n, m - 1 \in T
      PROVE  m \in T
  <2> DEFINE old == c(m - 1)
             r == c(m)
             s == row[m]
  <2>0. m \in 0 .. n /\ m - 1 \in 0 .. n /\ 1 \in Int
    OBVIOUS
  <2>1. old \in [0 .. d -> Int] /\ r \in [0 .. d -> Int]
    BY <1>4, <2>0
  <2>2. s \in [0 .. d -> Int]
    BY <1>1, <2>0
  <2>8. IsSum(d, r, old, 1, s)
    BY <1>4, <2>0
  <2>3. Ev(d, pw, old) = Total(t, m - 1) /\ Total(t, m) = Total(t, m - 1) + t[m]
    BY <1>3, <1>6, <2>0
  <2>4. t[m] = Ev(d, pw, s) /\ t[m] \in Int
    BY <1>2, <2>0
  <2> HIDE DEF old, r, s
  <2>5. IsValueSum(d, pw, r, old, 1, s)
    BY <2>0, <2>1, <2>2, <2>8, EvSum
  <2>6. Ev(d, pw, r) = Ev(d, pw, old) + 1 * Ev(d, pw, s)
    BY <2>5 DEF IsValueSum
  <2>7. Ev(d, pw, r) = Total(t, m)
    BY <2>3, <2>4, <2>6
  <2> QED
    BY <2>0, <2>7 DEF r
<1>7. 0 .. n \subseteq T
  <2> HIDE DEF T
  <2> QED
    BY <1>5, <1>6, LoopInduction
<1>8. Ev(d, pw, c(n)) = Total(t, n)
  <2>1. n \in T
    BY <1>7
  <2> QED
    BY <2>1
<1> QED
  BY <1>8 DEF RowSumValue, c, t

\* The sum of row[0] to row[n], loop by loop.
LEMMA TotalFive ==
  ASSUME NEW t, \A j \in 0 .. 5 : t[j] \in Int
  PROVE  Total(t, 5) = t[0] + t[1] + t[2] + t[3] + t[4] + t[5]
<1>1. 5 \in Nat /\ \A m \in 0 .. 5 : /\ Total(t, m) \in Int
                                     /\ m = 0 => Total(t, m) = t[0]
                                     /\ m > 0 => Total(t, m) = Total(t, m - 1) + t[m]
  <2>1. 5 \in Nat
    OBVIOUS
  <2> QED
    BY <2>1, TotalStep
<1>2. /\ Total(t, 0) = t[0] /\ Total(t, 1) = Total(t, 0) + t[1] /\ Total(t, 2) = Total(t, 1) + t[2]
      /\ Total(t, 3) = Total(t, 2) + t[3] /\ Total(t, 4) = Total(t, 3) + t[4]
      /\ Total(t, 5) = Total(t, 4) + t[5]
  BY <1>1
<1> QED
  BY <1>1, <1>2

\* A polynomial of degree five by Horner's rule.
LEMMA EvHorner ==
  ASSUME NEW pw, IsPowers(pw, 5), NEW p \in [0 .. 5 -> Int]
  PROVE  LET x == pw[1] IN
         Ev(5, pw, p) = x * (x * (x * (x * p[4] + p[3]) + p[2]) + p[1]) + p[0] + pw[5] * p[5]
<1> DEFINE x == pw[1]
           t == [i \in 0 .. 5 |-> pw[i] * p[i]]
<1>1. pw \in [0 .. 5 -> Int] /\ pw[0] = 1 /\ \A i \in 1 .. 5 : pw[i] = x * pw[i - 1]
  BY DEF IsPowers
<1> DEFINE x2 == pw[2]
           x3 == pw[3]
           x4 == pw[4]
           x5 == pw[5]
           a0 == p[0]
           a1 == p[1]
           a2 == p[2]
           a3 == p[3]
           a4 == p[4]
           a5 == p[5]
<1>2. /\ x \in Int /\ x2 = x * x /\ x3 = x * x2 /\ x4 = x * x3 /\ x5 \in Int
      /\ a0 \in Int /\ a1 \in Int /\ a2 \in Int /\ a3 \in Int /\ a4 \in Int /\ a5 \in Int
  <2>1. x \in Int /\ x5 \in Int
    BY <1>1
  <2>2. pw[1] = x * pw[0] /\ x2 = x * pw[1] /\ x3 = x * x2 /\ x4 = x * x3
    BY <1>1
  <2> QED
    BY <2>1, <2>2
<1>3. t[0] = 1 * a0 /\ t[1] = x * a1 /\ t[2] = x2 * a2 /\ t[3] = x3 * a3 /\ t[4] = x4 * a4 /\ t[5] = x5 * a5
  BY <1>1
<1> HIDE DEF x, x2, x3, x4, x5, a0, a1, a2, a3, a4, a5, t
<1>4. x2 \in Int
  BY <1>2, SMT
<1>5. x3 \in Int
  BY <1>2, <1>4, SMT
<1>6. x4 \in Int
  BY <1>2, <1>5, SMT
<1>7. \A j \in 0 .. 5 : t[j] \in Int
  <2>1. t[0] \in Int /\ t[1] \in Int /\ t[2] \in Int
    BY <1>2, <1>3, <1>4, SMT
  <2>2. t[3] \in Int /\ t[4] \in Int /\ t[5] \in Int
    BY <1>2, <1>3, <1>5, <1>6, SMT
  <2> QED
    BY <2>1, <2>2
<1>8. Total(t, 5) = t[0] + t[1] + t[2] + t[3] + t[4] + t[5]
  BY <1>7, TotalFive
<1>9. x * (x * (x * (x * a4 + a3) + a2) + a1) + a0 = a0 + x * a1 + x2 * a2 + x3 * a3 + x4 * a4
  <2> DEFINE h4 == x * a4 + a3
             h3 == x * h4 + a2
             h2 == x * h3 + a1
  <2>1. h3 = x2 * a4 + x * a3 + a2
    BY <1>2, SMT
  <2>2. h2 = x3 * a4 + x2 * a3 + x * a2 + a1
    BY <1>2, SMT
  <2>3. x * h2 = x4 * a4 + x3 * a3 + x2 * a2 + x * a1
    BY <1>2, SMT
  <2>4. x * h2 \in Int
    BY <1>2, SMT
  <2> QED
    BY <1>2, <1>4, <1>5, <1>6, <2>3, <2>4, SMT
<1>10. x5 * a5 \in Int
  BY <1>2, SMT
<1>11. Total(t, 5) = x * (x * (x * (x * a4 + a3) + a2) + a1) + a0 + x5 * a5
  BY <1>2, <1>3, <1>7, <1>8, <1>9, <1>10, SMT
<1> QED
  BY <1>11 DEF Ev, x, x5, a0, a1, a2, a3, a4, a5, t

----------------------------------------------------------------------------
\* No smaller number but 1 divides M.
IsPrime == M \in Nat /\ M > 1 /\ \A d \in 2 .. (M - 1) : M % d # 0

\* A prime modulus has no zero divisors.
LEMMA Euclid ==
  ASSUME IsPrime, NEW a \in Int, NEW b \in Int, Res(a * b) = 0
  PROVE  Res(a) = 0 \/ Res(b) = 0
<1> DEFINE T == {d \in Nat \ {0} : Res(d * b) = 0}
<1>0. M \in Nat \ {0} /\ M > 1
  BY DEF IsPrime
<1> SUFFICES ASSUME Res(a) # 0 PROVE Res(b) = 0
  OBVIOUS
<1>1. Res(a) \in T
  <2>1. Res(a) \in 0 .. (M - 1)
    BY <1>0, ResRange
  <2>2. Res(Res(a) * b) = Res(a * b)
    BY <1>0, ResReduce
  <2> QED
    BY <2>1, <2>2
<1>2. PICK d \in T : \A e \in T : d <= e
  <2>1. T \subseteq Nat /\ T # {}
    BY <1>1
  <2> HIDE DEF T
  <2> QED
    BY <2>1, LeastElement
<1>3. d \in Nat \ {0} /\ Res(d * b) = 0 /\ d <= Res(a)
  BY <1>1, <1>2
<1>4. d < M
  BY <1>0, <1>3, ResRange
<1> DEFINE q == M \div d
           r == M % d
<1>5. q \in Int /\ r \in 0 .. (d - 1) /\ M = q * d + r
  BY <1>0, <1>3, SMT
<1> HIDE DEF q
<1>6. Res(r * b) = 0
  <2> HIDE DEF r, T
  <2>1. PICK k \in Int : d * b = 0 + k * M
    <3> DEFINE x == d * b
    <3>1. x \in Int /\ 0 \in Int /\ Res(x) = Res(0)
      BY <1>0, <1>3, ResSmall
    <3> HIDE DEF x
    <3>2. \E k \in Int : x = 0 + k * M
      BY <1>0, <3>1, ResDiffer
    <3> QED
      BY <3>2 DEF x
  <2> DEFINE x == r * b
             z == b - q * k
  <2>2. x = M * b - q * (d * b)
    BY <1>0, <1>3, <1>5, SMT
  <2>3. x \in Int /\ z \in Int /\ 0 \in Int /\ x = 0 + z * M
    BY <1>0, <1>5, <2>1, <2>2, SMT
  <2> HIDE DEF x, z
  <2>4. Res(x) = Res(0)
    BY <1>0, <2>3, ResShift
  <2> QED
    BY <1>0, <2>4, ResSmall DEF x
<1>7. r = 0
  <2> HIDE DEF r
  <2> SUFFICES ASSUME r # 0 PROVE FALSE
    OBVIOUS
  <2>1. r \in T /\ r < d /\ r \in Int /\ d \in Int
    BY <1>3, <1>5, <1>6
  <2>2. d <= r
    BY <1>2, <2>1
  <2> QED
    BY <2>1, <2>2
<1>8. d = 1
  BY <1>3, <1>4, <1>7 DEF IsPrime
<1> QED
  BY <1>3, <1>8
=============================================================================
