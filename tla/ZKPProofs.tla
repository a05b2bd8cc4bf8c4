------------------------------ MODULE ZKPProofs ------------------------------
(***************************************************************************)
(* Proofs about ZKP for every prime, every number of correlations and      *)
(* challenged symbols and every candidate value: the commitment first,     *)
(* then the verdict, what the verifier accepts.                            *)
(*                                                                         *)
(* Every corrected row is u_i + h_i * (witness + error), so the check for  *)
(* correlation i is the gamma-fold of the row's errors times h_i, less the *)
(* errors of cu_i and cv (CheckExact): it vanishes exactly when the error  *)
(* is unseen (CheckSees).  The keys are the combined corrected columns     *)
(* (KeyValue), the polynomials' values at Delta when no error reaches them. *)
(*                                                                         *)
(* Inv is the inductive invariant: Stage lists the places of the two sides *)
(* with the messages under way, Knows what each of them has computed.      *)
(*                                                                         *)
(* HasValue(p, d, x, t) says that the prover's polynomial p of degree d    *)
(* has the value x at Delta and the leading coefficient t.  It is shown    *)
(* for the polynomial of every committed position (PositionValue), kept    *)
(* by every operation of poly<D> (MulValue, ShiftValue, PlusValue,         *)
(* MinusValue, AddUpValue), and so carried through the seven blocks of     *)
(* prove: each is worth what the verifier computes for it and leads with   *)
(* its constraint, up to the constant the verifier supplies (EveryFold).   *)
(* The sum of the folds and the masks is then the verifier's sum plus the  *)
(* folded constraints at degree 5 (CheckPolyValue), and Horner's rule on   *)
(* the coefficients sent leaves exactly those and the coefficients' errors *)
(* (Difference).  Decides adds to Inv what the verifier decides on.        *)
(***************************************************************************)
EXTENDS ZKP, TLAPS

Field == INSTANCE FieldLemmas WITH M <- Prime

----------------------------------------------------------------------------
(* Residues modulo Prime and the index sets.                                   *)

\* The residues of the model are those of the lemmas.
LEMMA SameResidue ==
  /\ Prime \in Nat \ {0} /\ Prime \in Int /\ Field!IsPrime
  /\ \A z : Field!Res(z) = Mod(z)
BY ZkAssumption DEF Mod, Field!Res, Field!IsPrime

\* What residues are.
LEMMA Residues ==
  /\ \A x \in Int : Mod(x) \in F /\ Mod(x) \in Int /\ Mod(Mod(x)) = Mod(x)
  /\ \A x \in F : Mod(x) = x
  /\ Mod(0) = 0
  /\ \A x, y \in Int : Mod(x) = Mod(y) => \E k \in Int : x = y + k * Prime
  /\ \A x \in Int : \E k \in Int : Mod(x) = x + k * Prime
<1>1. /\ \A x \in Int : Mod(x) \in F /\ Mod(x) \in Int
      /\ \A x \in F : Mod(x) = x
      /\ \A x \in Int : Mod(Mod(x)) = Mod(x)
      /\ Mod(0) = 0
  BY SameResidue, Field!ResRange, Field!ResSmall DEF F
<1>2. \A x, y \in Int : Mod(x) = Mod(y) => \E k \in Int : x = y + k * Prime
  BY SameResidue, Field!ResDiffer
<1>3. \A x \in Int : \E k \in Int : Mod(x) = x + k * Prime
  BY <1>1, <1>2
<1> QED
  BY <1>1, <1>2, <1>3

\* A multiple of Prime does not change a residue.
LEMMA Shift ==
  ASSUME NEW x \in Int, NEW y \in Int, NEW k \in Int, x = y + k * Prime
  PROVE  Mod(x) = Mod(y)
BY SameResidue, Field!ResShift

\* Prime has no zero divisors.
LEMMA NoZeroDivisors ==
  ASSUME NEW a \in Int, NEW b \in Int, Mod(a * b) = 0
  PROVE  Mod(a) = 0 \/ Mod(b) = 0
BY SameResidue, Field!Euclid

\* The positions and the correlations, as ranges of integers.
LEMMA Ranges ==
  /\ F \subseteq Int /\ 0 \in F
  /\ check_pos \in Nat /\ Pos = 0 .. check_pos /\ check_pos \in Pos
  /\ mask_pos \in Nat /\ check_pos = mask_pos + 5
  /\ KVole - 1 \in Nat /\ I = 0 .. (KVole - 1) /\ I \subseteq Int
BY ZkAssumption DEF F, Pos, I, vole_len, check_pos, mask_pos, a0_pos, y_offset, ru_pos, b_offset,
   v_offset, LEval

----------------------------------------------------------------------------
(* What a run starts from.                                                 *)

Given == /\ stmt \in Statements /\ ui \in Us /\ vi \in Vs /\ hi \in Points
         /\ masks \in Masks /\ tamper \in Tampers

\* The types of what a run is given.
LEMMA GivenTypes ==
  ASSUME Given
  PROVE  /\ ui \in [I \X Pos -> F] /\ vi \in [I \X Pos -> F] /\ hi \in [I -> F]
         /\ tamper.err \in F /\ tamper.err \in Int
         /\ \A m, a : Err(m, a) \in Int
         /\ \A j \in Pos : Committed(j) \in F /\ Committed(j) \in Int
<1>1. ui \in [I \X Pos -> F] /\ vi \in [I \X Pos -> F] /\ hi \in [I -> F]
  BY ZkAssumption DEF Given
<1>2. tamper.err \in F /\ tamper.err \in Int
  BY TamperAssumption, Ranges DEF Given
<1>3. \A m, a : Err(m, a) \in Int
  BY <1>2 DEF Err
<1>4. ASSUME NEW j \in Pos
      PROVE  Committed(j) \in F
  <2>1. CASE j < mask_pos
    <3>1. j \in 0 .. (mask_pos - 1)
      BY <2>1, Ranges
    <3>2. stmt.w[j] \in F
      BY <3>1, ZkAssumption DEF Given
    <3> DEFINE x == stmt.w[j]
               e == Err("witness", j)
    <3>3. x \in Int /\ e \in Int
      BY <1>3, <3>2, Ranges
    <3>4. Committed(j) = Mod(x + e)
      BY <2>1 DEF Committed
    <3> HIDE DEF x, e
    <3>5. x + e \in Int
      BY <3>3
    <3> QED
      BY <3>4, <3>5, Residues
  <2>2. CASE j >= mask_pos /\ j < check_pos
    <3>1. j - mask_pos \in 0 .. 4
      BY <2>2, Ranges
    <3>2. masks \in [0 .. 4 -> F]
      BY ZkAssumption DEF Given
    <3>3. Committed(j) = masks[j - mask_pos]
      BY <2>2, Ranges DEF Committed
    <3> QED
      BY <3>1, <3>2, <3>3
  <2>3. CASE j >= check_pos
    BY <2>3, Ranges DEF Committed
  <2> QED
    BY <2>1, <2>2, <2>3, Ranges
<1> QED
  BY <1>1, <1>2, <1>3, <1>4, Ranges

\* What the entry with the error looks like.
LEMMA TamperTypes ==
  ASSUME Given
  PROVE  /\ tamper.msg \in {"none", "derand", "cu", "cv", "witness", "coef"}
         /\ tamper.err = 0 <=> tamper.msg = "none"
         /\ tamper.msg = "derand" =>
              /\ tamper.at[1] \in I /\ tamper.at[2] \in Pos
              /\ tamper.at = <<tamper.at[1], tamper.at[2]>>
         /\ tamper.msg = "cu" => tamper.at \in I
         /\ tamper.msg = "cv" => tamper.at = 0
<1>1. tamper \in Tampers
  BY DEF Given
<1> QED
  BY <1>1, TamperAssumption

\* Only the entry that `tamper` names has an error.
LEMMA ErrZero ==
  /\ \A m, a : m # tamper.msg => Err(m, a) = 0
  /\ \A m, a : a # tamper.at => Err(m, a) = 0
  /\ Err(tamper.msg, tamper.at) = tamper.err
BY DEF Err

----------------------------------------------------------------------------
(* The shift: every row holds the witness, up to the errors.               *)

Start == [ij \in I \X Pos |-> Mod(ui[ij] + hi[ij[1]] * vi[ij])]
Corrected == [ij \in I \X Pos |-> Mod(Start[ij] + hi[ij[1]] * DerandMessage[ij])]
D(i, j) == Err("derand", <<i, j>>)

\* Every corrected entry is u + h * (witness + error).
LEMMA CorrectedValue ==
  ASSUME Given, NEW i \in I, NEW j \in Pos
  PROVE  /\ Corrected[<<i, j>>] = Mod(ui[<<i, j>>] + hi[i] * (Committed(j) + D(i, j)))
         /\ Corrected[<<i, j>>] \in Int
<1> DEFINE u == ui[<<i, j>>]
           v == vi[<<i, j>>]
           c == Committed(j)
           a == hi[i]
           e == D(i, j)
           x == u + a * v
           y == (c - v) + e
           s == Mod(x)
           d == Mod(y)
<1>1. u \in Int /\ v \in Int /\ c \in Int /\ a \in Int /\ e \in Int /\ Prime \in Int
  BY GivenTypes, Ranges, SameResidue DEF D
<1>2. Start[<<i, j>>] = s /\ DerandMessage[<<i, j>>] = d
  BY DEF Start, DerandMessage, D
<1>3. Corrected[<<i, j>>] = Mod(s + a * d)
  BY <1>2 DEF Corrected
<1> HIDE DEF u, v, c, a, e
<1>4. x \in Int /\ y \in Int
  BY <1>1
<1> HIDE DEF x, y
<1>5. PICK k \in Int : s = x + k * Prime
  BY <1>4, Residues
<1>6. PICK m \in Int : d = y + m * Prime
  BY <1>4, Residues
<1> HIDE DEF s, d
<1> DEFINE p == s + a * d
           q1 == u + a * (c + e)
           z == k + a * m
<1>7. p \in Int /\ q1 \in Int /\ z \in Int /\ p = q1 + z * Prime
  BY <1>1, <1>4, <1>5, <1>6, SMT DEF x, y
<1> HIDE DEF p, q1, z
<1>8. Mod(p) = Mod(q1) /\ Mod(p) \in Int
  BY <1>7, Shift, Residues
<1>9. Corrected[<<i, j>>] = Mod(q1) /\ Corrected[<<i, j>>] \in Int
  BY <1>3, <1>8 DEF p
<1> QED
  BY <1>9 DEF q1, u, c, a, e

----------------------------------------------------------------------------
(* The loops of the code are inner products: over the positions with the   *)
(* weights of the check, over the correlations with the multipliers.       *)

Weights(g) == [j \in Pos |-> Weight(g, j)]
Multipliers == [i \in I |-> Multiplier(i)]
GammaFold(g, x) == Field!Inner(check_pos, Weights(g), x)
Pack(x) == Field!Inner(KVole - 1, Multipliers, x)

\* The sum over the positions is GammaFold, reduced, the one over the correlations Pack.
LEMMA Products ==
  /\ \A g, x : Checked(g, x) = Mod(GammaFold(g, x))
  /\ \A x : Combine(x) = Mod(Pack(x))
<1>0. \A t, n : Total(t, n) = Field!Total(t, n)
  BY DEF Total, Field!Total
<1>1. ASSUME NEW g, NEW x
      PROVE  Checked(g, x) = Mod(GammaFold(g, x))
  <2>1. [j \in Pos |-> Weight(g, j) * x[j]] = [j \in 0 .. check_pos |-> Weights(g)[j] * x[j]]
    BY Ranges DEF Weights
  <2>2. Checked(g, x) = Mod(Total([j \in Pos |-> Weight(g, j) * x[j]], check_pos))
    BY DEF Checked
  <2>3. GammaFold(g, x) = Field!Total([j \in 0 .. check_pos |-> Weights(g)[j] * x[j]], check_pos)
    BY DEF GammaFold, Field!Inner
  <2> QED
    BY <1>0, <2>1, <2>2, <2>3
<1>2. ASSUME NEW x
      PROVE  Combine(x) = Mod(Pack(x))
  <2>1. [i \in I |-> Multiplier(i) * x[i]] = [i \in 0 .. (KVole - 1) |-> Multipliers[i] * x[i]]
    BY Ranges DEF Multipliers
  <2>2. Combine(x) = Mod(Total([i \in I |-> Multiplier(i) * x[i]], KVole - 1))
    BY DEF Combine
  <2>3. Pack(x) = Field!Total([i \in 0 .. (KVole - 1) |-> Multipliers[i] * x[i]], KVole - 1)
    BY DEF Pack, Field!Inner
  <2> QED
    BY <1>0, <2>1, <2>2, <2>3
<1> QED
  BY <1>1, <1>2

Witness == [j \in Pos |-> Committed(j)]
Errors(i) == [j \in Pos |-> D(i, j)]

\* The rows that enter inner products hold integers.
LEMMA RowTypes ==
  ASSUME Given
  PROVE  /\ \A i \in I : Row(ui, i) \in [Pos -> Int] /\ Row(Corrected, i) \in [Pos -> Int]
         /\ \A j \in Pos : Column(ui, j) \in [I -> Int] /\ Column(Corrected, j) \in [I -> Int]
         /\ Witness \in [Pos -> Int]
         /\ \A i \in I : Errors(i) \in [Pos -> Int]
         /\ \A g \in CheckGammas : Weights(g) \in [Pos -> Int]
         /\ Multipliers \in [I -> Int]
         /\ hi \in [I -> Int]
<1>1. \A i \in I, j \in Pos : ui[<<i, j>>] \in Int /\ Corrected[<<i, j>>] \in Int
  BY GivenTypes, CorrectedValue, Ranges
<1>2. /\ \A i \in I : Row(ui, i) \in [Pos -> Int] /\ Row(Corrected, i) \in [Pos -> Int]
      /\ \A j \in Pos : Column(ui, j) \in [I -> Int] /\ Column(Corrected, j) \in [I -> Int]
  BY <1>1 DEF Row, Column
<1>3. Witness \in [Pos -> Int] /\ \A i \in I : Errors(i) \in [Pos -> Int]
  BY GivenTypes DEF Witness, Errors, D
<1>4. ASSUME NEW g \in CheckGammas
      PROVE  Weights(g) \in [Pos -> Int]
  <2>1. g \in [0 .. (check_pos - 1) -> F]
    BY ZkAssumption
  <2>2. ASSUME NEW j \in Pos
        PROVE  Weight(g, j) \in Int
    <3>1. CASE j = check_pos
      BY <3>1 DEF Weight
    <3>2. CASE j # check_pos
      <4>1. j \in 0 .. (check_pos - 1)
        BY <3>2, Ranges
      <4> QED
        BY <2>1, <3>2, <4>1, Ranges DEF Weight
    <3> QED
      BY <3>1, <3>2
  <2> QED
    BY <2>2 DEF Weights
<1>5. Multipliers \in [I -> Int]
  <2>1. ASSUME NEW i \in I
        PROVE  Multiplier(i) \in Int
    <3> DEFINE n == i * SmallSetBits
               m == 2 ^ n
    <3>1. i \in Nat /\ SmallSetBits \in Nat
      BY ZkAssumption, Ranges
    <3>2. n \in Nat
      BY <3>1, SMT
    <3> HIDE DEF n
    <3>3. m \in Int
      BY <3>2, SMT
    <3> HIDE DEF m
    <3>4. Mod(m) \in Int
      BY <3>3, Residues
    <3> QED
      BY <3>4 DEF Multiplier, m, n
  <2> QED
    BY <2>1 DEF Multipliers
<1>6. hi \in [I -> Int]
  BY GivenTypes, Ranges
<1> QED
  BY <1>2, <1>3, <1>4, <1>5, <1>6

\* Inner products of the rows are integers.
LEMMA SumTypes ==
  ASSUME Given
  PROVE  /\ \A g \in CheckGammas, x \in [Pos -> Int] : GammaFold(g, x) \in Int
         /\ \A x \in [I -> Int] : Pack(x) \in Int
<1>1. ASSUME NEW g \in CheckGammas, NEW x \in [Pos -> Int]
      PROVE  GammaFold(g, x) \in Int
  <2>1. Weights(g) \in [0 .. check_pos -> Int] /\ x \in [0 .. check_pos -> Int] /\ check_pos \in Nat
    BY RowTypes, Ranges
  <2> QED
    BY <2>1, Field!InnerInt DEF GammaFold
<1>2. ASSUME NEW x \in [I -> Int]
      PROVE  Pack(x) \in Int
  <2>1. Multipliers \in [0 .. (KVole - 1) -> Int] /\ x \in [0 .. (KVole - 1) -> Int] /\ KVole - 1 \in Nat
    BY RowTypes, Ranges
  <2> QED
    BY <2>1, Field!InnerInt DEF Pack
<1> QED
  BY <1>1, <1>2

\* The fold of a corrected row.
LEMMA CorrectedRow ==
  ASSUME Given, NEW g \in CheckGammas, NEW i \in I
  PROVE  Checked(g, Row(Corrected, i))
           = Mod(GammaFold(g, Row(ui, i)) + hi[i] * (GammaFold(g, Witness) + GammaFold(g, Errors(i))))
<1> DEFINE n == check_pos
           w == Weights(g)
           a == hi[i]
           u == Row(ui, i)
           v == Witness
           e == Errors(i)
           r == Row(Corrected, i)
<1>1. /\ w \in [0 .. n -> Int] /\ u \in [0 .. n -> Int] /\ v \in [0 .. n -> Int]
      /\ e \in [0 .. n -> Int] /\ r \in [0 .. n -> Int] /\ a \in Int /\ n \in Nat
      /\ Prime \in Nat \ {0}
  BY RowTypes, Ranges, SameResidue
<1>2. \A j \in 0 .. n : Field!Res(r[j]) = Field!Res(u[j] + a * (v[j] + e[j]))
  <2> TAKE j \in 0 .. n
  <2>1. j \in Pos
    BY Ranges
  <2>2. r[j] = Mod(ui[<<i, j>>] + hi[i] * (Committed(j) + D(i, j)))
    BY <2>1, CorrectedValue DEF Row
  <2>3. u[j] = ui[<<i, j>>] /\ v[j] = Committed(j) /\ e[j] = D(i, j)
    BY <2>1 DEF Row, Witness, Errors
  <2>4. u[j] \in Int /\ v[j] \in Int /\ e[j] \in Int
    BY <1>1
  <2> DEFINE x == u[j] + a * (v[j] + e[j])
  <2>5. x \in Int
    <3> DEFINE uj == u[j]
               vj == v[j]
               ej == e[j]
    <3>1. uj \in Int /\ vj \in Int /\ ej \in Int
      BY <2>4
    <3> HIDE DEF uj, vj, ej, a
    <3>2. uj + a * (vj + ej) \in Int
      BY <1>1, <3>1, SMT
    <3> QED
      BY <3>2 DEF uj, vj, ej
  <2>6. r[j] = Mod(x)
    BY <2>2, <2>3
  <2> HIDE DEF x, r
  <2>7. Mod(Mod(x)) = Mod(x)
    BY <2>5, Residues
  <2> QED
    BY <2>6, <2>7, SameResidue DEF x
<1> HIDE DEF n, w, a, u, v, e, r
<1>3. Field!Res(Field!Inner(n, w, r))
        = Field!Res(Field!Inner(n, w, u) + a * (Field!Inner(n, w, v) + Field!Inner(n, w, e)))
  <2>1. Field!IsShifted(n, r, u, a, v, e)
    BY <1>2 DEF Field!IsShifted
  <2>2. Field!ProductShifted(n, w, r, u, a, v, e)
    BY <1>1, <2>1, Field!InnerShifted
  <2> QED
    BY <2>2 DEF Field!ProductShifted
<1>4. Mod(Field!Inner(n, w, r)) = Mod(Field!Inner(n, w, u) + a * (Field!Inner(n, w, v) + Field!Inner(n, w, e)))
  BY <1>3, SameResidue
<1>5. Checked(g, Row(Corrected, i)) = Mod(Field!Inner(n, w, r))
  BY Products DEF GammaFold, n, w, r
<1> QED
  BY <1>4, <1>5 DEF GammaFold, n, w, a, u, v, e

\* What the verifier holds before its check: rows, differences and gamma in place.
Drawn == oi = Corrected /\ checkGamma \in CheckGammas

\* The polynomials of the prover.
Polynomials == [j \in Pos |-> [d \in {0, 1} |-> IF d = 1 THEN Committed(j) ELSE MacOf(ui, j)]]

\* The check sees exactly this of the errors.
Residual(i) == hi[i] * (GammaFold(checkGamma, Errors(i)) - Err("cv", 0)) - Err("cu", i)

\* The verifier's check for correlation i holds exactly when the residual vanishes:
\* everything else in it cancels.
LEMMA CheckExact ==
  ASSUME Given, Drawn, commitment = Polynomials, NEW i \in I
  PROVE  /\ Residual(i) \in Int
         /\ CommitmentHolds(CheckMessage(checkGamma), i) <=> Mod(Residual(i)) = 0
<1> DEFINE su == GammaFold(checkGamma, Row(ui, i))
           sw == GammaFold(checkGamma, Witness)
           sd == GammaFold(checkGamma, Errors(i))
           a == hi[i]
           eu == Err("cu", i)
           ev == Err("cv", 0)
           m1 == Mod(su)
           m2 == Mod(sw)
           cu == Mod(m1 + eu)
           cv == Mod(m2 + ev)
           dp == Mod(su + a * (sw + sd))
<1>1. su \in Int /\ sw \in Int /\ sd \in Int /\ a \in Int /\ eu \in Int /\ ev \in Int /\ Prime \in Int
  BY RowTypes, SumTypes, GivenTypes, SameResidue DEF Drawn
<1>2. CommitmentHolds(CheckMessage(checkGamma), i) <=> Mod(dp - (cu + a * cv)) = 0
  <2>1. [j \in Pos |-> commitment[j][1]] = Witness
    BY DEF Polynomials, Witness
  <2>2. CheckMessage(checkGamma).cu[i] = cu /\ CheckMessage(checkGamma).cv = cv
    BY <2>1, Products DEF CheckMessage
  <2>3. Checked(checkGamma, Row(oi, i)) = dp
    BY CorrectedRow DEF Drawn
  <2> HIDE DEF cu, cv, dp
  <2> QED
    BY <2>2, <2>3 DEF CommitmentHolds
<1>3. Residual(i) = a * (sd - ev) - eu
  BY DEF Residual
<1> HIDE DEF su, sw, sd, a, eu, ev
<1>4. PICK k1 \in Int : m1 = su + k1 * Prime
  BY <1>1, Residues
<1>5. PICK k2 \in Int : m2 = sw + k2 * Prime
  BY <1>1, Residues
<1> DEFINE x == m1 + eu
           y == m2 + ev
           z == su + a * (sw + sd)
<1>6. x \in Int /\ y \in Int /\ z \in Int
  <2> HIDE DEF m1, m2
  <2> QED
    BY <1>1, <1>4, <1>5, SMT
<1>7. PICK k3 \in Int : cu = x + k3 * Prime
  <2> HIDE DEF x
  <2> QED
    BY <1>6, Residues DEF x
<1>8. PICK k4 \in Int : cv = y + k4 * Prime
  <2> HIDE DEF y
  <2> QED
    BY <1>6, Residues DEF y
<1>9. PICK k5 \in Int : dp = z + k5 * Prime
  <2> HIDE DEF z
  <2> QED
    BY <1>6, Residues DEF z
<1> HIDE DEF m1, m2, cu, cv, dp
<1> DEFINE p == dp - (cu + a * cv)
           t == a * (sd - ev) - eu
           n == k5 - k1 - k3 - a * (k2 + k4)
<1>10. p \in Int /\ t \in Int /\ n \in Int
  <2> HIDE DEF x, y, z
  <2> QED
    BY <1>1, <1>6, <1>7, <1>8, <1>9, SMT
<1>11. p = t + n * Prime
  BY <1>1, <1>4, <1>5, <1>7, <1>8, <1>9, SMT
<1> HIDE DEF p, t, n
<1>12. Mod(p) = Mod(t)
  BY <1>10, <1>11, Shift
<1> QED
  BY <1>2, <1>3, <1>10, <1>12 DEF p, t

\* The check passes exactly when the verifier's draw and the points hide the error.
LEMMA CheckSees ==
  ASSUME Given, Drawn, commitment = Polynomials
  PROVE  (\A i \in I : CommitmentHolds(CheckMessage(checkGamma), i)) <=> Unseen
<1> DEFINE W0(j) == Weight(checkGamma, j)
<1>1. SUFFICES (\A i \in I : Mod(Residual(i)) = 0) <=> Unseen
  BY CheckExact
<1>2. \A i \in I : Errors(i) = [j \in 0 .. check_pos |-> D(i, j)] /\ Errors(i) \in [0 .. check_pos -> Int]
  BY RowTypes, Ranges DEF Errors
<1>3. Weights(checkGamma) \in [0 .. check_pos -> Int] /\ check_pos \in Nat
  BY RowTypes, Ranges DEF Drawn
<1>4. Mod(0) = 0 /\ tamper.err \in F /\ tamper.err \in Int
  BY Residues, GivenTypes
<1>5. \A i \in I : hi[i] \in F /\ hi[i] \in Int
  BY GivenTypes, Ranges
<1>6. ASSUME NEW i \in I, \A j \in Pos : D(i, j) = 0
      PROVE  GammaFold(checkGamma, Errors(i)) = 0
  <2>1. \A j \in 0 .. check_pos : Errors(i)[j] = 0
    BY <1>2, <1>6, Ranges
  <2> QED
    BY <1>2, <1>3, <2>1, Field!InnerZero DEF GammaFold
<1>7. CASE tamper.msg \in {"none", "witness", "coef"}
  <2>1. \A m, a : m \in {"derand", "cu", "cv"} => Err(m, a) = 0
    BY <1>7, ErrZero
  <2>2. ASSUME NEW i \in I
        PROVE  Mod(Residual(i)) = 0
    <3>1. GammaFold(checkGamma, Errors(i)) = 0
      BY <1>6, <2>1 DEF D
    <3>2. Residual(i) = hi[i] * (0 - 0) - 0
      BY <2>1, <3>1 DEF Residual
    <3> QED
      BY <1>4, <1>5, <3>2
  <2> QED
    BY <1>7, <2>2 DEF Unseen
<1>8. CASE tamper.msg = "derand"
  <2> DEFINE i0 == tamper.at[1]
             j0 == tamper.at[2]
  <2>1. i0 \in I /\ j0 \in Pos /\ tamper.at = <<i0, j0>> /\ tamper.err # 0
    BY <1>8, TamperTypes
  <2> HIDE DEF i0, j0
  <2>2. \A i, j : Err("cv", j) = 0 /\ Err("cu", i) = 0
    BY <1>8, ErrZero
  <2>3. \A i, j : i # i0 \/ j # j0 => D(i, j) = 0
    <3> SUFFICES ASSUME NEW i, NEW j, i # i0 \/ j # j0
                 PROVE  D(i, j) = 0
      OBVIOUS
    <3>1. <<i, j>> # tamper.at
      BY <2>1
    <3> QED
      BY <3>1, ErrZero DEF D
  <2>4. D(i0, j0) = tamper.err
    BY <1>8, <2>1 DEF D, Err
  <2>5. \A i \in I : i # i0 => Mod(Residual(i)) = 0
    <3> TAKE i \in I
    <3> HAVE i # i0
    <3>1. GammaFold(checkGamma, Errors(i)) = 0
      BY <1>6, <2>3
    <3>2. Residual(i) = hi[i] * (0 - 0) - 0
      BY <2>2, <3>1 DEF Residual
    <3> QED
      BY <1>4, <1>5, <3>2
  <2> DEFINE w == Weights(checkGamma)[j0]
             a == hi[i0]
             e == tamper.err
  <2>6. w \in Int /\ a \in Int /\ e \in Int /\ w = Weight(checkGamma, j0)
    BY <1>3, <1>4, <1>5, <2>1, Ranges DEF Weights
  <2>7. GammaFold(checkGamma, Errors(i0)) = w * e
    <3>0. \A j \in 0 .. check_pos : Errors(i0)[j] = D(i0, j)
      BY Ranges DEF Errors
    <3>1. \A j \in 0 .. check_pos : j # j0 => Errors(i0)[j] = 0
      BY <2>3, <3>0
    <3>2. Errors(i0)[j0] = e /\ j0 \in 0 .. check_pos
      BY <2>1, <2>4, <3>0, Ranges
    <3> HIDE DEF w, e
    <3>3. Field!Inner(check_pos, Weights(checkGamma), Errors(i0)) = Weights(checkGamma)[j0] * Errors(i0)[j0]
      BY <1>2, <1>3, <2>1, <3>1, <3>2, Field!InnerSingle
    <3> QED
      BY <3>2, <3>3 DEF GammaFold, w
  <2>8. Residual(i0) = a * (w * e)
    <3>1. Residual(i0) = a * (w * e - 0) - 0
      BY <2>2, <2>7 DEF Residual
    <3> HIDE DEF a, w, e
    <3> DEFINE we == w * e
    <3>2. we \in Int /\ a * we \in Int
      BY <2>6, SMT
    <3>3. Residual(i0) = a * (we - 0) - 0
      BY <3>1
    <3> HIDE DEF we
    <3>4. Residual(i0) = a * we
      BY <2>6, <3>2, <3>3
    <3> QED
      BY <3>4 DEF we
  <2>9. Mod(a) = a /\ Mod(e) = e /\ e # 0
    BY <1>4, <1>5, <2>1, Residues
  <2>10. Mod(w) = 0 <=> j0 # check_pos /\ checkGamma[j0] = 0
    <3>1. CASE j0 = check_pos
      <4>1. w = 1 /\ 1 \in F
        BY <2>6, <3>1, ZkAssumption DEF Weight, F
      <4>2. Mod(1) = 1
        BY <4>1, Residues
      <4> HIDE DEF w
      <4> QED
        BY <3>1, <4>1, <4>2
    <3>2. CASE j0 # check_pos
      <4>1. j0 \in 0 .. (check_pos - 1)
        BY <2>1, <3>2, Ranges
      <4>2. checkGamma[j0] \in F
        <5>1. checkGamma \in [0 .. (check_pos - 1) -> F]
          BY ZkAssumption DEF Drawn
        <5> QED
          BY <4>1, <5>1
      <4>3. w = checkGamma[j0]
        BY <2>6, <3>2 DEF Weight
      <4>4. Mod(w) = w
        BY <4>2, <4>3, Residues
      <4> HIDE DEF w
      <4> QED
        BY <3>2, <4>3, <4>4
    <3> QED
      BY <3>1, <3>2
  <2>11. Mod(Residual(i0)) = 0 <=> (Mod(a) = 0 \/ Mod(w) = 0)
    <3> HIDE DEF a, w, e
    <3> DEFINE we == w * e
    <3>1. we \in Int /\ Residual(i0) = a * we
      BY <2>6, <2>8, SMT
    <3>2. Mod(we) = 0 <=> Mod(w) = 0
      <4>1. Mod(we) = 0 => Mod(w) = 0
        BY <2>6, <2>9, NoZeroDivisors
      <4>2. ASSUME Mod(w) = 0 PROVE Mod(we) = 0
        <5>1. PICK k \in Int : w = 0 + k * Prime
          BY <2>6, <4>2, Residues
        <5> DEFINE m == k * e
        <5>2. m \in Int /\ we = 0 + m * Prime
          BY <2>6, <5>1, SameResidue, SMT
        <5> HIDE DEF m, we
        <5> QED
          BY <1>4, <3>1, <5>2, Shift
      <4> QED
        BY <4>1, <4>2
    <3> HIDE DEF we
    <3>3. Mod(a * we) = 0 => Mod(a) = 0 \/ Mod(we) = 0
      BY <2>6, <3>1, NoZeroDivisors
    <3>4. ASSUME Mod(a) = 0 \/ Mod(we) = 0
          PROVE  Mod(a * we) = 0
      <4>1. CASE Mod(a) = 0
        <5>1. a = 0
          BY <2>9, <4>1
        <5>2. a * we = 0
          BY <3>1, <5>1
        <5> QED
          BY <1>4, <5>2
      <4>2. CASE Mod(we) = 0
        <5>1. PICK k \in Int : we = 0 + k * Prime
          BY <3>1, <4>2, Residues
        <5> DEFINE m == a * k
                   z == a * we
        <5>2. m \in Int /\ z \in Int /\ z = 0 + m * Prime
          BY <2>6, <3>1, <5>1, SameResidue, SMT
        <5> HIDE DEF m, z
        <5>3. Mod(z) = 0
          BY <1>4, <5>2, Shift
        <5> QED
          BY <5>3 DEF z
      <4> QED
        BY <3>4, <4>1, <4>2
    <3> QED
      BY <3>1, <3>2, <3>3, <3>4
  <2>12. Unseen <=> (a = 0 \/ (j0 # check_pos /\ checkGamma[j0] = 0))
    BY <1>8 DEF Unseen, i0, j0
  <2> HIDE DEF a, w, e
  <2> QED
    BY <2>1, <2>5, <2>9, <2>10, <2>11, <2>12
<1>9. CASE tamper.msg = "cu"
  <2>1. tamper.at \in I /\ tamper.err # 0
    BY <1>9, TamperTypes
  <2> DEFINE e == tamper.err
  <2>2. \A m, a : m \in {"derand", "cv"} => Err(m, a) = 0
    BY <1>9, ErrZero
  <2>3. Err("cu", tamper.at) = e
    BY <1>9, ErrZero
  <2>4. GammaFold(checkGamma, Errors(tamper.at)) = 0
    BY <1>6, <2>1, <2>2 DEF D
  <2>5. Residual(tamper.at) = hi[tamper.at] * (0 - 0) - e
    BY <2>2, <2>3, <2>4 DEF Residual
  <2>6. e \in Int /\ e # 0 /\ Mod(e) = e
    BY <1>4, <2>1, Residues
  <2>7. Residual(tamper.at) = -e
    <3> DEFINE a == hi[tamper.at]
    <3>1. a \in Int
      BY <1>5, <2>1
    <3> HIDE DEF a, e
    <3> QED
      BY <2>5, <2>6, <3>1 DEF a
  <2>8. Mod(-e) # 0
    <3>1. ASSUME Mod(-e) = 0 PROVE FALSE
      <4> DEFINE ne == -e
      <4>1. ne \in Int /\ Mod(ne) = 0
        BY <2>6, <3>1
      <4> HIDE DEF ne
      <4>2. PICK k \in Int : ne = 0 + k * Prime
        BY <1>4, <4>1, Residues
      <4> DEFINE m == -k
      <4>3. m \in Int /\ e = 0 + m * Prime
        BY <2>6, <4>2, SameResidue, SMT DEF ne
      <4> HIDE DEF m, e
      <4>4. Mod(e) = Mod(0)
        BY <2>6, <4>3, Shift
      <4> QED
        BY <1>4, <2>6, <4>4
    <3> QED
      BY <3>1
  <2>9. Mod(Residual(tamper.at)) # 0
    BY <2>7, <2>8
  <2> QED
    BY <1>9, <2>1, <2>9 DEF Unseen
<1>10. CASE tamper.msg = "cv"
  <2>1. tamper.at = 0 /\ tamper.err # 0
    BY <1>10, TamperTypes
  <2> DEFINE e == tamper.err
  <2>2. \A m, a : m \in {"derand", "cu"} => Err(m, a) = 0
    BY <1>10, ErrZero
  <2>3. Err("cv", 0) = e
    BY <1>10, <2>1 DEF Err
  <2>4. e \in Int /\ e # 0 /\ Mod(e) = e
    BY <1>4, <2>1, Residues
  <2>5. ASSUME NEW i \in I
        PROVE  Mod(Residual(i)) = 0 <=> hi[i] = 0
    <3> DEFINE a == hi[i]
               z == a * (0 - e) - 0
               ae == a * e
    <3>1. GammaFold(checkGamma, Errors(i)) = 0
      BY <1>6, <2>2 DEF D
    <3>2. Residual(i) = z
      BY <2>2, <2>3, <3>1 DEF Residual
    <3>3. a \in Int /\ Mod(a) = a
      BY <1>5, Residues
    <3> HIDE DEF a, e
    <3>4. z \in Int /\ ae \in Int /\ z = -ae
      BY <2>4, <3>3, SMT
    <3>5. ASSUME Mod(z) = 0 PROVE a = 0
      <4>1. PICK k \in Int : z = 0 + k * Prime
        BY <1>4, <3>4, <3>5, Residues
      <4> DEFINE m == -k
      <4> HIDE DEF z, ae
      <4>2. m \in Int /\ ae = 0 + m * Prime
        BY <3>4, <4>1, SameResidue, SMT
      <4> HIDE DEF m
      <4>3. Mod(ae) = 0
        BY <1>4, <3>4, <4>2, Shift
      <4>4. Mod(a) = 0 \/ Mod(e) = 0
        BY <2>4, <3>3, <4>3, NoZeroDivisors DEF ae
      <4> QED
        BY <2>4, <3>3, <4>4
    <3>6. ASSUME a = 0 PROVE Mod(z) = 0
      <4>1. z = 0
        BY <2>4, <3>6
      <4> QED
        BY <1>4, <4>1
    <3> HIDE DEF z
    <3>7. Mod(z) = 0 <=> a = 0
      BY <3>5, <3>6
    <3> QED
      BY <3>2, <3>7 DEF a
  <2> QED
    BY <1>10, <2>5 DEF Unseen
<1> QED
  BY <1>7, <1>8, <1>9, <1>10, TamperTypes

----------------------------------------------------------------------------
(* The keys.                                                               *)

\* A key whose column no error reaches is the value of the polynomial at Delta.
LEMMA KeyValue ==
  ASSUME Given, NEW j \in Pos, \A i \in I : hi[i] * D(i, j) = 0
  PROVE  MacOf(Corrected, j) = Mod(MacOf(ui, j) + Combine(hi) * Committed(j))
<1> DEFINE n == KVole - 1
           g == Multipliers
           a == Committed(j)
           u == Column(ui, j)
           v == hi
           e == [i \in I |-> 0]
           r == Column(Corrected, j)
<1>1. /\ g \in [0 .. n -> Int] /\ u \in [0 .. n -> Int] /\ v \in [0 .. n -> Int]
      /\ e \in [0 .. n -> Int] /\ r \in [0 .. n -> Int] /\ a \in Int /\ n \in Nat
      /\ Prime \in Nat \ {0} /\ Prime \in Int
  BY RowTypes, GivenTypes, Ranges, SameResidue
<1>2. \A i \in 0 .. n : Field!Res(r[i]) = Field!Res(u[i] + a * (v[i] + e[i]))
  <2> TAKE i \in 0 .. n
  <2>1. i \in I
    BY Ranges
  <2>2. r[i] = Mod(ui[<<i, j>>] + hi[i] * (Committed(j) + D(i, j)))
    BY <2>1, CorrectedValue DEF Column
  <2>3. u[i] = ui[<<i, j>>] /\ e[i] = 0 /\ v[i] = hi[i]
    BY <2>1 DEF Column
  <2> DEFINE x == u[i]
             y == v[i]
             d == D(i, j)
  <2>4. x \in Int /\ y \in Int /\ d \in Int /\ y * d = 0
    BY <1>1, <2>1, GivenTypes DEF D
  <2>5. r[i] = Mod(x + y * (a + d))
    BY <2>2, <2>3
  <2> DEFINE z == x + a * (y + 0)
  <2>6. z \in Int /\ x + y * (a + d) = z
    <3> HIDE DEF x, y, d, a
    <3>1. y * (a + d) = a * y + y * d
      BY <1>1, <2>4, SMT
    <3>2. a * y \in Int /\ y + 0 = y
      BY <1>1, <2>4, SMT
    <3>3. x + y * (a + d) = x + a * y
      BY <2>4, <3>1, <3>2
    <3> QED
      BY <2>4, <3>2, <3>3
  <2>7. Field!Res(u[i] + a * (v[i] + e[i])) = Mod(z)
    BY <2>3, SameResidue
  <2> HIDE DEF z, r
  <2>8. r[i] = Mod(z)
    BY <2>5, <2>6
  <2> QED
    BY <2>6, <2>7, <2>8, Residues, SameResidue
<1> HIDE DEF n, g, u, v, e, r
<1>3. Field!ProductShifted(n, g, r, u, a, v, e)
  <2> HIDE DEF a
  <2>1. Field!IsShifted(n, r, u, a, v, e)
    BY <1>2 DEF Field!IsShifted
  <2> QED
    BY <1>1, <2>1, Field!InnerShifted
<1>4. Field!Inner(n, g, e) = 0
  <2>1. \A i \in 0 .. n : e[i] = 0
    BY Ranges DEF e, n
  <2> QED
    BY <1>1, <2>1, Field!InnerZero
<1> DEFINE su == Pack(Column(ui, j))
           sh == Pack(hi)
           m1 == Mod(su)
           m2 == Mod(sh)
<1>5. su \in Int /\ sh \in Int
  BY RowTypes, SumTypes
<1>6. MacOf(Corrected, j) = Mod(su + a * (sh + 0))
  <2>1. MacOf(Corrected, j) = Mod(Pack(r))
    BY Products DEF MacOf, r
  <2>2. Pack(r) = Field!Inner(n, g, r) /\ su = Field!Inner(n, g, u) /\ sh = Field!Inner(n, g, v)
    BY DEF Pack, n, g, u, v
  <2> HIDE DEF su, sh, a
  <2>3. Mod(Field!Inner(n, g, r)) = Mod(su + a * (sh + 0))
    BY <1>3, <1>4, <2>2, SameResidue DEF Field!ProductShifted
  <2> QED
    BY <2>1, <2>2, <2>3
<1>7. MacOf(ui, j) = m1 /\ Combine(hi) = m2
  BY Products DEF MacOf
<1> HIDE DEF su, sh, a
<1>8. PICK k1 \in Int : m1 = su + k1 * Prime
  BY <1>5, Residues
<1>9. PICK k2 \in Int : m2 = sh + k2 * Prime
  BY <1>5, Residues
<1> HIDE DEF m1, m2
<1> DEFINE p == su + a * (sh + 0)
           t == m1 + m2 * a
           k == -k1 - a * k2
<1>10. p \in Int /\ t \in Int /\ k \in Int
  BY <1>1, <1>5, <1>8, <1>9, SMT
<1>11. p = t + k * Prime
  BY <1>1, <1>5, <1>8, <1>9, SMT
<1> HIDE DEF p, t, k
<1>12. Mod(p) = Mod(t)
  BY <1>10, <1>11, Shift
<1> QED
  BY <1>6, <1>7, <1>12 DEF p, t, a

----------------------------------------------------------------------------
(* The inductive invariant.                                                *)

At(p, v, toV, toP) == ppc = p /\ vpc = v /\ p2v = toV /\ v2p = toP

\* The places of the two sides, with the messages under way.
Stage ==
  \/ At("commit", "derand", <<>>, <<>>)
  \/ At("checkSeed", "derand", <<DerandMessage>>, <<>>)
  \/ At("checkSeed", "check", <<>>, <<checkGamma>>)
  \/ At("proveSeed", "check", <<CheckMessage(checkGamma)>>, <<>>)
  \/ At("proveSeed", "rejected", <<>>, <<>>)
  \/ At("proveSeed", "verify", <<>>, <<scalars>>)
  \/ /\ ppc = "done" /\ vpc = "verify" /\ v2p = <<>>
     /\ \E coefs : p2v = <<coefs>>
  \/ At("done", "done", <<>>, <<>>)

AllHold == \A i \in I : CommitmentHolds(CheckMessage(checkGamma), i)

\* What each side has computed at its place.
Knows ==
  /\ ppc # "commit" => commitment = Polynomials
  /\ vpc = "derand" => oi = Start
  /\ vpc # "derand" => /\ Drawn /\ Delta = Combine(hi)
                       /\ key = [j \in Pos |-> MacOf(Corrected, j)]
  /\ vpc \in {"verify", "done"} => AllHold
  /\ vpc = "rejected" => ~ AllHold

Inv == Given /\ Stage /\ Knows

\* CommitmentBinds follows.
LEMMA BindsFollows == Inv => CommitmentBinds
<1> SUFFICES ASSUME Inv PROVE CommitmentBinds
  OBVIOUS
<1>1. Given
  BY DEF Inv
<1>2. ASSUME vpc \in {"verify", "done", "rejected"}
      PROVE  /\ Drawn /\ commitment = Polynomials /\ Delta = Combine(hi)
             /\ key = [j \in Pos |-> MacOf(Corrected, j)]
             /\ AllHold <=> Unseen
  <2>1. ppc # "commit" /\ vpc # "derand"
    BY <1>2 DEF Inv, Stage, At
  <2>2. /\ Drawn /\ commitment = Polynomials /\ Delta = Combine(hi)
        /\ key = [j \in Pos |-> MacOf(Corrected, j)]
    BY <2>1 DEF Inv, Knows
  <2> QED
    BY <1>1, <2>2, CheckSees DEF AllHold
<1>3. ASSUME vpc \in {"verify", "done"}
      PROVE  Unseen
  BY <1>2, <1>3 DEF Inv, Knows
<1>4. ASSUME vpc \in {"verify", "done"}, NEW j \in Pos
      PROVE  key[j] = AtDelta(j) \/ Missed(j)
  <2>1. SUFFICES ASSUME ~ Missed(j) PROVE key[j] = AtDelta(j)
    OBVIOUS
  <2>2. \A i \in I : hi[i] * D(i, j) = 0
    <3> SUFFICES ASSUME NEW i \in I PROVE hi[i] * D(i, j) = 0
      OBVIOUS
    <3> DEFINE a == hi[i]
               d == D(i, j)
    <3>1. a \in Int /\ d \in Int
      BY <1>1, GivenTypes, Ranges DEF D
    <3>2. a = 0 \/ d = 0
      <4>1. CASE tamper.msg # "derand" \/ tamper.at # <<i, j>>
        BY <4>1, ErrZero DEF D
      <4>2. CASE tamper.msg = "derand" /\ tamper.at = <<i, j>>
        <5>1. tamper.at[1] = i /\ tamper.at[2] = j
          BY <4>2
        <5>2. hi[i] = 0 \/ (j # check_pos /\ checkGamma[j] = 0)
          BY <1>3, <1>4, <4>2, <5>1 DEF Unseen
        <5>3. ~ (j # check_pos /\ checkGamma[j] = 0)
          BY <2>1, <4>2, <5>1 DEF Missed
        <5> QED
          BY <5>2, <5>3
      <4> QED
        BY <4>1, <4>2
    <3> HIDE DEF a, d
    <3>3. a * d = 0
      BY <3>1, <3>2, SMT
    <3> QED
      BY <3>3 DEF a, d
  <2>3. key[j] = Mod(MacOf(ui, j) + Combine(hi) * Committed(j))
    BY <1>1, <1>2, <1>4, <2>2, KeyValue
  <2>4. commitment[j][0] = MacOf(ui, j) /\ commitment[j][1] = Committed(j) /\ Delta = Combine(hi)
    BY <1>2, <1>4 DEF Polynomials
  <2> QED
    BY <2>3, <2>4 DEF AtDelta
<1>5. vpc = "rejected" => ~ Unseen
  BY <1>2 DEF Inv, Knows
<1> QED
  BY <1>3, <1>4, <1>5 DEF CommitmentBinds

\* The initial states.
LEMMA InvInit == ZkInit => Inv
BY DEF ZkInit, Inv, Given, Stage, At, Knows, Start

\* What a step that leaves the run's setup alone leaves alone.
LEMMA Fixed ==
  ASSUME UNCHANGED setup, Given
  PROVE  /\ Given' /\ Start' = Start /\ Corrected' = Corrected /\ Polynomials' = Polynomials
         /\ DerandMessage' = DerandMessage /\ Combine(hi)' = Combine(hi)
         /\ [j \in Pos |-> MacOf(Corrected, j)]' = [j \in Pos |-> MacOf(Corrected, j)]
BY DEF setup, Given, Start, Corrected, Polynomials, DerandMessage, Committed, Err, MacOf, Column

\* What a step that also leaves the two sides' values alone leaves alone.
LEMMA FixedCheck ==
  ASSUME UNCHANGED <<setup, commitment, oi, checkGamma>>, Given
  PROVE  /\ CheckMessage(checkGamma)' = CheckMessage(checkGamma) /\ AllHold' = AllHold
         /\ Drawn' = Drawn
<1>1. UNCHANGED <<ui, hi, tamper, commitment, oi, checkGamma>>
  BY DEF setup
<1>2. CheckMessage(checkGamma)' = CheckMessage(checkGamma)
  BY <1>1 DEF CheckMessage, Err, Row
<1>3. AllHold' = AllHold
  BY <1>1, <1>2 DEF AllHold, CommitmentHolds, Row
<1>4. Drawn' = Drawn
  BY <1>1, Fixed DEF Drawn
<1> QED
  BY <1>2, <1>3, <1>4

\* Every step keeps the invariant.
LEMMA InvStep == Inv /\ [ZkNext]_zkVars => Inv'
<1> SUFFICES ASSUME Inv, [ZkNext]_zkVars PROVE Inv'
  OBVIOUS
<1>1. Given /\ Stage /\ Knows
  BY DEF Inv
<1>2. CASE Commit
  <2>1. UNCHANGED setup /\ UNCHANGED <<oi, vpc, v2p>>
    BY <1>2 DEF Commit, verifier
  <2>2. At("commit", "derand", <<>>, <<>>)
    BY <1>1, <1>2 DEF Commit, Stage, At
  <2>3. ppc' = "checkSeed" /\ p2v' = <<DerandMessage>> /\ commitment' = Polynomials
    BY <1>2, <2>2 DEF Commit, At, Polynomials
  <2>4. Stage'
    BY <1>1, <2>1, <2>2, <2>3, Fixed DEF Stage, At
  <2>5. Knows'
    BY <1>1, <2>1, <2>2, <2>3, Fixed DEF Knows, At
  <2> QED
    BY <1>1, <2>1, <2>4, <2>5, Fixed DEF Inv
<1>3. CASE CommitCheck
  <2>1. UNCHANGED setup /\ UNCHANGED <<oi, vpc, checkGamma, commitment, Delta, key>>
    BY <1>3 DEF CommitCheck, verifier
  <2>2. At("checkSeed", "check", <<>>, <<checkGamma>>)
    BY <1>1, <1>3 DEF CommitCheck, Stage, At
  <2>3. ppc' = "proveSeed" /\ p2v' = <<CheckMessage(checkGamma)>> /\ v2p' = <<>>
    BY <1>3, <2>2 DEF CommitCheck, At
  <2>4. CheckMessage(checkGamma)' = CheckMessage(checkGamma) /\ Drawn' = Drawn
    BY <1>1, <2>1, FixedCheck
  <2>5. Stage'
    BY <2>1, <2>2, <2>3, <2>4 DEF Stage, At
  <2>6. Knows'
    BY <1>1, <2>1, <2>2, <2>3, <2>4, Fixed DEF Knows, At
  <2> QED
    BY <1>1, <2>1, <2>5, <2>6, Fixed DEF Inv
<1>4. CASE Prove
  <2>1. UNCHANGED setup /\ UNCHANGED <<oi, vpc, checkGamma, commitment, Delta, key>>
    BY <1>4 DEF Prove, verifier
  <2>2. At("proveSeed", "verify", <<>>, <<scalars>>)
    BY <1>1, <1>4 DEF Prove, Stage, At
  <2>3. ppc' = "done" /\ v2p' = <<>> /\ \E coefs : p2v' = <<coefs>>
    BY <1>4, <2>2 DEF Prove, At
  <2>4. AllHold' = AllHold /\ Drawn' = Drawn
    BY <1>1, <2>1, FixedCheck
  <2>5. Stage'
    BY <2>1, <2>2, <2>3 DEF Stage, At
  <2>6. Knows'
    BY <1>1, <2>1, <2>2, <2>3, <2>4, Fixed DEF Knows, At
  <2> QED
    BY <1>1, <2>1, <2>5, <2>6, Fixed DEF Inv
<1>5. CASE ReceiveDerand
  <2>1. UNCHANGED setup /\ UNCHANGED <<ppc, commitment, hi>>
    BY <1>5 DEF ReceiveDerand, setup
  <2>2. At("checkSeed", "derand", <<DerandMessage>>, <<>>)
    BY <1>1, <1>5 DEF ReceiveDerand, Stage, At
  <2>3. Shifted(Head(p2v)) = Corrected
    BY <1>1, <2>2 DEF Shifted, Corrected, Knows, At
  <2>4. /\ vpc' = "check" /\ p2v' = <<>> /\ v2p' = <<checkGamma'>> /\ checkGamma' \in CheckGammas
        /\ oi' = Corrected /\ Delta' = Combine(hi)
        /\ key' = [j \in Pos |-> MacOf(Corrected, j)]
    BY <1>5, <2>2, <2>3 DEF ReceiveDerand, At
  <2>5. Stage'
    BY <2>1, <2>2, <2>4 DEF Stage, At
  <2>6. Drawn'
    BY <1>1, <2>1, <2>4, Fixed DEF Drawn
  <2>7. Knows'
    BY <1>1, <2>1, <2>2, <2>4, <2>6, Fixed DEF Knows, At
  <2> QED
    BY <1>1, <2>1, <2>5, <2>7, Fixed DEF Inv
<1>6. CASE ReceiveCheck
  <2>1. UNCHANGED setup /\ UNCHANGED <<ppc, oi, checkGamma, commitment, Delta, key>>
    BY <1>6 DEF ReceiveCheck
  <2>2. At("proveSeed", "check", <<CheckMessage(checkGamma)>>, <<>>)
    BY <1>1, <1>6 DEF ReceiveCheck, Stage, At
  <2>3. /\ p2v' = <<>>
        /\ \/ AllHold /\ vpc' = "verify" /\ v2p' = <<scalars'>>
           \/ ~ AllHold /\ vpc' = "rejected" /\ v2p' = <<>>
    <3>1. Head(p2v) = CheckMessage(checkGamma) /\ Tail(p2v) = <<>>
      BY <2>2 DEF At
    <3> QED
      BY <1>6, <2>2, <3>1 DEF ReceiveCheck, At, AllHold
  <2>4. AllHold' = AllHold /\ Drawn' = Drawn
    BY <1>1, <2>1, FixedCheck
  <2>5. Stage'
    BY <2>1, <2>2, <2>3 DEF Stage, At
  <2>6. Knows'
    BY <1>1, <2>1, <2>2, <2>3, <2>4, Fixed DEF Knows, At
  <2> QED
    BY <1>1, <2>1, <2>5, <2>6, Fixed DEF Inv
<1>7. CASE Verify
  <2>1. UNCHANGED setup /\ UNCHANGED <<ppc, v2p, oi, checkGamma, commitment, Delta, key>>
    BY <1>7 DEF Verify
  <2>2. ppc = "done" /\ vpc = "verify" /\ v2p = <<>> /\ \E coefs : p2v = <<coefs>>
    BY <1>1, <1>7 DEF Verify, Stage, At
  <2>3. vpc' = "done" /\ p2v' = <<>>
    BY <1>7, <2>2 DEF Verify
  <2>4. AllHold' = AllHold /\ Drawn' = Drawn
    BY <1>1, <2>1, FixedCheck
  <2>5. Stage'
    BY <2>1, <2>2, <2>3 DEF Stage, At
  <2>6. Knows'
    BY <1>1, <2>1, <2>2, <2>3, <2>4, Fixed DEF Knows
  <2> QED
    BY <1>1, <2>1, <2>5, <2>6, Fixed DEF Inv
<1>8. CASE UNCHANGED zkVars
  <2>1. UNCHANGED setup /\ UNCHANGED <<ppc, vpc, p2v, v2p, commitment, oi, key, Delta, checkGamma, scalars>>
    BY <1>8 DEF zkVars, setup
  <2>2. CheckMessage(checkGamma)' = CheckMessage(checkGamma) /\ AllHold' = AllHold /\ Drawn' = Drawn
    BY <1>1, <2>1, FixedCheck
  <2>3. Stage'
    BY <1>1, <2>1, <2>2, Fixed DEF Stage, At
  <2>4. Knows'
    BY <1>1, <2>1, <2>2, Fixed DEF Knows
  <2> QED
    BY <1>1, <2>1, <2>3, <2>4, Fixed DEF Inv
<1> QED
  BY <1>2, <1>3, <1>4, <1>5, <1>6, <1>7, <1>8 DEF ZkNext

\* The two sides keep step, and each has what the other sent.
THEOREM Reached == ZkSpec => []Inv
<1> QED
  BY InvInit, InvStep, PTL DEF ZkSpec

\* The commitment binds the prover, for every prime, every number of correlations and
\* symbols, every gamma and every error: the check fails exactly when gamma and the points
\* show the error, and every key that is kept is the polynomial's value at Delta.
THEOREM CommitmentBound == ZkSpec => []CommitmentBinds
<1> QED
  BY Reached, BindsFollows, PTL

\* Nothing of the run is changed.
Honest == tamper.msg = "none"

\* An honest commitment is never refused, and every key of it is the value at Delta.
THEOREM HonestCommitment ==
  ZkSpec => [](Honest => /\ vpc # "rejected"
                         /\ vpc \in {"verify", "done"} => \A j \in Pos : key[j] = AtDelta(j))
<1>1. CommitmentBinds /\ Honest => /\ vpc # "rejected"
                                   /\ vpc \in {"verify", "done"} => \A j \in Pos : key[j] = AtDelta(j)
  BY DEF CommitmentBinds, Honest, Unseen, Missed
<1> QED
  BY <1>1, CommitmentBound, PTL

----------------------------------------------------------------------------
(* From here on, the verdict.  First congruences.                          *)

\* Congruent numbers may be exchanged.
LEMMA Congruent ==
  ASSUME NEW a \in Int, NEW b \in Int, NEW c \in Int, NEW d \in Int,
         Mod(a) = Mod(b), Mod(c) = Mod(d)
  PROVE  /\ Mod(a + c) = Mod(b + d)
         /\ Mod(a - c) = Mod(b - d)
         /\ Mod(a * c) = Mod(b * d) /\ Times(a, c) = Times(b, d)
<1>1. Field!Res(a) = Field!Res(b) /\ Field!Res(c) = Field!Res(d)
  BY SameResidue
<1>2. /\ Field!Res(a + c) = Field!Res(b + d) /\ Field!Res(a - c) = Field!Res(b - d)
      /\ Field!Res(a * c) = Field!Res(b * d)
  BY <1>1, SameResidue, Field!ResOps
<1> QED
  BY <1>2, SameResidue DEF Times

\* The same for sums alone, and for products alone.
LEMMA CongruentSum ==
  ASSUME NEW a \in Int, NEW b \in Int, NEW c \in Int, NEW d \in Int,
         Mod(a) = Mod(b), Mod(c) = Mod(d)
  PROVE  Mod(a + c) = Mod(b + d) /\ Mod(a - c) = Mod(b - d)
<1>1. Field!Res(a) = Field!Res(b) /\ Field!Res(c) = Field!Res(d)
  BY SameResidue
<1>2. Field!Res(a + c) = Field!Res(b + d) /\ Field!Res(a - c) = Field!Res(b - d)
  BY <1>1, SameResidue, Field!ResOps
<1> QED
  BY <1>2, SameResidue

\* Sums and differences of congruent numbers, named.
SameSum(a, b, c, d) == Mod(a + c) = Mod(b + d)
SameDifference(a, b, c, d) == Mod(a - c) = Mod(b - d)

LEMMA CongruentBoth ==
  ASSUME NEW a \in Int, NEW b \in Int, NEW c \in Int, NEW d \in Int,
         Mod(a) = Mod(b), Mod(c) = Mod(d)
  PROVE  SameSum(a, b, c, d) /\ SameDifference(a, b, c, d)
BY CongruentSum DEF SameSum, SameDifference

LEMMA CongruentTimes ==
  ASSUME NEW a \in Int, NEW b \in Int, NEW c \in Int, NEW d \in Int,
         Mod(a) = Mod(b), Mod(c) = Mod(d)
  PROVE  Times(a, c) = Times(b, d)
BY Congruent

\* A reduced operand may be exchanged for the operand.
LEMMA Reduced ==
  ASSUME NEW a \in Int, NEW b \in Int
  PROVE  /\ Mod(Mod(a) + b) = Mod(a + b) /\ Mod(a + Mod(b)) = Mod(a + b)
         /\ Mod(Mod(a) - b) = Mod(a - b) /\ Mod(a - Mod(b)) = Mod(a - b)
         /\ Mod(Mod(a) * b) = Mod(a * b) /\ Mod(a * Mod(b)) = Mod(a * b)
<1>1. /\ Field!Res(Field!Res(a) + b) = Field!Res(a + b) /\ Field!Res(a + Field!Res(b)) = Field!Res(a + b)
      /\ Field!Res(Field!Res(a) - b) = Field!Res(a - b) /\ Field!Res(a - Field!Res(b)) = Field!Res(a - b)
      /\ Field!Res(Field!Res(a) * b) = Field!Res(a * b) /\ Field!Res(a * Field!Res(b)) = Field!Res(a * b)
  BY SameResidue, Field!ResReduce
<1> QED
  BY <1>1, SameResidue

\* Times is a product of residues.
LEMMA TimesRing ==
  ASSUME NEW a \in Int, NEW b \in Int
  PROVE  /\ Times(a, b) \in F /\ Times(a, b) \in Int
         /\ Mod(Times(a, b)) = Mod(a * b)
         /\ Times(a, b) = Times(b, a)
         /\ \A c \in Int : Times(Times(a, b), c) = Times(a, Times(b, c))
<1>1. a * b \in Int /\ a * b = b * a
  BY SMT
<1>2. Mod(a * b) \in F /\ Mod(a * b) \in Int /\ Mod(Mod(a * b)) = Mod(a * b)
  BY <1>1, Residues
<1>3. ASSUME NEW c \in Int
      PROVE  Times(Times(a, b), c) = Times(a, Times(b, c))
  <2> DEFINE x == a * b
             y == b * c
  <2>1. x \in Int /\ y \in Int /\ x * c = a * y
    BY SMT
  <2>2. Times(Times(a, b), c) = Mod(Mod(x) * c) /\ Times(a, Times(b, c)) = Mod(a * Mod(y))
    BY DEF Times
  <2> HIDE DEF x, y
  <2>3. Mod(Mod(x) * c) = Mod(x * c) /\ Mod(a * Mod(y)) = Mod(a * y)
    BY <2>1, Reduced
  <2> QED
    BY <2>1, <2>2, <2>3
<1> QED
  BY <1>1, <1>2, <1>3 DEF Times

\* Its laws, one by one.
LEMMA TimesCommutes ==
  ASSUME NEW a \in Int, NEW b \in Int
  PROVE  Times(a, b) = Times(b, a) /\ Times(a, b) \in Int
BY TimesRing

LEMMA TimesAssociates ==
  ASSUME NEW a \in Int, NEW b \in Int, NEW c \in Int
  PROVE  Times(Times(a, b), c) = Times(a, Times(b, c))
BY TimesRing

----------------------------------------------------------------------------
(* The value of a polynomial at Delta.                                     *)

\* The powers of x, as numbers.
PowerRow(x) ==
  [i \in 0 .. 5 |-> <<1, x, x * x, x * (x * x), x * (x * (x * x)), x * (x * (x * (x * x)))>>[i + 1]]
Pow == PowerRow(Delta)

\* The powers the verifier computes are their residues.
LEMMA Powers ==
  ASSUME Delta \in Int
  PROVE  /\ Field!IsPowers(Pow, 5) /\ Pow \in [0 .. 5 -> Int]
         /\ Pow[0] = 1 /\ Pow[1] = Delta
         /\ Mod(Pow[2]) = Mod(Delta_two) /\ Mod(Pow[3]) = Mod(Delta_three)
         /\ Mod(Pow[4]) = Mod(Delta_four) /\ Mod(Pow[5]) = Mod(Delta_five)
         /\ Delta_two \in Int /\ Delta_three \in Int /\ Delta_four \in Int /\ Delta_five \in Int
<1> DEFINE x == Delta
           x2 == x * x
           x3 == x * x2
           x4 == x * x3
           x5 == x * x4
<1>1. /\ Pow[0] = 1 /\ Pow[1] = x /\ Pow[2] = x2 /\ Pow[3] = x3 /\ Pow[4] = x4 /\ Pow[5] = x5
      /\ DOMAIN Pow = 0 .. 5 /\ Pow = [i \in 0 .. 5 |-> Pow[i]]
  BY DEF Pow, PowerRow
<1>2. x \in Int /\ x2 \in Int
  BY SMT
<1> HIDE DEF x, x2
<1>3. x3 \in Int
  BY <1>2, SMT
<1> HIDE DEF x3
<1>4. x4 \in Int
  BY <1>2, <1>3, SMT
<1> HIDE DEF x4
<1>5. x5 \in Int
  BY <1>2, <1>4, SMT
<1> HIDE DEF x5
<1>6. \A i \in 0 .. 5 : Pow[i] \in Int
  BY <1>1, <1>2, <1>3, <1>4, <1>5
<1>7. Pow \in [0 .. 5 -> Int]
  BY <1>1, <1>6
<1>8. \A i \in 1 .. 5 : Pow[i] = Pow[1] * Pow[i - 1]
  <2>1. x = x * 1 /\ x2 = x * x /\ x3 = x * x2 /\ x4 = x * x3 /\ x5 = x * x4
    BY <1>2 DEF x2, x3, x4, x5
  <2> QED
    BY <1>1, <2>1
<1>9. Field!IsPowers(Pow, 5)
  BY <1>1, <1>7, <1>8 DEF Field!IsPowers
<1> DEFINE d2 == Delta_two
           d3 == Delta_three
           d4 == Delta_four
           d5 == Delta_five
<1>10. d2 = Times(x, x) /\ d3 = Times(x, d2) /\ d4 = Times(d2, d2) /\ d5 = Times(d2, d3)
  BY DEF Delta_two, Delta_three, Delta_four, Delta_five, x
<1> HIDE DEF d2, d3, d4, d5
<1>11. d2 \in Int /\ Mod(d2) = Mod(x2)
  BY <1>2, <1>10, TimesRing DEF x2
<1>12. d3 \in Int /\ Mod(d3) = Mod(x3)
  <2>1. Times(x, d2) = Times(x, x2)
    BY <1>2, <1>11, Congruent
  <2>2. Times(x, x2) \in Int /\ Mod(Times(x, x2)) = Mod(x3)
    BY <1>2, TimesRing DEF x3
  <2> QED
    BY <1>10, <2>1, <2>2
<1>13. d4 \in Int /\ Mod(d4) = Mod(x4)
  <2>1. Times(d2, d2) = Times(x2, x2)
    BY <1>2, <1>11, Congruent
  <2>2. Times(x2, x2) \in Int /\ Mod(Times(x2, x2)) = Mod(x2 * x2)
    BY <1>2, TimesRing
  <2>3. x2 * x2 = x4
    <3>1. (x * x) * x2 = x * (x * x2)
      BY <1>2, SMT
    <3>2. x2 = x * x /\ x * (x * x2) = x4
      BY DEF x2, x3, x4
    <3> QED
      BY <3>1, <3>2, Zenon
  <2> QED
    BY <1>10, <2>1, <2>2, <2>3
<1>14. d5 \in Int /\ Mod(d5) = Mod(x5)
  <2>1. Times(d2, d3) = Times(x2, x3)
    BY <1>2, <1>3, <1>11, <1>12, Congruent
  <2>2. Times(x2, x3) \in Int /\ Mod(Times(x2, x3)) = Mod(x2 * x3)
    BY <1>2, <1>3, TimesRing
  <2>3. x2 * x3 = x5
    BY <1>2, <1>3, <1>4, SMT DEF x2, x4, x5
  <2> QED
    BY <1>10, <2>1, <2>2, <2>3
<1> QED
  BY <1>1, <1>7, <1>9, <1>11, <1>12, <1>13, <1>14 DEF x, d2, d3, d4, d5

Eval(d, p) == Field!Ev(d, Pow, p)

\* p is a polynomial of degree d, x its value at Delta and t its leading coefficient.
HasValue(p, d, x, t) ==
  /\ p \in [0 .. d -> F] /\ x \in Int /\ t \in Int
  /\ Mod(Eval(d, p)) = Mod(x)
  /\ Mod(p[d]) = Mod(t)

\* What a polynomial with a value is, as a row of integers.
LEMMA ValueTypes ==
  ASSUME NEW d \in Nat, d <= 5, Delta \in Int, NEW p, NEW x, NEW t, HasValue(p, d, x, t)
  PROVE  /\ p \in [0 .. d -> Int] /\ p \in [0 .. d -> F] /\ x \in Int /\ t \in Int
         /\ Eval(d, p) \in Int /\ p[d] \in Int
         /\ Mod(Eval(d, p)) = Mod(x) /\ Mod(p[d]) = Mod(t)
<1>1. p \in [0 .. d -> F]
  BY DEF HasValue
<1>2. p \in [0 .. d -> Int]
  BY <1>1, Ranges
<1>3. Eval(d, p) \in Int
  <2>1. Field!IsPowers(Pow, 5) /\ 5 \in Nat
    BY Powers
  <2> QED
    BY <1>2, <2>1, Field!EvInt DEF Eval
<1> QED
  BY <1>1, <1>2, <1>3 DEF HasValue

\* The value and the leading coefficient are known up to Prime.
LEMMA Rebase ==
  ASSUME NEW d, NEW p, NEW x, NEW t, HasValue(p, d, x, t),
         NEW y \in Int, NEW u \in Int, Mod(x) = Mod(y), Mod(t) = Mod(u)
  PROVE  HasValue(p, d, y, u)
BY DEF HasValue

\* A row whose coefficients are reduced keeps its value.
LEMMA ReducedRow ==
  ASSUME NEW d \in Nat, d <= 5, Delta \in Int, NEW c \in [0 .. d -> Int],
         NEW x \in Int, NEW t \in Int, Mod(Eval(d, c)) = Mod(x), Mod(c[d]) = Mod(t)
  PROVE  HasValue([i \in 0 .. d |-> Mod(c[i])], d, x, t)
<1> DEFINE r == [i \in 0 .. d |-> Mod(c[i])]
<1>1. \A i \in 0 .. d : r[i] \in F /\ r[i] \in Int /\ Mod(r[i]) = Mod(c[i])
  BY Residues
<1>2. r \in [0 .. d -> F] /\ r \in [0 .. d -> Int]
  BY <1>1
<1> HIDE DEF r
<1>3. Mod(Eval(d, r)) = Mod(Eval(d, c))
  <2>1. Field!SameRow(d, r, c)
    BY <1>1, SameResidue DEF Field!SameRow
  <2>2. Field!IsPowers(Pow, 5) /\ 5 \in Nat /\ Prime \in Nat \ {0}
    BY Powers, SameResidue
  <2>3. Field!Res(Field!Ev(d, Pow, r)) = Field!Res(Field!Ev(d, Pow, c))
    <3>1. Field!SameValue(d, Pow, r, c)
      BY <1>2, <2>1, <2>2, Field!EvCongruent
    <3> QED
      BY <3>1 DEF Field!SameValue
  <2> QED
    BY <2>3, SameResidue DEF Eval
<1>4. Mod(r[d]) = Mod(t)
  BY <1>1
<1>5. HasValue(r, d, x, t)
  BY <1>2, <1>3, <1>4 DEF HasValue
<1> QED
  BY <1>5 DEF r

\* The degree of a row of coefficients.
LEMMA DegreeOf ==
  ASSUME NEW d \in Nat, NEW S, NEW p \in [0 .. d -> S]
  PROVE  Degree(p) = d /\ DOMAIN p = 0 .. d
<1>1. DOMAIN p = 0 .. d
  OBVIOUS
<1>2. d \in 0 .. d /\ \A y \in 0 .. d : d >= y
  OBVIOUS
<1>3. \A x \in 0 .. d : (\A y \in 0 .. d : x >= y) => x = d
  <2> SUFFICES ASSUME NEW x \in 0 .. d, \A y \in 0 .. d : x >= y PROVE x = d
    OBVIOUS
  <2>1. x >= d /\ x <= d
    BY <1>2
  <2> QED
    BY <2>1
<1>4. Max(0 .. d) = d
  BY <1>2, <1>3 DEF Max
<1> QED
  BY <1>1, <1>4 DEF Degree

\* The loops of the model are those of the lemmas.
LEMMA SameTotal == \A t, n : Total(t, n) = Field!Total(t, n)
BY DEF Total, Field!Total

\* The value of a product is the product of the values.
LEMMA MulValue ==
  ASSUME Delta \in Int, NEW d \in Nat, NEW e \in Nat, NEW f \in Nat, f = d + e, f <= 5,
         NEW p, NEW q1, NEW x, NEW y, NEW t, NEW u, HasValue(p, d, x, t), HasValue(q1, e, y, u)
  PROVE  HasValue(Mul(p, q1), f, Times(x, y), Times(t, u))
<1> DEFINE c == Field!Convolve(f, d, e, p, q1, d)
<1>1. d <= 5 /\ e <= 5
  OBVIOUS
<1>2. /\ p \in [0 .. d -> Int] /\ x \in Int /\ t \in Int /\ p[d] \in Int /\ Eval(d, p) \in Int
      /\ Mod(Eval(d, p)) = Mod(x) /\ Mod(p[d]) = Mod(t)
  BY <1>1, ValueTypes
<1>3. /\ q1 \in [0 .. e -> Int] /\ y \in Int /\ u \in Int /\ q1[e] \in Int /\ Eval(e, q1) \in Int
      /\ Mod(Eval(e, q1)) = Mod(y) /\ Mod(q1[e]) = Mod(u)
  BY <1>1, ValueTypes
<1>4. c \in [0 .. f -> Int]
  <2>1. d \in 0 .. d
    OBVIOUS
  <2> QED
    BY <1>2, <1>3, <2>1, Field!ConvolveStep
<1>5. Mul(p, q1) = [k \in 0 .. f |-> Mod(c[k])]
  <2>1. Degree(p) = d /\ DOMAIN p = 0 .. d /\ Degree(q1) = e /\ DOMAIN q1 = 0 .. e
    BY <1>2, <1>3, DegreeOf
  <2>2. ASSUME NEW k \in 0 .. f, NEW i \in 0 .. d
        PROVE  Coef(q1, k - i) = Field!Place(f, i, e, q1)[k]
    <3>1. k - i \in 0 .. e <=> k \in i .. (i + e)
      OBVIOUS
    <3>2. Coef(q1, k - i) = IF k - i \in 0 .. e THEN q1[k - i] ELSE 0
      BY <2>1 DEF Coef
    <3>3. Field!Place(f, i, e, q1)[k] = IF k \in i .. (i + e) THEN q1[k - i] ELSE 0
      BY DEF Field!Place
    <3> QED
      BY <3>1, <3>2, <3>3
  <2>3. ASSUME NEW k \in 0 .. f
        PROVE  Total([i \in 0 .. d |-> p[i] * Coef(q1, k - i)], d) = c[k]
    <3> DEFINE g == [i \in 0 .. d |-> p[i] * Coef(q1, k - i)]
               h == [i \in 0 .. d |-> p[i] * Field!Place(f, i, e, q1)[k]]
    <3>1. g = h
      BY <2>2, Zenon
    <3>2. c[k] = Field!Total(h, d)
      BY DEF Field!Convolve
    <3> HIDE DEF g, h
    <3>3. Total(g, d) = c[k]
      BY <3>1, <3>2, SameTotal, Zenon
    <3> QED
      BY <3>3 DEF g
  <2>4. Mul(p, q1) = [k \in 0 .. f |-> Mod(Total([i \in 0 .. d |-> p[i] * Coef(q1, k - i)], d))]
    BY <2>1 DEF Mul
  <2> HIDE DEF c
  <2> QED
    BY <2>3, <2>4
<1>6. Mod(Eval(f, c)) = Mod(Times(x, y)) /\ Times(x, y) \in Int
  <2> DEFINE a == Eval(d, p)
             b == Eval(e, q1)
  <2>1. Field!IsPowers(Pow, 5) /\ 5 \in Nat
    BY Powers
  <2>2. Eval(f, c) = a * b
    <3>1. Field!ProductValue(f, d, e, Pow, p, q1)
      BY <1>2, <1>3, <2>1, Field!EvConvolve
    <3> QED
      BY <3>1 DEF Field!ProductValue, Eval
  <2> HIDE DEF a, b
  <2>3. Times(a, b) = Times(x, y)
    BY <1>2, <1>3, Congruent DEF a, b
  <2>4. Mod(Times(a, b)) = Mod(a * b) /\ Times(x, y) \in Int
    BY <1>2, <1>3, TimesRing DEF a, b
  <2> QED
    BY <2>2, <2>3, <2>4
<1>7. Mod(c[f]) = Mod(Times(t, u)) /\ Times(t, u) \in Int
  <2> DEFINE a == p[d]
             b == q1[e]
  <2>1. c[f] = a * b
    <3>1. /\ d \in Nat /\ e \in Nat /\ f \in Nat /\ f = d + e
          /\ p \in [0 .. d -> Int] /\ q1 \in [0 .. e -> Int]
      BY <1>2, <1>3
    <3> HIDE DEF a, b, c
    <3>2. Field!Convolve(f, d, e, p, q1, d)[f] = p[d] * q1[e]
      BY <3>1, Field!ConvolveTop, ZenonT(40)
    <3> QED
      BY <3>2, Zenon DEF a, b, c
  <2> HIDE DEF a, b
  <2>2. Times(a, b) = Times(t, u)
    BY <1>2, <1>3, Congruent DEF a, b
  <2>3. Mod(Times(a, b)) = Mod(a * b) /\ Times(t, u) \in Int
    BY <1>2, <1>3, TimesRing DEF a, b
  <2> QED
    BY <2>1, <2>2, <2>3
<1> HIDE DEF c
<1>8. HasValue([k \in 0 .. f |-> Mod(c[k])], f, Times(x, y), Times(t, u))
  BY <1>4, <1>6, <1>7, ReducedRow
<1> QED
  BY <1>5, <1>8

\* A constant is its own value and its own leading coefficient.
LEMMA ScalarValue ==
  ASSUME Delta \in Int, NEW s \in F
  PROVE  HasValue(ScalarPoly(s), 0, s, s)
<1> DEFINE p == ScalarPoly(s)
<1>1. p \in [0 .. 0 -> F] /\ p[0] = s /\ p \in [0 .. 0 -> Int] /\ s \in Int
  BY Ranges DEF ScalarPoly
<1>2. Eval(0, p) = s
  <2> DEFINE t == [i \in 0 .. 0 |-> Pow[i] * p[i]]
  <2>1. t[0] = 1 * s
    BY <1>1, Powers
  <2>2. t[0] = s
    BY <1>1, <2>1
  <2>3. t \in [0 .. 0 -> Int]
    <3>1. \A i \in 0 .. 0 : t[i] \in Int
      <4> SUFFICES ASSUME NEW i \in 0 .. 0 PROVE t[i] \in Int
        OBVIOUS
      <4>1. i = 0
        OBVIOUS
      <4> HIDE DEF t
      <4> QED
        BY <1>1, <2>2, <4>1
    <3> QED
      BY <3>1
  <2> HIDE DEF t
  <2>4. Field!Total(t, 0) = t[0]
    <3>1. 0 \in Nat /\ 0 \in 0 .. 0 /\ \A i \in 0 .. 0 : t[i] \in Int
      BY <2>3
    <3> QED
      BY <3>1, Field!TotalStep
  <2> QED
    BY <2>2, <2>4 DEF Eval, Field!Ev, t
<1> QED
  BY <1>1, <1>2 DEF HasValue

\* Lifting a polynomial by g degrees multiplies its value by a power of Delta.
LEMMA ShiftValue ==
  ASSUME Delta \in Int, NEW d \in Nat, NEW g \in Nat, NEW e \in Nat, e = g + d, e <= 5,
         NEW p, NEW x, NEW t, HasValue(p, d, x, t)
  PROVE  HasValue(shift_up(e, p), e, Pow[g] * x, t)
<1> DEFINE r == Field!Place(e, g, d, p)
<1>1. /\ p \in [0 .. d -> Int] /\ p \in [0 .. d -> F] /\ x \in Int /\ t \in Int /\ p[d] \in Int
      /\ Eval(d, p) \in Int /\ Mod(Eval(d, p)) = Mod(x) /\ Mod(p[d]) = Mod(t)
  <2>1. d <= 5
    OBVIOUS
  <2> QED
    BY <2>1, ValueTypes
<1>2. r \in [0 .. e -> Int]
  BY <1>1, Field!PlaceInt
<1>3. Degree(p) = d /\ DOMAIN p = 0 .. d
  BY <1>1, DegreeOf
<1>4. shift_up(e, p) = [i \in 0 .. e |-> Mod(r[i])]
  <2>1. e - d = g
    OBVIOUS
  <2>2. ASSUME NEW i \in 0 .. e
        PROVE  Coef(p, i - g) = Mod(r[i])
    <3>1. r[i] = IF i \in g .. (g + d) THEN p[i - g] ELSE 0
      BY DEF Field!Place
    <3>2. Coef(p, i - g) = IF i - g \in 0 .. d THEN p[i - g] ELSE 0
      BY <1>3 DEF Coef
    <3>3. i - g \in 0 .. d <=> i \in g .. (g + d)
      OBVIOUS
    <3> HIDE DEF r
    <3>4. CASE i - g \in 0 .. d
      <4>1. p[i - g] \in F
        BY <1>1, <3>4
      <4>2. Mod(p[i - g]) = p[i - g]
        BY <4>1, Residues
      <4> QED
        BY <3>1, <3>2, <3>3, <3>4, <4>2
    <3>5. CASE i - g \notin 0 .. d
      BY <3>1, <3>2, <3>3, <3>5, Residues
    <3> QED
      BY <3>4, <3>5
  <2>3. shift_up(e, p) = [i \in 0 .. e |-> Coef(p, i - g)]
    BY <1>3, <2>1 DEF shift_up
  <2> HIDE DEF r
  <2> QED
    BY <2>2, <2>3
<1>5. Pow[g] \in Int /\ Pow[g] * x \in Int /\ Mod(Eval(e, r)) = Mod(Pow[g] * x)
  <2> DEFINE a == Pow[g]
             b == Eval(d, p)
  <2>1. Field!IsPowers(Pow, 5) /\ 5 \in Nat /\ Pow \in [0 .. 5 -> Int]
    BY Powers
  <2>2. Eval(e, r) = a * b
    <3>1. g + d <= e
      OBVIOUS
    <3>2. Field!PlaceValue(e, g, d, Pow, p)
      BY <1>1, <2>1, <3>1, Field!EvPlace
    <3> QED
      BY <3>2 DEF Eval, Field!PlaceValue
  <2>3. a \in Int /\ b \in Int
    BY <1>1, <2>1
  <2> HIDE DEF a, b, r
  <2>4. Times(a, b) = Times(a, x)
    BY <1>1, <2>3, Congruent DEF b
  <2>5. Mod(Times(a, b)) = Mod(a * b) /\ Mod(Times(a, x)) = Mod(a * x)
    BY <1>1, <2>3, TimesRing
  <2>6. a * x \in Int
    BY <1>1, <2>3, SMT
  <2> QED
    BY <2>2, <2>3, <2>4, <2>5, <2>6 DEF a
<1>6. r[e] = p[d]
  <2>1. e \in 0 .. e /\ e \in g .. (g + d) /\ e - g = d
    OBVIOUS
  <2> QED
    BY <2>1 DEF Field!Place
<1> DEFINE y == Pow[g] * x
<1> HIDE DEF r, y
<1>7. HasValue([i \in 0 .. e |-> Mod(r[i])], e, y, t)
  <2>1. y \in Int /\ Mod(Eval(e, r)) = Mod(y) /\ Mod(r[e]) = Mod(t)
    BY <1>1, <1>5, <1>6 DEF y
  <2> QED
    BY <1>1, <1>2, <2>1, ReducedRow
<1> QED
  BY <1>4, <1>7 DEF y

\* p plus k times r, reduced.
Linear(d, p, k, r) == [i \in 0 .. d |-> Mod(p[i] + k * r[i])]

\* The value of p plus k times a row r.
LEMMA LinearValue ==
  ASSUME Delta \in Int, NEW d \in Nat, d <= 5, NEW p, NEW x, NEW t, HasValue(p, d, x, t),
         NEW k \in Int, NEW r \in [0 .. d -> Int], NEW y \in Int, NEW u \in Int,
         Mod(Eval(d, r)) = Mod(y), Mod(r[d]) = Mod(u),
         NEW z \in Int, NEW v \in Int, z = x + k * y, v = t + k * u
  PROVE  HasValue(Linear(d, p, k, r), d, z, v)
<1> DEFINE c == [i \in 0 .. d |-> p[i] + k * r[i]]
           a == Eval(d, p)
           b == Eval(d, r)
           m == p[d]
           n == r[d]
<1>1. /\ p \in [0 .. d -> Int] /\ x \in Int /\ t \in Int /\ m \in Int /\ a \in Int
      /\ Mod(a) = Mod(x) /\ Mod(m) = Mod(t)
  BY ValueTypes
<1>2. Field!IsPowers(Pow, 5) /\ 5 \in Nat
  BY Powers
<1>3. c \in [0 .. d -> Int] /\ \A i \in 0 .. d : c[i] = p[i] + k * r[i]
  <2>1. ASSUME NEW i \in 0 .. d
        PROVE  p[i] + k * r[i] \in Int
    <3> DEFINE e == p[i]
               f == r[i]
    <3>1. e \in Int /\ f \in Int
      BY <1>1
    <3> HIDE DEF e, f
    <3>2. e + k * f \in Int
      BY <3>1, SMT
    <3> QED
      BY <3>2 DEF e, f
  <2> QED
    BY <2>1
<1> HIDE DEF c
<1>4. b \in Int /\ n \in Int
  BY <1>2, Field!EvInt DEF Eval
<1>5. Eval(d, c) = a + k * b
  <2>1. Field!IsSum(d, c, p, k, r)
    BY <1>3 DEF Field!IsSum
  <2>2. Field!IsValueSum(d, Pow, c, p, k, r)
    BY <1>1, <1>2, <1>3, <2>1, Field!EvSum
  <2> QED
    BY <2>2 DEF Field!IsValueSum, Eval
<1>6. c[d] = m + k * n
  BY <1>3
<1> HIDE DEF a, b, m, n
<1>7. ASSUME NEW i1 \in Int, NEW i2 \in Int, NEW j1 \in Int, NEW j2 \in Int,
             Mod(i1) = Mod(i2), Mod(j1) = Mod(j2)
      PROVE  Mod(i1 + k * j1) = Mod(i2 + k * j2)
  <2> DEFINE g1 == k * j1
             g2 == k * j2
  <2>1. g1 \in Int /\ g2 \in Int
    BY SMT
  <2>2. Times(k, j1) = Times(k, j2)
    BY <1>7, Congruent
  <2>3. Mod(g1) = Mod(g2)
    BY <2>2 DEF Times
  <2> HIDE DEF g1, g2
  <2>4. Mod(i1 + g1) = Mod(i2 + g2)
    BY <1>7, <2>1, <2>3, CongruentSum
  <2> QED
    BY <2>4 DEF g1, g2
<1>8. Mod(Eval(d, c)) = Mod(z)
  <2>1. Mod(b) = Mod(y)
    BY DEF b
  <2> QED
    BY <1>1, <1>4, <1>5, <1>7, <2>1
<1>9. Mod(c[d]) = Mod(v)
  <2>1. Mod(n) = Mod(u)
    BY DEF n
  <2> QED
    BY <1>1, <1>4, <1>6, <1>7, <2>1
<1>10. HasValue([i \in 0 .. d |-> Mod(c[i])], d, z, v)
  BY <1>3, <1>8, <1>9, ReducedRow
<1>11. [i \in 0 .. d |-> Mod(c[i])] = [i \in 0 .. d |-> Mod(p[i] + k * r[i])]
  BY <1>3, Zenon
<1> QED
  BY <1>10, <1>11 DEF Linear

\* A polynomial of lower degree, as a row of the higher one.
LEMMA PaddedValue ==
  ASSUME Delta \in Int, NEW d \in Nat, d <= 5, NEW e \in Nat, e <= d,
         NEW p, NEW x, NEW t, HasValue(p, e, x, t)
  PROVE  LET r == [i \in 0 .. d |-> Coef(p, i)] IN
         /\ r \in [0 .. d -> Int] /\ Mod(Eval(d, r)) = Mod(x)
         /\ r[d] = IF e = d THEN p[d] ELSE 0
<1> DEFINE r == [i \in 0 .. d |-> Coef(p, i)]
           s == Field!Place(d, 0, e, p)
<1>1. /\ p \in [0 .. e -> Int] /\ x \in Int /\ Eval(e, p) \in Int /\ Mod(Eval(e, p)) = Mod(x)
  BY ValueTypes
<1>2. DOMAIN p = 0 .. e
  BY <1>1
<1>3. r = s
  <2>1. ASSUME NEW i \in 0 .. d
        PROVE  Coef(p, i) = IF i \in 0 .. (0 + e) THEN p[i - 0] ELSE 0
    <3>1. 0 + e = e /\ i - 0 = i
      OBVIOUS
    <3> QED
      BY <1>2, <3>1 DEF Coef
  <2> QED
    BY <2>1 DEF Field!Place
<1>4. s \in [0 .. d -> Int] /\ Eval(d, s) = Eval(e, p)
  <2>1. Field!IsPowers(Pow, 5) /\ 5 \in Nat /\ Pow[0] = 1 /\ 0 \in Nat /\ 0 + e <= d
    BY Powers
  <2>2. s \in [0 .. d -> Int]
    BY <1>1, <2>1, Field!PlaceInt
  <2>3. Field!PlaceValue(d, 0, e, Pow, p)
    BY <1>1, <2>1, Field!EvPlace
  <2>4. Eval(d, s) = Pow[0] * Eval(e, p)
    BY <2>3 DEF Field!PlaceValue, Eval
  <2> HIDE DEF s
  <2> QED
    BY <1>1, <2>1, <2>2, <2>4
<1>5. r[d] = IF e = d THEN p[d] ELSE 0
  <2>1. d \in 0 .. e <=> e = d
    OBVIOUS
  <2> QED
    BY <1>2, <2>1 DEF Coef
<1> HIDE DEF r, s
<1>6. r \in [0 .. d -> Int] /\ Mod(Eval(d, r)) = Mod(x) /\ r[d] = IF e = d THEN p[d] ELSE 0
  BY <1>1, <1>3, <1>4, <1>5
<1> QED
  BY <1>6 DEF r

\* The sum of two polynomials; one of lower degree leaves the leading coefficient alone.
LEMMA PlusValue ==
  ASSUME Delta \in Int, NEW d \in Nat, d <= 5, NEW e \in Nat, e <= d,
         NEW p, NEW x, NEW t, HasValue(p, d, x, t), NEW q1, NEW y, NEW u, HasValue(q1, e, y, u)
  PROVE  HasValue(Plus(p, q1), d, x + y, IF e = d THEN t + u ELSE t)
<1> DEFINE r == [i \in 0 .. d |-> Coef(q1, i)]
           w == IF e = d THEN u ELSE 0
           z == x + y
           v == IF e = d THEN t + u ELSE t
           k == 1
<1>1. p \in [0 .. d -> Int] /\ x \in Int /\ t \in Int /\ y \in Int /\ u \in Int /\ Mod(q1[e]) = Mod(u)
  BY ValueTypes
<1>2. /\ r \in [0 .. d -> Int] /\ Mod(Eval(d, r)) = Mod(y)
      /\ r[d] = IF e = d THEN q1[d] ELSE 0
  BY PaddedValue
<1>3. Plus(p, q1) = Linear(d, p, k, r)
  <2>1. ASSUME NEW i \in 0 .. d
        PROVE  Mod(p[i] + Coef(q1, i)) = Mod(p[i] + 1 * r[i])
    <3>1. r[i] = Coef(q1, i) /\ r[i] \in Int
      BY <1>2
    <3> HIDE DEF r
    <3>2. 1 * r[i] = r[i]
      BY <3>1
    <3> QED
      BY <3>1, <3>2
  <2>2. DOMAIN p = 0 .. d
    BY <1>1
  <2> HIDE DEF r
  <2> QED
    BY <2>1, <2>2 DEF Plus, Linear
<1>4. Mod(r[d]) = Mod(w) /\ w \in Int /\ z \in Int /\ v \in Int /\ z = x + 1 * y /\ v = t + 1 * w
  <2> HIDE DEF r
  <2>1. Mod(r[d]) = Mod(w) /\ w \in Int
    <3>1. CASE e = d
      BY <1>1, <1>2, <3>1
    <3>2. CASE e # d
      BY <1>2, <3>2
    <3> QED
      BY <3>1, <3>2
  <2>2. z \in Int /\ z = x + 1 * y
    BY <1>1
  <2>3. v \in Int /\ v = t + 1 * w
    BY <1>1
  <2> QED
    BY <2>1, <2>2, <2>3
<1>6. k \in Int /\ z = x + k * y /\ v = t + k * w
  BY <1>4
<1> HIDE DEF r, w, z, v, k
<1>5. HasValue(Linear(d, p, k, r), d, z, v)
  BY <1>1, <1>2, <1>4, <1>6, LinearValue
<1> QED
  BY <1>3, <1>5 DEF z, v

\* The difference of two polynomials of one degree.
LEMMA MinusValue ==
  ASSUME Delta \in Int, NEW d \in Nat, d <= 5,
         NEW p, NEW x, NEW t, HasValue(p, d, x, t), NEW q1, NEW y, NEW u, HasValue(q1, d, y, u)
  PROVE  HasValue(Minus(p, q1), d, x - y, t - u)
<1> DEFINE z == x - y
           v == t - u
           k == -1
<1>1. /\ p \in [0 .. d -> Int] /\ x \in Int /\ t \in Int
      /\ q1 \in [0 .. d -> Int] /\ y \in Int /\ u \in Int /\ Mod(Eval(d, q1)) = Mod(y) /\ Mod(q1[d]) = Mod(u)
  BY ValueTypes
<1>2. Minus(p, q1) = Linear(d, p, k, q1)
  <2>1. ASSUME NEW i \in 0 .. d
        PROVE  Mod(p[i] - Coef(q1, i)) = Mod(p[i] + k * q1[i])
    <3> DEFINE a == p[i]
               b == q1[i]
    <3>1. Coef(q1, i) = b /\ a \in Int /\ b \in Int
      BY <1>1 DEF Coef
    <3> HIDE DEF a, b
    <3>2. a - b = a + k * b
      BY <3>1
    <3> QED
      BY <3>1, <3>2 DEF a, b
  <2>2. DOMAIN p = 0 .. d
    BY <1>1
  <2> HIDE DEF k
  <2> QED
    BY <2>1, <2>2 DEF Minus, Linear
<1>3. z \in Int /\ v \in Int /\ k \in Int /\ z = x + k * y /\ v = t + k * u
  BY <1>1
<1> HIDE DEF z, v, k
<1>4. HasValue(Linear(d, p, k, q1), d, z, v)
  BY <1>1, <1>3, LinearValue
<1> QED
  BY <1>2, <1>4 DEF z, v

\* Sums of congruent numbers are congruent.
LEMMA CongruentTotals ==
  ASSUME NEW n \in Nat, NEW s \in [0 .. n -> Int], NEW t \in [0 .. n -> Int],
         \A j \in 0 .. n : Mod(s[j]) = Mod(t[j])
  PROVE  Mod(Total(s, n)) = Mod(Total(t, n)) /\ Total(s, n) \in Int /\ Total(t, n) \in Int
<1>1. Field!SameRow(n, s, t)
  BY SameResidue DEF Field!SameRow
<1>2. Field!Res(Field!Total(s, n)) = Field!Res(Field!Total(t, n))
  BY <1>1, SameResidue, Field!SumCongruent DEF Field!SameRow
<1>3. Field!Total(s, n) \in Int /\ Field!Total(t, n) \in Int
  BY Field!SumInt
<1> QED
  BY <1>2, <1>3, SameTotal, SameResidue

\* The polynomials row[0] to row[n], of degree d, and what they are worth.
HaveValues(n, row, d, xs, ts) ==
  /\ xs \in [0 .. n -> Int] /\ ts \in [0 .. n -> Int]
  /\ \A m \in 0 .. n : HasValue(row[m], d, xs[m], ts[m])

\* The sum a loop adds up.
LEMMA AddUpValue ==
  ASSUME Delta \in Int, NEW d \in Nat, d <= 5, NEW n \in Nat, NEW row, NEW xs, NEW ts,
         HaveValues(n, row, d, xs, ts)
  PROVE  HasValue(AddUp(d, row, n), d, Total(xs, n), Total(ts, n))
<1> DEFINE c == Field!RowSum(d, n, row, n)
           a == [m \in 0 .. n |-> Eval(d, row[m])]
           b == [m \in 0 .. n |-> row[m][d]]
<1>1. xs \in [0 .. n -> Int] /\ ts \in [0 .. n -> Int]
  BY DEF HaveValues
<1>2. ASSUME NEW m \in 0 .. n
      PROVE  /\ row[m] \in [0 .. d -> Int] /\ Eval(d, row[m]) \in Int /\ row[m][d] \in Int
             /\ Mod(Eval(d, row[m])) = Mod(xs[m]) /\ Mod(row[m][d]) = Mod(ts[m])
  <2>1. HasValue(row[m], d, xs[m], ts[m])
    BY DEF HaveValues
  <2> QED
    BY <2>1, ValueTypes
<1>3. a \in [0 .. n -> Int] /\ b \in [0 .. n -> Int]
  BY <1>2
<1>4. Mod(Total(a, n)) = Mod(Total(xs, n)) /\ Total(xs, n) \in Int
  <2>1. \A m \in 0 .. n : Mod(a[m]) = Mod(xs[m])
    BY <1>2
  <2> HIDE DEF a
  <2> QED
    BY <1>1, <1>3, <2>1, CongruentTotals
<1>5. Mod(Total(b, n)) = Mod(Total(ts, n)) /\ Total(ts, n) \in Int
  <2>1. \A m \in 0 .. n : Mod(b[m]) = Mod(ts[m])
    BY <1>2
  <2> HIDE DEF b
  <2> QED
    BY <1>1, <1>3, <2>1, CongruentTotals
<1>6. Field!AreRows(d, n, row)
  BY <1>2 DEF Field!AreRows
<1>7. c \in [0 .. d -> Int]
  <2>1. n \in 0 .. n
    OBVIOUS
  <2> QED
    BY <1>6, <2>1, Field!RowSumStep
<1>8. Eval(d, c) = Total(a, n)
  <2>1. Field!IsPowers(Pow, 5) /\ 5 \in Nat
    BY Powers
  <2>2. Field!RowSumValue(d, Pow, n, row)
    BY <1>6, <2>1, Field!EvRowSum
  <2>3. Eval(d, c) = Field!Total([k \in 0 .. n |-> Field!Ev(d, Pow, row[k])], n)
    BY <2>2 DEF Field!RowSumValue, Eval
  <2>4. a = [k \in 0 .. n |-> Field!Ev(d, Pow, row[k])]
    BY DEF Eval
  <2> HIDE DEF a, c
  <2> QED
    BY <2>3, <2>4, SameTotal
<1>9. c[d] = Total(b, n)
  <2>1. c[d] = Field!Total(b, n)
    BY DEF Field!RowSum
  <2> HIDE DEF b, c
  <2> QED
    BY <2>1, SameTotal
<1>10. AddUp(d, row, n) = [i \in 0 .. d |-> Mod(c[i])]
  <2>1. ASSUME NEW i \in 0 .. d
        PROVE  Total([m \in 0 .. n |-> row[m][i]], n) = c[i]
    <3>1. c[i] = Field!Total([m \in 0 .. n |-> row[m][i]], n)
      BY DEF Field!RowSum
    <3> DEFINE g == [m \in 0 .. n |-> row[m][i]]
    <3> HIDE DEF g, c
    <3>2. Total(g, n) = Field!Total(g, n)
      BY SameTotal
    <3> QED
      BY <3>1, <3>2 DEF g
  <2> HIDE DEF c
  <2> QED
    BY <2>1 DEF AddUp
<1> HIDE DEF a, b, c
<1>11. HasValue([i \in 0 .. d |-> Mod(c[i])], d, Total(xs, n), Total(ts, n))
  <2> DEFINE x == Total(xs, n)
             t == Total(ts, n)
  <2>1. x \in Int /\ t \in Int /\ Mod(Eval(d, c)) = Mod(x) /\ Mod(c[d]) = Mod(t)
    BY <1>4, <1>5, <1>8, <1>9
  <2> HIDE DEF x, t
  <2>2. HasValue([i \in 0 .. d |-> Mod(c[i])], d, x, t)
    BY <1>7, <2>1, ReducedRow
  <2> QED
    BY <2>2 DEF x, t
<1> QED
  BY <1>10, <1>11

\* A polynomial of degree one.
LEMMA LineValue ==
  ASSUME Delta \in Int, NEW p, NEW a \in Int, NEW b \in Int, NEW x \in Int, NEW t \in Int,
         p \in [{0, 1} -> F], p[0] = Mod(a), p[1] = Mod(b), Mod(x) = Mod(a + Delta * b), Mod(t) = Mod(b)
  PROVE  HasValue(p, 1, x, t)
<1> DEFINE u == [i \in 0 .. 1 |-> Pow[i] * p[i]]
           c == p[0]
           d == p[1]
<1>0. {0, 1} = 0 .. 1
  OBVIOUS
<1>1. p \in [0 .. 1 -> F] /\ c \in Int /\ d \in Int /\ c = Mod(a) /\ d = Mod(b)
  BY <1>0, Ranges
<1>2. u[0] = 1 * c /\ u[1] = Delta * d
  BY Powers
<1> HIDE DEF u, c, d
<1>3. u[0] = c /\ u[0] \in Int /\ u[1] \in Int
  BY <1>1, <1>2, SMT
<1>4. Eval(1, p) = c + Delta * d
  <2>1. 1 \in Nat /\ 0 \in 0 .. 1 /\ 1 \in 0 .. 1 /\ \A i \in 0 .. 1 : u[i] \in Int
    BY <1>3
  <2>2. Field!Total(u, 0) = u[0] /\ Field!Total(u, 1) = Field!Total(u, 1 - 1) + u[1]
    BY <2>1, Field!TotalStep
  <2>3. Field!Total(u, 1) = u[0] + u[1]
    BY <2>2
  <2>4. Eval(1, p) = Field!Total(u, 1)
    BY DEF Eval, Field!Ev, u
  <2> QED
    BY <1>2, <1>3, <2>3, <2>4
<1>5. Mod(c + Delta * d) = Mod(a + Delta * b)
  <2> DEFINE g == Delta * d
             h == Delta * b
  <2>1. g \in Int /\ h \in Int
    BY <1>1, SMT
  <2>0. Mod(Delta) = Mod(Delta) /\ Mod(d) = Mod(b)
    BY <1>1, Residues
  <2>2. Times(Delta, d) = Times(Delta, b)
    <3> HIDE DEF g, h
    <3> QED
      BY <1>1, <2>0, CongruentTimes
  <2>3. Mod(g) = Mod(h) /\ Mod(c) = Mod(a)
    BY <1>1, <2>2, Residues DEF Times
  <2> HIDE DEF g, h
  <2>4. Mod(c + g) = Mod(a + h)
    <3>1. c \in Int
      BY <1>1
    <3> QED
      BY <2>1, <2>3, <3>1, CongruentSum
  <2> QED
    BY <2>4 DEF g, h
<1>6. Mod(d) = Mod(t)
  BY <1>1, Residues
<1> QED
  BY <1>1, <1>4, <1>5, <1>6 DEF HasValue, d

----------------------------------------------------------------------------
(* The two sides' values, position by position.                            *)

\* What holds when the verifier decides, unless it was the correlations that were changed.
Bound == /\ Given /\ commitment = Polynomials
         /\ Delta = Combine(hi) /\ \A j \in Pos : key[j] = AtDelta(j)
         /\ scalars \in Scalars

\* Combined values are residues.
LEMMA CombineType ==
  ASSUME Given
  PROVE  /\ Combine(hi) \in Int
         /\ \A j \in Pos : MacOf(ui, j) \in F /\ MacOf(ui, j) \in Int
<1>1. \A x \in [I -> Int] : Combine(x) \in F /\ Combine(x) \in Int
  BY SumTypes, Products, Residues
<1> QED
  BY <1>1, RowTypes DEF MacOf

\* Every committed value's polynomial has the key as its value and the value on top.
LEMMA PositionValue ==
  ASSUME Bound, NEW j \in Pos
  PROVE  /\ HasValue(commitment[j], 1, key[j], Committed(j))
         /\ Delta \in Int /\ key[j] \in Int /\ Committed(j) \in F /\ Committed(j) \in Int
<1> DEFINE p == commitment[j]
           a == MacOf(ui, j)
           b == Committed(j)
           x == a + Delta * b
<1>1. Delta \in Int /\ a \in F /\ a \in Int /\ b \in F /\ b \in Int
  BY CombineType, GivenTypes DEF Bound
<1>2. p = [d \in {0, 1} |-> IF d = 1 THEN b ELSE a]
  BY DEF Bound, Polynomials
<1>3. p \in [{0, 1} -> F] /\ p[0] = a /\ p[1] = b
  BY <1>1, <1>2
<1>4. key[j] = Mod(x)
  BY <1>3 DEF Bound, AtDelta
<1> HIDE DEF p, a, b
<1>5. x \in Int
  BY <1>1, SMT
<1> DEFINE k == Mod(x)
<1> HIDE DEF x
<1>6. k \in Int /\ Mod(k) = Mod(x)
  BY <1>5, Residues
<1>7. p[0] = Mod(a) /\ p[1] = Mod(b)
  BY <1>1, <1>3, Residues
<1> HIDE DEF k
<1>8. HasValue(p, 1, k, b)
  BY <1>1, <1>3, <1>6, <1>7, LineValue DEF x
<1> QED
  BY <1>1, <1>4, <1>6, <1>8 DEF p, b, k

\* K plus an offset.
LEMMA KPlusValue ==
  ASSUME Bound, NEW off \in F
  PROVE  /\ HasValue(KPlus(commitment, off), 1, KeyPlus(off), Mod(Committed(0) + off))
         /\ KeyPlus(off) \in Int /\ Mod(Committed(0) + off) \in Int
<1> DEFINE p == commitment[0]
           r == KPlus(commitment, off)
           a == p[0]
           b == Committed(0)
           s == b + off
           k == key[0]
           x == a + Delta * s
<1>1. 0 \in Pos
  BY Ranges
<1>2. HasValue(p, 1, k, b) /\ Delta \in Int /\ k \in Int /\ b \in F /\ b \in Int /\ off \in Int
  BY <1>1, PositionValue, Ranges
<1>3. p = [d \in {0, 1} |-> IF d = 1 THEN b ELSE MacOf(ui, 0)]
  BY <1>1 DEF Bound, Polynomials
<1>4. a \in F /\ a \in Int /\ p[1] = b /\ a = MacOf(ui, 0)
  BY <1>1, <1>3, CombineType, GivenTypes DEF Bound
<1>5. k = Mod(a + Delta * b)
  BY <1>1, <1>4 DEF Bound, AtDelta
<1>6. s \in Int
  BY <1>2
<1>7. r = [d \in {0, 1} |-> IF d = 1 THEN Mod(s) ELSE Mod(a + 0)]
  BY <1>4 DEF KPlus
<1> HIDE DEF p, a, b, k
<1>8. a + 0 = a
  BY <1>4
<1>9. r \in [{0, 1} -> F] /\ r[0] = Mod(a) /\ r[1] = Mod(s)
  <2> HIDE DEF s, r
  <2>1. Mod(s) \in F /\ Mod(a) \in F
    BY <1>4, <1>6, Residues
  <2> QED
    BY <1>7, <1>8, <2>1
<1> DEFINE y == KeyPlus(off)
           v == Mod(s)
<1>10. y \in Int /\ Mod(y) = Mod(x)
  <2> DEFINE g == Delta * off
             h == a + Delta * b
  <2>1. y = Mod(k + g)
    BY DEF KeyPlus, k
  <2>2. g \in Int /\ h \in Int /\ x = h + g
    BY <1>2, <1>4, SMT
  <2>3. k = Mod(h)
    BY <1>5
  <2> HIDE DEF g, h, x, y
  <2>4. Mod(k + g) = Mod(h + g)
    BY <2>2, <2>3, Reduced
  <2>5. k + g \in Int
    BY <1>2, <2>2
  <2> QED
    BY <2>1, <2>2, <2>4, <2>5, Residues
<1>11. v \in Int /\ Mod(v) = Mod(s)
  BY <1>6, Residues
<1> HIDE DEF s, r, y, v
<1>12. HasValue(r, 1, y, v)
  BY <1>2, <1>4, <1>6, <1>9, <1>10, <1>11, LineValue DEF x
<1> QED
  BY <1>10, <1>11, <1>12 DEF r, y, v, s, b

----------------------------------------------------------------------------
(* The blocks, constraint by constraint.                                   *)

\* Where the positions are.
LEMMA Layout ==
  /\ HALF = 5 /\ LEval = 10 /\ K \in Nat /\ K \in Int /\ NumScalars = 14 + K /\ NumScalars \in Nat
  /\ v_offset = 1 /\ b_offset = 11 /\ ru_pos = 11 + K /\ rv_pos = 12 + K /\ y_offset = 13 + K
  /\ a0_pos = 22 + K /\ a1_pos = 23 + K /\ c0_pos = 24 + K /\ c1_pos = 25 + K
  /\ mask_pos = 26 + K /\ check_pos = 31 + K /\ Pos = 0 .. (31 + K)
BY ZkAssumption DEF NumScalars, LEval, v_offset, b_offset, ru_pos, rv_pos, y_offset, a0_pos, a1_pos,
   c0_pos, c1_pos, mask_pos, check_pos, Pos, vole_len

\* The witness the prover committed to.
W == [j \in 0 .. (mask_pos - 1) |-> Committed(j)]

\* The constant the verifier supplies for the coefficient that is not sent.
Public(n) == CASE n = 0 -> stmt.cu
               [] n = 1 -> stmt.cv
               [] n \in Bs -> -stmt.mm[n - 2]
               [] n = 14 + K -> 1
               [] OTHER -> 0

\* The classes of constraints do not overlap.
LEMMA Classes ==
  ASSUME NEW n \in 0 .. NumScalars
  PROVE  /\ n = 0 \/ n = 1 \/ n \in Bs \/ n \in Cs \/ n \in Ys \/ n = 12 + K \/ n = 13 + K \/ n = 14 + K
         /\ n \in Bs => n # 0 /\ n # 1 /\ n # 14 + K /\ n - 2 \in 0 .. (K - 1)
         /\ n \in Cs => n # 0 /\ n # 1 /\ n \notin Bs /\ n # 14 + K /\ n - (2 + K) \in {0, 1}
         /\ n \in Ys => /\ n # 0 /\ n # 1 /\ n \notin Bs /\ n \notin Cs /\ n # 14 + K
                        /\ n - (3 + K) \in 1 .. 8 /\ n - (4 + K) = (n - (3 + K)) - 1
         /\ n = 12 + K => n # 0 /\ n # 1 /\ n \notin Bs /\ n \notin Cs /\ n \notin Ys /\ n # 14 + K
         /\ n = 13 + K => n # 0 /\ n # 1 /\ n \notin Bs /\ n \notin Cs /\ n \notin Ys /\ n # 12 + K /\ n # 14 + K
         /\ n = 14 + K => n # 0 /\ n # 1 /\ n \notin Bs /\ n \notin Cs /\ n \notin Ys /\ n # 12 + K /\ n # 13 + K
BY Layout DEF Bs, Cs, Ys

\* Which block belongs to a constraint.
LEMMA BlockOf ==
  ASSUME NEW n \in 0 .. NumScalars
  PROVE  /\ n = 0 => /\ Block(commitment, n) = CheckU(commitment) /\ VerifierBlock(n) = u_check * Delta_three
                     /\ Public(n) = stmt.cu
         /\ n = 1 => /\ Block(commitment, n) = CheckV(commitment) /\ VerifierBlock(n) = v_check * Delta_four
                     /\ Public(n) = stmt.cv
         /\ n \in Bs => /\ Block(commitment, n) = TermB(commitment, n - 2)
                        /\ VerifierBlock(n) = Delta_three * check_b(n - 2) /\ Public(n) = -stmt.mm[n - 2]
         /\ n \in Cs => /\ Block(commitment, n) = CheckC(commitment, n - (2 + K))
                        /\ VerifierBlock(n) = check_c(n - (2 + K)) /\ Public(n) = 0
         /\ n \in Ys => /\ Block(commitment, n) = CheckY(commitment, n - (3 + K))
                        /\ VerifierBlock(n) = check_y(n - (3 + K)) /\ Public(n) = 0
         /\ n = 12 + K => /\ Block(commitment, n) = CheckA0(commitment) /\ VerifierBlock(n) = check_a0
                          /\ Public(n) = 0
         /\ n = 13 + K => /\ Block(commitment, n) = CheckA1(commitment) /\ VerifierBlock(n) = check_a1
                          /\ Public(n) = 0
         /\ n = 14 + K => /\ Block(commitment, n) = CheckInv(commitment) /\ VerifierBlock(n) = check_inv * Delta
                          /\ Public(n) = 1
<1>1. CASE n = 0
  <2>1. n # 1 /\ n # 12 + K /\ n # 13 + K /\ n # 14 + K /\ n \notin Bs /\ n \notin Cs /\ n \notin Ys
    BY <1>1, Layout DEF Bs, Cs, Ys
  <2> QED
    BY <1>1, <2>1 DEF Block, VerifierBlock, Public
<1>2. CASE n = 1
  <2>1. n # 0 /\ n # 12 + K /\ n # 13 + K /\ n # 14 + K /\ n \notin Bs /\ n \notin Cs /\ n \notin Ys
    BY <1>2, Layout DEF Bs, Cs, Ys
  <2> QED
    BY <1>2, <2>1 DEF Block, VerifierBlock, Public
<1>3. CASE n \in Bs
  <2>1. n # 0 /\ n # 1 /\ n # 12 + K /\ n # 13 + K /\ n # 14 + K /\ n \notin Cs /\ n \notin Ys
    BY <1>3, Layout DEF Bs, Cs, Ys
  <2> QED
    BY <1>3, <2>1 DEF Block, VerifierBlock, Public
<1>4. CASE n \in Cs
  <2>1. n # 0 /\ n # 1 /\ n # 12 + K /\ n # 13 + K /\ n # 14 + K /\ n \notin Bs /\ n \notin Ys
    BY <1>4, Layout DEF Bs, Cs, Ys
  <2> QED
    BY <1>4, <2>1 DEF Block, VerifierBlock, Public
<1>5. CASE n \in Ys
  <2>1. n # 0 /\ n # 1 /\ n # 12 + K /\ n # 13 + K /\ n # 14 + K /\ n \notin Bs /\ n \notin Cs
    BY <1>5, Layout DEF Bs, Cs, Ys
  <2> QED
    BY <1>5, <2>1 DEF Block, VerifierBlock, Public
<1>6. CASE n = 12 + K
  <2>1. n # 0 /\ n # 1 /\ n # 13 + K /\ n # 14 + K /\ n \notin Bs /\ n \notin Cs /\ n \notin Ys
    BY <1>6, Layout DEF Bs, Cs, Ys
  <2> QED
    BY <1>6, <2>1 DEF Block, VerifierBlock, Public
<1>7. CASE n = 13 + K
  <2>1. n # 0 /\ n # 1 /\ n # 12 + K /\ n # 14 + K /\ n \notin Bs /\ n \notin Cs /\ n \notin Ys
    BY <1>7, Layout DEF Bs, Cs, Ys
  <2> QED
    BY <1>7, <2>1 DEF Block, VerifierBlock, Public
<1>8. CASE n = 14 + K
  <2>1. n # 0 /\ n # 1 /\ n # 12 + K /\ n # 13 + K /\ n \notin Bs /\ n \notin Cs /\ n \notin Ys
    BY <1>8, Layout DEF Bs, Cs, Ys
  <2> QED
    BY <1>8, <2>1 DEF Block, VerifierBlock, Public
<1> QED
  BY <1>1, <1>2, <1>3, <1>4, <1>5, <1>6, <1>7, <1>8, Classes

\* The constraints of the committed values.
C(n) == Constraint(stmt, W, n)
WPlus(off) == Mod(W[0] + off)
WTerms == [i \in 0 .. (LEval - 1) |-> Times(stmt.gamma[i], W[v_offset + i])]
WTermsU == [i \in 0 .. (LEval - 1) |-> Times(WTerms[i], WPlus(stmt.offsets[i]))]
WProduct(from) == Five(W[from], W[from + 1], W[from + 2], W[from + 3], W[from + 4])
WY(i) == W[y_offset + i]

\* What each of them says.
LEMMA ConstraintOf ==
  ASSUME NEW n \in 0 .. NumScalars
  PROVE  /\ n = 0 => C(n) = Mod((Total(WTermsU, LEval - 1) + W[ru_pos]) - stmt.cu)
         /\ n = 1 => C(n) = Mod((Total(WTerms, LEval - 1) + W[rv_pos]) - stmt.cv)
         /\ n \in Bs => C(n) = Mod(stmt.mm[n - 2] - W[b_offset + (n - 2)] * WPlus(stmt.offsets[LEval + stmt.c[n - 2]]))
         /\ n \in Cs => C(n) = Mod(W[c0_pos + (n - (2 + K))] - WProduct(v_offset + (n - (2 + K)) * HALF))
         /\ n \in Ys => C(n) = Mod(WY(n - (3 + K)) - Five(WY(n - (4 + K)), WY(n - (4 + K)), WY(n - (4 + K)),
                                                         WY(n - (4 + K)), WY(n - (4 + K))))
         /\ n = 12 + K => C(n) = Mod(W[a0_pos] - Five(WY(8), WY(8), WY(4), WY(1), WY(1)))
         /\ n = 13 + K => C(n) = Mod(WY(1) * W[a0_pos] - Four(WY(0), WY(0), WY(3), W[a1_pos]))
         /\ n = 14 + K => C(n) = Mod(Four(W[c0_pos], W[c1_pos], WY(0), W[a1_pos]) - 1)
<1>1. CASE n = 0
  <2>1. n # 1 /\ n # 12 + K /\ n # 13 + K /\ n # 14 + K /\ n \notin Bs /\ n \notin Cs /\ n \notin Ys
    BY <1>1, Layout DEF Bs, Cs, Ys
  <2> QED
    BY <1>1, <2>1 DEF C, Constraint, WTerms, WTermsU, WPlus
<1>2. CASE n = 1
  <2>1. n # 0 /\ n # 12 + K /\ n # 13 + K /\ n # 14 + K /\ n \notin Bs /\ n \notin Cs /\ n \notin Ys
    BY <1>2, Layout DEF Bs, Cs, Ys
  <2> QED
    BY <1>2, <2>1 DEF C, Constraint, WTerms
<1>3. CASE n \in Bs
  <2>1. n # 0 /\ n # 1 /\ n # 12 + K /\ n # 13 + K /\ n # 14 + K /\ n \notin Cs /\ n \notin Ys
    BY <1>3, Layout DEF Bs, Cs, Ys
  <2> QED
    BY <1>3, <2>1 DEF C, Constraint, WPlus
<1>4. CASE n \in Cs
  <2>1. n # 0 /\ n # 1 /\ n # 12 + K /\ n # 13 + K /\ n # 14 + K /\ n \notin Bs /\ n \notin Ys
    BY <1>4, Layout DEF Bs, Cs, Ys
  <2> QED
    BY <1>4, <2>1 DEF C, Constraint, WProduct
<1>5. CASE n \in Ys
  <2>1. n # 0 /\ n # 1 /\ n # 12 + K /\ n # 13 + K /\ n # 14 + K /\ n \notin Bs /\ n \notin Cs
    BY <1>5, Layout DEF Bs, Cs, Ys
  <2> QED
    BY <1>5, <2>1 DEF C, Constraint, WY
<1>6. CASE n = 12 + K
  <2>1. n # 0 /\ n # 1 /\ n # 13 + K /\ n # 14 + K /\ n \notin Bs /\ n \notin Cs /\ n \notin Ys
    BY <1>6, Layout DEF Bs, Cs, Ys
  <2> QED
    BY <1>6, <2>1 DEF C, Constraint, WY
<1>7. CASE n = 13 + K
  <2>1. n # 0 /\ n # 1 /\ n # 12 + K /\ n # 14 + K /\ n \notin Bs /\ n \notin Cs /\ n \notin Ys
    BY <1>7, Layout DEF Bs, Cs, Ys
  <2> QED
    BY <1>7, <2>1 DEF C, Constraint, WY
<1>8. CASE n = 14 + K
  <2>1. n # 0 /\ n # 1 /\ n # 12 + K /\ n # 13 + K /\ n \notin Bs /\ n \notin Cs /\ n \notin Ys
    BY <1>8, Layout DEF Bs, Cs, Ys
  <2> QED
    BY <1>8, <2>1 DEF C, Constraint, WY
<1> QED
  BY <1>1, <1>2, <1>3, <1>4, <1>5, <1>6, <1>7, <1>8, Classes

\* The values that enter the blocks.
LEMMA Entries ==
  ASSUME Bound
  PROVE  /\ \A j \in 0 .. (25 + K) : /\ HasValue(commitment[j], 1, key[j], W[j])
                                     /\ key[j] \in Int /\ W[j] \in Int /\ W[j] = Committed(j)
         /\ Delta \in Int
         /\ \A off \in F : HasValue(KPlus(commitment, off), 1, KeyPlus(off), WPlus(off))
                           /\ KeyPlus(off) \in Int /\ WPlus(off) \in Int
         /\ stmt.cu \in F /\ stmt.cv \in F
         /\ \A i \in 0 .. (LEval - 1) : stmt.gamma[i] \in F /\ stmt.offsets[i] \in F
         /\ \A i \in 0 .. (K - 1) : stmt.mm[i] \in F /\ stmt.offsets[LEval + stmt.c[i]] \in F
         /\ \A n \in 1 .. NumScalars : scalars[n] \in F
<1>1. ASSUME NEW j \in 0 .. (25 + K)
      PROVE  /\ HasValue(commitment[j], 1, key[j], W[j])
             /\ key[j] \in Int /\ W[j] \in Int /\ W[j] = Committed(j)
  <2>1. j \in Pos /\ j \in 0 .. (mask_pos - 1)
    BY Layout
  <2>2. W[j] = Committed(j)
    BY <2>1 DEF W
  <2> QED
    BY <2>1, <2>2, PositionValue
<1>2. Delta \in Int
  BY CombineType DEF Bound
<1>3. ASSUME NEW off \in F
      PROVE  /\ HasValue(KPlus(commitment, off), 1, KeyPlus(off), WPlus(off))
             /\ KeyPlus(off) \in Int /\ WPlus(off) \in Int
  <2>1. 0 \in 0 .. (25 + K)
    BY Layout
  <2>2. WPlus(off) = Mod(Committed(0) + off)
    BY <1>1, <2>1 DEF WPlus
  <2> QED
    BY <2>2, KPlusValue
<1>4. stmt \in Statements /\ scalars \in Scalars
  BY DEF Bound, Given
<1>5. /\ stmt.cu \in F /\ stmt.cv \in F
      /\ \A i \in 0 .. (LEval - 1) : stmt.gamma[i] \in F /\ stmt.offsets[i] \in F
      /\ \A i \in 0 .. (K - 1) : stmt.mm[i] \in F /\ stmt.offsets[LEval + stmt.c[i]] \in F
  BY <1>4, ZkAssumption
<1>6. \A n \in 1 .. NumScalars : scalars[n] \in F
  <2>1. scalars \in [1 .. NumScalars -> F]
    BY <1>4, ZkAssumption
  <2> QED
    BY <2>1
<1> QED
  BY <1>1, <1>2, <1>3, <1>5, <1>6

----------------------------------------------------------------------------
(* From a block to its summand: lifted to degree 5 and scaled.             *)

\* A factor may be pulled through.
LEMMA Swap ==
  ASSUME NEW g \in Int, NEW s \in Int, NEW x \in Int, NEW z \in Int, Mod(g * x) = Mod(z)
  PROVE  Times(g, Times(s, x)) = Times(s, z) /\ Mod(g * Times(s, x)) = Mod(s * z)
<1>1. Times(g, Times(s, x)) = Times(Times(s, x), g) /\ Times(Times(s, x), g) = Times(s, Times(x, g))
      /\ Times(x, g) = Times(g, x)
  <2>1. Times(s, x) \in Int
    BY TimesCommutes
  <2>2. Times(g, Times(s, x)) = Times(Times(s, x), g) /\ Times(x, g) = Times(g, x)
    BY <2>1, TimesCommutes
  <2>3. Times(Times(s, x), g) = Times(s, Times(x, g))
    BY TimesAssociates
  <2> QED
    BY <2>2, <2>3
<1>2. Times(g, x) = Mod(z) /\ Times(g, x) \in Int
  BY TimesRing DEF Times
<1>3. Times(s, Mod(z)) = Times(s, z)
  BY Reduced DEF Times
<1>4. Times(g, Times(s, x)) = Times(s, z)
  BY <1>1, <1>2, <1>3
<1> QED
  BY <1>4 DEF Times

\* g * x is the verifier's v up to its constant c, before and after scaling by s.
Meets(g, x, v, m, c) == Mod(g * x) = Mod(v + m * c)
Carried(g, s, x, v, m, c) == Mod(g * Times(s, x)) = Mod(Mod(s * Mod(v)) + m * (s * c))

\* Scaling keeps the two sides together.
LEMMA Carry ==
  ASSUME NEW g \in Int, NEW s \in Int, NEW x \in Int, NEW v \in Int, NEW m \in Int, NEW c \in Int,
         Meets(g, x, v, m, c)
  PROVE  Carried(g, s, x, v, m, c)
<1> DEFINE z == v + m * c
           a == s * v
           b == m * (s * c)
           y == g * Times(s, x)
<1>1. z \in Int /\ a \in Int
  BY SMT
<1>2. b \in Int
  <2>1. s * c \in Int
    BY SMT
  <2> QED
    BY <2>1, SMT
<1>3. s * z = a + b
  BY SMT
<1>4. Mod(y) = Mod(s * z)
  <2>1. Mod(g * x) = Mod(z)
    BY DEF Meets
  <2>2. z \in Int
    BY <1>1
  <2> HIDE DEF z, a, b, y
  <2>3. Times(g, Times(s, x)) = Times(s, z)
    BY <2>1, <2>2, Swap
  <2> QED
    BY <2>3 DEF Times, y
<1>5. Mod(s * Mod(v)) = Mod(a)
  BY Reduced
<1> HIDE DEF z, a, b, y
<1>6. Mod(Mod(a) + b) = Mod(a + b)
  BY <1>1, <1>2, Reduced
<1>7. Mod(y) = Mod(Mod(s * Mod(v)) + b)
  BY <1>3, <1>4, <1>5, <1>6
<1> QED
  BY <1>7 DEF Carried, y, b

\* What the summand of constraint n is worth, and its leading coefficient.
Value(n) == VerifierFold(n) + Pow[5] * (Scale(scalars, n) * Public(n))
Lead(n) == Scale(scalars, n) * (C(n) + Public(n))
FoldRight(n) == /\ HasValue(Fold(commitment, scalars, n), 5, Value(n), Lead(n))
                /\ VerifierBlock(n) \in Int /\ Public(n) \in Int /\ C(n) \in Int

\* The block of constraint n, of degree d, before it is lifted by g degrees; sign is the fold's.
BlockRight(n, d, g, x, t, sign) ==
  /\ HasValue(Block(commitment, n), d, x, t)
  /\ VerifierBlock(n) \in Int /\ Public(n) \in Int /\ C(n) \in Int
  /\ Mod((sign * Pow[g]) * x) = Mod(VerifierBlock(n) + Pow[5] * Public(n))
  /\ Mod(sign * t) = Mod(C(n) + Public(n))

\* The scaled block.
LEMMA ScaledValue ==
  ASSUME Bound, NEW n \in 1 .. NumScalars, NEW d \in Nat, NEW g \in Nat, 5 = g + d,
         NEW x, NEW t, HasValue(Block(commitment, n), d, x, t)
  PROVE  HasValue(Scaled(commitment, scalars, n), 5, Pow[g] * Times(scalars[n], x), Times(scalars[n], t))
<1> DEFINE s == scalars[n]
           b == Block(commitment, n)
           p == Mul(ScalarPoly(s), b)
           y == Times(s, x)
           v == Times(s, t)
<1>1. s \in F /\ Delta \in Int
  BY Entries
<1>2. HasValue(ScalarPoly(s), 0, s, s)
  BY <1>1, ScalarValue
<1>3. HasValue(b, d, x, t)
  OBVIOUS
<1>4. 0 \in Nat /\ d = 0 + d /\ d <= 5
  OBVIOUS
<1> HIDE DEF s, b, y, v
<1>5. HasValue(p, d, y, v)
  BY <1>1, <1>2, <1>3, <1>4, MulValue DEF y, v
<1>6. Scaled(commitment, scalars, n) = shift_up(5, p)
  BY DEF Scaled, s, b
<1> HIDE DEF p
<1>7. HasValue(shift_up(5, p), 5, Pow[g] * y, v)
  <2>1. 5 \in Nat /\ 5 <= 5
    OBVIOUS
  <2> QED
    BY <1>1, <1>5, <2>1, ShiftValue
<1> QED
  BY <1>6, <1>7 DEF y, v, s


\* What the verifier scales with.
LEMMA ScaleType ==
  ASSUME Bound, NEW n \in 0 .. NumScalars
  PROVE  /\ Scale(scalars, n) \in F /\ Scale(scalars, n) \in Int
         /\ n # 0 => n \in 1 .. NumScalars /\ Scale(scalars, n) = scalars[n]
<1>1. 1 \in F
  BY ZkAssumption DEF F
<1>2. CASE n = 0
  BY <1>1, <1>2, Ranges DEF Scale
<1>3. CASE n # 0
  <2>1. n \in 1 .. NumScalars
    BY <1>3, Layout
  <2> QED
    BY <1>3, <2>1, Entries, Ranges DEF Scale
<1> QED
  BY <1>2, <1>3

\* A lifted and scaled block that keeps its sign is the summand.
LEMMA Signed ==
  ASSUME Bound, NEW n \in 0 .. NumScalars, NEW d \in Nat, NEW g \in Nat, 5 = g + d,
         NEW x, NEW t, NEW sign \in Int, BlockRight(n, d, g, x, t, sign), NEW p, NEW y, NEW z,
         HasValue(p, 5, y, z), y = (sign * Pow[g]) * Times(Scale(scalars, n), x),
         z = sign * Times(Scale(scalars, n), t)
  PROVE  HasValue(p, 5, Value(n), Lead(n))
<1> DEFINE s == Scale(scalars, n)
           a == sign * Pow[g]
           m == Pow[5]
           c == Public(n)
           v == VerifierBlock(n)
           e == C(n)
           k == e + c
           p1 == Mod(s * Mod(v)) + m * (s * c)
           p2 == s * k
<1>1. /\ s \in Int /\ a \in Int /\ m \in Int /\ c \in Int /\ v \in Int /\ e \in Int
      /\ x \in Int /\ t \in Int /\ y \in Int /\ z \in Int
  <2>1. s \in Int /\ Pow \in [0 .. 5 -> Int]
    BY ScaleType, Entries, Powers
  <2>2. m \in Int /\ Pow[g] \in Int
    BY <2>1
  <2> DEFINE w == Pow[g]
  <2> HIDE DEF w
  <2>3. sign * w \in Int
    BY <2>2, SMT DEF w
  <2>4. x \in Int /\ t \in Int /\ y \in Int /\ z \in Int
    BY DEF BlockRight, HasValue
  <2> QED
    BY <2>1, <2>2, <2>3, <2>4 DEF BlockRight, w
<1>2. Meets(a, x, v, m, c) /\ Mod(sign * t) = Mod(k)
  BY DEF BlockRight, Meets
<1>3. Value(n) = p1 /\ Lead(n) = p2 /\ y = a * Times(s, x) /\ z = sign * Times(s, t)
  BY DEF Value, Lead, VerifierFold
<1> HIDE DEF s, a, m, c, v, e, k, p1, p2
<1>4. Mod(y) = Mod(p1)
  <2>1. Carried(a, s, x, v, m, c)
    BY <1>1, <1>2, Carry
  <2> QED
    BY <1>3, <2>1 DEF Carried, p1
<1>5. k \in Int
  BY <1>1 DEF k
<1>6. Mod(z) = Mod(p2)
  <2>1. Times(sign, Times(s, t)) = Times(s, k)
    BY <1>1, <1>2, <1>5, Swap
  <2> QED
    BY <1>3, <2>1 DEF Times, p2
<1>7. p1 \in Int
  <2> DEFINE i1 == Mod(v)
             i2 == s * c
             i3 == s * i1
             i4 == m * i2
             i5 == Mod(i3)
  <2>1. i1 \in Int
    BY <1>1, Residues
  <2>2. i2 \in Int
    BY <1>1, SMT
  <2> HIDE DEF i1, i2
  <2>3. i3 \in Int /\ i4 \in Int
    BY <1>1, <2>1, <2>2, SMT
  <2> HIDE DEF i3, i4
  <2>4. i5 \in Int
    BY <2>3, Residues
  <2> HIDE DEF i5
  <2>5. i5 + i4 \in Int
    BY <2>3, <2>4
  <2> QED
    BY <2>5 DEF p1, i1, i2, i3, i4, i5
<1>8. p2 \in Int
  BY <1>1, <1>5, SMT DEF p2
<1>9. HasValue(p, 5, p1, p2)
  BY <1>4, <1>6, <1>7, <1>8, Rebase
<1> QED
  BY <1>3, <1>9

\* Every fold but the first and those of b.
LEMMA FoldPlain ==
  ASSUME Bound, NEW n \in 1 .. NumScalars, n \notin Bs, NEW d \in Nat, NEW g \in Nat, 5 = g + d,
         NEW x, NEW t, BlockRight(n, d, g, x, t, 1)
  PROVE  FoldRight(n)
<1> DEFINE s == Scale(scalars, n)
           a == Pow[g]
           y == Times(s, x)
           z == Times(s, t)
           p == Scaled(commitment, scalars, n)
<1>1. n \in 0 .. NumScalars /\ n # 0
  OBVIOUS
<1>2. s = scalars[n] /\ s \in Int /\ Fold(commitment, scalars, n) = p
  BY <1>1, ScaleType DEF Fold
<1>3. HasValue(p, 5, a * y, z)
  BY <1>2, ScaledValue DEF BlockRight
<1>4. a \in Int /\ z \in Int
  <2>1. Pow \in [0 .. 5 -> Int] /\ g \in 0 .. 5
    BY Entries, Powers
  <2>2. t \in Int
    BY DEF BlockRight, HasValue
  <2> QED
    BY <1>2, <2>1, <2>2, TimesCommutes
<1> DEFINE b == 1 * a
           u == b * y
           w == 1 * z
<1>5. a * y = u /\ z = w
  BY <1>4
<1> HIDE DEF s, a, y, z, p, b, u, w
<1>6. HasValue(p, 5, u, w)
  BY <1>3, <1>5
<1> DEFINE i == 1
<1>7. /\ u = (i * Pow[g]) * Times(Scale(scalars, n), x) /\ w = i * Times(Scale(scalars, n), t)
      /\ BlockRight(n, d, g, x, t, i) /\ i \in Int
  BY DEF u, w, b, a, y, z, s
<1> HIDE DEF i
<1>8. HasValue(p, 5, Value(n), Lead(n))
  BY <1>1, <1>6, <1>7, Signed
<1> QED
  BY <1>2, <1>8 DEF FoldRight, BlockRight

\* The folds of b are subtracted.
LEMMA FoldMinus ==
  ASSUME Bound, NEW n \in 1 .. NumScalars, n \in Bs, NEW d \in Nat, NEW g \in Nat, 5 = g + d,
         NEW x, NEW t, BlockRight(n, d, g, x, t, -1)
  PROVE  FoldRight(n)
<1> DEFINE s == Scale(scalars, n)
           a == Pow[g]
           y == Times(s, x)
           z == Times(s, t)
           p == Scaled(commitment, scalars, n)
           i == -1
           f == a * y
<1>1. n \in 0 .. NumScalars /\ n # 0 /\ Delta \in Int
  BY Entries
<1>2. s = scalars[n] /\ s \in Int /\ Fold(commitment, scalars, n) = Minus(Zero(5), p)
  BY <1>1, ScaleType DEF Fold
<1>3. HasValue(p, 5, f, z)
  BY <1>2, ScaledValue DEF BlockRight
<1>4. a \in Int /\ z \in Int /\ y \in Int
  <2>1. Pow \in [0 .. 5 -> Int] /\ g \in 0 .. 5
    BY Entries, Powers
  <2>2. t \in Int /\ x \in Int
    BY DEF BlockRight, HasValue
  <2> QED
    BY <1>2, <2>1, <2>2, TimesCommutes
<1>5. HasValue(Zero(5), 5, 0, 0)
  <2> DEFINE r == Zero(5)
  <2>1. r \in [0 .. 5 -> F] /\ r \in [0 .. 5 -> Int] /\ r[5] = 0 /\ \A j \in 0 .. 5 : r[j] = 0
    BY Ranges DEF Zero
  <2>2. Eval(5, r) = 0
    <3> DEFINE h == [j \in 0 .. 5 |-> Pow[j] * r[j]]
               e == [j \in 0 .. 5 |-> Pow[j]]
    <3>1. Pow \in [0 .. 5 -> Int] /\ 5 \in Nat
      BY <1>1, Powers
    <3>2. Field!Inner(5, Pow, r) = 0
      BY <2>1, <3>1, Field!InnerZero
    <3> QED
      BY <3>2 DEF Eval, Field!Ev, Field!Inner
  <2> QED
    BY <2>1, <2>2 DEF HasValue
<1> HIDE DEF z, p, y
<1>6. HasValue(Minus(Zero(5), p), 5, 0 - f, 0 - z)
  <2> HIDE DEF f
  <2>1. 5 \in Nat /\ 5 <= 5
    OBVIOUS
  <2> QED
    BY <1>1, <1>3, <1>5, <2>1, MinusValue
<1> DEFINE b == i * a
           u == b * y
           w == i * z
<1>7. 0 - f = u /\ 0 - z = w
  <2> HIDE DEF a
  <2>1. 0 - z = (-1) * z
    BY <1>4
  <2>2. 0 - a * y = ((-1) * a) * y
    BY <1>4, SMT
  <2> QED
    BY <2>1, <2>2
<1>8. /\ u = (i * Pow[g]) * Times(Scale(scalars, n), x) /\ w = i * Times(Scale(scalars, n), t)
      /\ BlockRight(n, d, g, x, t, i) /\ i \in Int
  BY DEF y, z
<1> HIDE DEF s, a, b, u, w, i, f
<1>9. HasValue(Minus(Zero(5), p), 5, u, w)
  BY <1>6, <1>7
<1>10. HasValue(Minus(Zero(5), p), 5, Value(n), Lead(n))
  BY <1>1, <1>8, <1>9, Signed
<1> QED
  BY <1>2, <1>10 DEF FoldRight, BlockRight

\* The first constraint is folded unscaled.
LEMMA FoldFirst ==
  ASSUME Bound, NEW d \in Nat, NEW g \in Nat, 5 = g + d,
         NEW x, NEW t, BlockRight(0, d, g, x, t, 1)
  PROVE  FoldRight(0)
<1> DEFINE s == Scale(scalars, 0)
           a == Pow[g]
           y == Times(s, x)
           z == Times(s, t)
           p == shift_up(5, Block(commitment, 0))
           f == a * x
           i == 1
           b == i * a
           u == b * y
           w == i * z
<1>1. 0 \in 0 .. NumScalars /\ Delta \in Int /\ x \in Int /\ t \in Int
  BY Entries, Layout DEF BlockRight, HasValue
<1>2. s = 1 /\ Fold(commitment, scalars, 0) = p
  <2>1. 0 \notin Bs
    BY DEF Bs
  <2>2. s = 1
    BY DEF Scale
  <2> QED
    BY <2>1, <2>2 DEF Fold
<1>3. HasValue(p, 5, f, t)
  <2>1. 5 \in Nat /\ 5 <= 5
    OBVIOUS
  <2> QED
    BY <1>1, <2>1, ShiftValue DEF BlockRight
<1>4. a \in Int
  <2>1. Pow \in [0 .. 5 -> Int] /\ g \in 0 .. 5
    BY <1>1, Powers
  <2> QED
    BY <2>1
<1>5. y = Mod(x) /\ z = Mod(t) /\ y \in Int /\ z \in Int /\ Mod(y) = Mod(x) /\ Mod(z) = Mod(t)
  <2>1. 1 * x = x /\ 1 * t = t
    BY <1>1
  <2>2. y = Mod(x) /\ z = Mod(t)
    BY <1>2, <2>1 DEF Times
  <2> HIDE DEF y, z
  <2> QED
    BY <1>1, <2>2, Residues
<1> HIDE DEF a, y, z, p
<1>6. u \in Int /\ w \in Int /\ Mod(f) = Mod(u) /\ Mod(t) = Mod(w)
  <2>1. b = a /\ w = z
    BY <1>4, <1>5
  <2>2. Times(a, x) = Times(a, y)
    BY <1>1, <1>4, <1>5, CongruentTimes
  <2>3. u = a * y
    BY <2>1
  <2>4. u \in Int
    BY <1>4, <1>5, <2>3, SMT
  <2> QED
    BY <1>5, <2>1, <2>2, <2>3, <2>4 DEF Times
<1>7. /\ u = (i * Pow[g]) * Times(Scale(scalars, 0), x) /\ w = i * Times(Scale(scalars, 0), t)
      /\ BlockRight(0, d, g, x, t, i) /\ i \in Int
  <2>1. BlockRight(0, d, g, x, t, 1) /\ 1 \in Int
    OBVIOUS
  <2> QED
    BY <2>1 DEF y, z, a
<1> HIDE DEF s, b, u, w, i, f
<1>8. HasValue(p, 5, u, w)
  BY <1>3, <1>6, Rebase
<1>9. HasValue(p, 5, Value(0), Lead(0))
  BY <1>1, <1>7, <1>8, Signed
<1> QED
  BY <1>2, <1>9 DEF FoldRight, BlockRight

----------------------------------------------------------------------------
(* Every block is what the verifier computes, up to the public constant.   *)

\* Powers multiply.
LEMMA PowerProducts ==
  ASSUME Delta \in Int
  PROVE  Pow[2] * Pow[3] = Pow[5] /\ Pow[1] * Pow[4] = Pow[5] /\ Pow[4] * Pow[1] = Pow[5]
<1>1. Field!IsPowers(Pow, 5) /\ 5 \in Nat /\ 1 \in 0 .. 5 /\ 3 \in 0 .. 5 /\ 4 \in 0 .. 5
  BY Powers
<1>2. \A i \in 0 .. (5 - 3) : Pow[i + 3] = Pow[i] * Pow[3]
  BY <1>1, Field!PowerSum
<1>3. \A i \in 0 .. (5 - 4) : Pow[i + 4] = Pow[i] * Pow[4]
  BY <1>1, Field!PowerSum
<1>4. \A i \in 0 .. (5 - 1) : Pow[i + 1] = Pow[i] * Pow[1]
  BY <1>1, Field!PowerSum
<1>5. 2 \in 0 .. (5 - 3) /\ 1 \in 0 .. (5 - 4) /\ 4 \in 0 .. (5 - 1) /\ 2 + 3 = 5 /\ 1 + 4 = 5 /\ 4 + 1 = 5
  OBVIOUS
<1> QED
  BY <1>2, <1>3, <1>4, <1>5

\* x less the constant, homogenised by a and then by b, is x homogenised by b less the
\* constant homogenised by both.
IsProduct(m, g, h) == m = g * h
Homogenised(x, a, b, h, m, c) == Mod(h * x) = Mod(Mod(x - a * c) * b + m * c)

LEMMA Homogenise ==
  ASSUME NEW x \in Int, NEW c \in Int, NEW a \in Int, NEW b \in Int, NEW g \in Int, NEW h \in Int,
         NEW m \in Int, IsProduct(m, g, h), Mod(a) = Mod(g), Mod(b) = Mod(h)
  PROVE  Homogenised(x, a, b, h, m, c) /\ Mod(x - a * c) * b \in Int
<1> DEFINE ac == a * c
           gc == g * c
           k == Mod(x - ac)
           kb == k * b
           mc == m * c
           hx == h * x
           z == x - gc
           zh == z * h
<1>1. ac \in Int /\ gc \in Int /\ mc \in Int /\ hx \in Int
  BY SMT
<1>2. Mod(ac) = Mod(gc)
  <2>1. Times(a, c) = Times(g, c)
    BY CongruentTimes
  <2> QED
    BY <2>1 DEF Times
<1>3. zh = hx - mc /\ z \in Int /\ zh \in Int
  <2>1. z \in Int
    BY <1>1
  <2>2. (x - g * c) * h = h * x - (g * h) * c
    BY SMT
  <2>3. zh = hx - mc
    BY <2>2 DEF IsProduct
  <2> QED
    BY <1>1, <2>1, <2>3
<1> HIDE DEF ac, gc, hx, mc, zh
<1>4. k \in Int /\ Mod(k) = Mod(z)
  <2>1. x - ac \in Int
    BY <1>1
  <2>2. Mod(x - ac) = Mod(x - gc)
    <3>1. ac \in Int /\ gc \in Int /\ Mod(x) = Mod(x)
      BY <1>1
    <3> HIDE DEF k, z
    <3>2. SameDifference(x, x, ac, gc)
      BY <1>2, <3>1, CongruentBoth
    <3> QED
      BY <3>2 DEF SameDifference
  <2> QED
    BY <2>1, <2>2, Residues
<1> HIDE DEF k, z
<1>5. kb \in Int /\ Mod(kb) = Mod(zh)
  <2>1. kb \in Int
    BY <1>4, SMT
  <2>2. Times(k, b) = Times(z, h)
    BY <1>3, <1>4, CongruentTimes
  <2> QED
    BY <2>1, <2>2 DEF Times, zh
<1> HIDE DEF kb
<1>6. Mod(kb + mc) = Mod(zh + mc)
  <2>1. kb \in Int /\ zh \in Int /\ mc \in Int /\ Mod(kb) = Mod(zh) /\ Mod(mc) = Mod(mc)
    BY <1>1, <1>3, <1>5
  <2>2. SameSum(kb, zh, mc, mc)
    BY <2>1, CongruentBoth
  <2> QED
    BY <2>2 DEF SameSum
<1>7. zh + mc = hx
  BY <1>1, <1>3
<1>8. Mod(hx) = Mod(kb + mc)
  BY <1>6, <1>7
<1> QED
  BY <1>5, <1>8 DEF Homogenised, ac, k, kb, mc, hx

\* A leading coefficient t and its constraint, t less the constant.
LEMMA LeadOf ==
  ASSUME NEW t \in Int, NEW c \in Int, NEW e, e = Mod(t - c)
  PROVE  Mod(1 * t) = Mod(e + c) /\ e \in Int
<1> DEFINE z == t - c
<1>1. z \in Int /\ e = Mod(z) /\ 1 * t = t /\ z + c = t
  OBVIOUS
<1> HIDE DEF z
<1>2. Mod(Mod(z) + c) = Mod(z + c) /\ Mod(z) \in Int
  BY <1>1, Reduced, Residues
<1> QED
  BY <1>1, <1>2

\* The inner products with gamma.
KeyTerms == [i \in 0 .. (LEval - 1) |-> gammav(i)]
KeyTermsU == [i \in 0 .. (LEval - 1) |-> Times(gammav(i), KeyPlus(stmt.offsets[i]))]
RowV == [i \in 0 .. (LEval - 1) |-> GammaV(commitment, i)]
RowU == [i \in 0 .. (LEval - 1) |-> Mul(GammaV(commitment, i), KPlus(commitment, stmt.offsets[i]))]

LEMMA GammaRows ==
  ASSUME Bound
  PROVE  /\ HasValue(AddUp(1, RowV, 9), 1, Total(KeyTerms, 9), Total(WTerms, 9))
         /\ HasValue(AddUp(2, RowU, 9), 2, Total(KeyTermsU, 9), Total(WTermsU, 9))
<1>0. Delta \in Int /\ LEval - 1 = 9 /\ v_offset = 1 /\ 9 \in Nat /\ 1 \in Nat /\ 2 \in Nat /\ 0 \in Nat
  BY Entries, Layout
<1>1. ASSUME NEW i \in 0 .. 9
      PROVE  /\ HasValue(RowV[i], 1, KeyTerms[i], WTerms[i])
             /\ HasValue(RowU[i], 2, KeyTermsU[i], WTermsU[i])
             /\ KeyTerms[i] \in Int /\ WTerms[i] \in Int
             /\ KeyTermsU[i] \in Int /\ WTermsU[i] \in Int
  <2> DEFINE g == stmt.gamma[i]
             o == stmt.offsets[i]
             j == v_offset + i
             p == commitment[j]
             r == KPlus(commitment, o)
             k == key[j]
             w == W[j]
             ko == KeyPlus(o)
             wo == WPlus(o)
  <2>1. g \in F /\ g \in Int /\ o \in F /\ j \in 0 .. (25 + K)
    <3>1. i \in 0 .. (LEval - 1) /\ j \in 0 .. (25 + K)
      BY <1>0, Layout
    <3>2. g \in F /\ o \in F
      BY <3>1, Entries
    <3> QED
      BY <3>1, <3>2, Ranges
  <2>2. HasValue(p, 1, k, w) /\ k \in Int /\ w \in Int
    BY <2>1, Entries
  <2>3. HasValue(r, 1, ko, wo) /\ ko \in Int /\ wo \in Int
    BY <2>1, Entries
  <2>4. /\ RowV[i] = Mul(ScalarPoly(g), p) /\ RowU[i] = Mul(RowV[i], r)
        /\ KeyTerms[i] = Times(g, k) /\ WTerms[i] = Times(g, w)
        /\ KeyTermsU[i] = Times(KeyTerms[i], ko) /\ WTermsU[i] = Times(WTerms[i], wo)
    BY <1>0 DEF RowV, RowU, GammaV, KeyTerms, KeyTermsU, WTerms, WTermsU, gammav, q
  <2> HIDE DEF g, o, j, p, r, k, w, ko, wo
  <2>5. HasValue(ScalarPoly(g), 0, g, g)
    BY <1>0, <2>1, ScalarValue
  <2>6. HasValue(RowV[i], 1, KeyTerms[i], WTerms[i])
    <3>1. 1 = 0 + 1 /\ 1 <= 5
      OBVIOUS
    <3> QED
      BY <1>0, <2>2, <2>4, <2>5, <3>1, MulValue
  <2>7. HasValue(RowU[i], 2, KeyTermsU[i], WTermsU[i])
    <3>1. 2 = 1 + 1 /\ 2 <= 5
      OBVIOUS
    <3> QED
      BY <1>0, <2>3, <2>4, <2>6, <3>1, MulValue
  <2>8. KeyTerms[i] \in Int /\ WTerms[i] \in Int /\ KeyTermsU[i] \in Int /\ WTermsU[i] \in Int
    BY <2>6, <2>7 DEF HasValue
  <2> QED
    BY <2>6, <2>7, <2>8
<1>2. /\ KeyTerms \in [0 .. 9 -> Int] /\ WTerms \in [0 .. 9 -> Int]
      /\ KeyTermsU \in [0 .. 9 -> Int] /\ WTermsU \in [0 .. 9 -> Int]
  <2>1. /\ KeyTerms = [i \in 0 .. 9 |-> KeyTerms[i]] /\ WTerms = [i \in 0 .. 9 |-> WTerms[i]]
        /\ KeyTermsU = [i \in 0 .. 9 |-> KeyTermsU[i]] /\ WTermsU = [i \in 0 .. 9 |-> WTermsU[i]]
    BY <1>0, Zenon DEF KeyTerms, WTerms, KeyTermsU, WTermsU
  <2>2. [i \in 0 .. 9 |-> KeyTerms[i]] \in [0 .. 9 -> Int] /\ [i \in 0 .. 9 |-> WTerms[i]] \in [0 .. 9 -> Int]
    BY <1>1
  <2>3. [i \in 0 .. 9 |-> KeyTermsU[i]] \in [0 .. 9 -> Int] /\ [i \in 0 .. 9 |-> WTermsU[i]] \in [0 .. 9 -> Int]
    BY <1>1
  <2> QED
    BY <2>1, <2>2, <2>3
<1>3. HaveValues(9, RowV, 1, KeyTerms, WTerms)
  BY <1>1, <1>2 DEF HaveValues
<1>4. HaveValues(9, RowU, 2, KeyTermsU, WTermsU)
  BY <1>1, <1>2 DEF HaveValues
<1>5. 1 <= 5 /\ 2 <= 5
  OBVIOUS
<1>6. HasValue(AddUp(1, RowV, 9), 1, Total(KeyTerms, 9), Total(WTerms, 9))
  BY <1>0, <1>3, <1>5, AddUpValue
<1>7. HasValue(AddUp(2, RowU, 9), 2, Total(KeyTermsU, 9), Total(WTermsU, 9))
  BY <1>0, <1>4, <1>5, AddUpValue
<1> QED
  BY <1>6, <1>7

\* A block whose value x and lead t are the verifier's and the constraint's up to a constant:
\* the verifier subtracts it homogenised by a and lifts the rest by b.
LEMMA BlockOfValue ==
  ASSUME Bound, NEW n \in 0 .. NumScalars, NEW d, NEW g \in 0 .. 5, NEW e \in 0 .. 5,
         NEW x \in Int, NEW t \in Int, HasValue(Block(commitment, n), d, x, t),
         NEW a \in Int, NEW b \in Int, Mod(a) = Mod(Pow[e]), Mod(b) = Mod(Pow[g]),
         IsProduct(Pow[5], Pow[e], Pow[g]),
         NEW c \in Int, Public(n) = c, VerifierBlock(n) = Mod(x - a * c) * b, C(n) = Mod(t - c)
  PROVE  BlockRight(n, d, g, x, t, 1)
<1> DEFINE h == Pow[g]
           k == Pow[e]
           m == Pow[5]
           v == Mod(x - a * c) * b
<1>1. h \in Int /\ k \in Int /\ m \in Int
  <2>1. Pow \in [0 .. 5 -> Int]
    BY Entries, Powers
  <2> QED
    BY <2>1
<1>2. Homogenised(x, a, b, h, m, c) /\ v \in Int
  <2> HIDE DEF h, k, m
  <2>1. Mod(a) = Mod(k) /\ Mod(b) = Mod(h) /\ IsProduct(m, k, h)
    BY DEF h, k, m
  <2>2. Homogenised(x, a, b, h, m, c) /\ Mod(x - a * c) * b \in Int
    BY <1>1, <2>1, Homogenise
  <2> QED
    BY <2>2
<1>3. Mod(1 * t) = Mod(C(n) + c) /\ C(n) \in Int
  BY LeadOf
<1>4. Mod(h * x) = Mod(v + m * c)
  BY <1>2 DEF Homogenised
<1>5. 1 * h = h
  BY <1>1
<1> HIDE DEF h, m, v
<1>6. Mod((1 * h) * x) = Mod(v + m * c)
  BY <1>4, <1>5
<1>7. VerifierBlock(n) = v
  BY DEF v
<1> QED
  BY <1>2, <1>3, <1>6, <1>7 DEF BlockRight, h, m

\* C[1]
LEMMA FoldU == Bound => FoldRight(0)
<1> SUFFICES ASSUME Bound PROVE FoldRight(0)
  OBVIOUS
<1> DEFINE s == Total(KeyTermsU, 9)
           r == Total(WTermsU, 9)
           k == key[ru_pos]
           w == W[ru_pos]
           p == commitment[ru_pos]
           dk == Delta * k
           x == s + dk
           t == r + w
           c == stmt.cu
           o == AddUp(2, RowU, 9)
<1>1. 0 \in 0 .. NumScalars /\ ru_pos \in 0 .. (25 + K) /\ LEval - 1 = 9
  BY Layout
<1>2. HasValue(p, 1, k, w) /\ k \in Int /\ w \in Int /\ Delta \in Int /\ c \in Int
  BY <1>1, Entries, Ranges
<1>3. HasValue(o, 2, s, r) /\ s \in Int /\ r \in Int
  BY GammaRows DEF HasValue
<1>4. Block(commitment, 0) = Plus(o, shift_up(2, p))
  BY <1>1, BlockOf DEF CheckU, RowU
<1>5. VerifierBlock(0) = Mod(x - Delta_two * c) * Delta_three /\ Public(0) = c
  <2>1. VerifierBlock(0) = u_check * Delta_three /\ Public(0) = stmt.cu
    BY <1>1, BlockOf
  <2>2. u_check = Mod((Total(KeyTermsU, LEval - 1) + Delta * key[ru_pos]) - Delta_two * stmt.cu)
    BY DEF u_check, KeyTermsU
  <2>3. Total(KeyTermsU, LEval - 1) = s
    BY <1>1
  <2> HIDE DEF s
  <2>4. u_check = Mod((s + dk) - Delta_two * c)
    BY <2>2, <2>3
  <2> HIDE DEF dk
  <2> QED
    BY <2>1, <2>4
<1>6. C(0) = Mod(t - c)
  <2>1. C(0) = Mod((Total(WTermsU, LEval - 1) + W[ru_pos]) - stmt.cu)
    BY <1>1, ConstraintOf
  <2>2. Total(WTermsU, LEval - 1) = r
    BY <1>1
  <2> HIDE DEF r
  <2> QED
    BY <2>1, <2>2
<1>7. Pow[1] = Delta /\ IsProduct(Pow[5], Pow[2], Pow[3]) /\ 2 \in 0 .. 5 /\ 3 \in 0 .. 5
  BY <1>2, Powers, PowerProducts DEF IsProduct
<1>8. HasValue(shift_up(2, p), 2, dk, w)
  <2> HIDE DEF p, k, w
  <2>1. 1 \in Nat /\ 2 \in Nat /\ 2 = 1 + 1 /\ 2 <= 5
    OBVIOUS
  <2>2. HasValue(shift_up(2, p), 2, Pow[1] * k, w)
    BY <1>2, <2>1, ShiftValue
  <2> QED
    BY <1>7, <2>2
<1>9. dk \in Int
  BY <1>2, SMT
<1> HIDE DEF s, r, k, w, p, dk, o, c
<1>10. HasValue(Block(commitment, 0), 2, x, t)
  <2>1. 2 \in Nat /\ 2 <= 5 /\ 2 <= 2
    OBVIOUS
  <2>2. HasValue(Plus(o, shift_up(2, p)), 2, s + dk, IF 2 = 2 THEN r + w ELSE r)
    BY <1>2, <1>3, <1>8, <2>1, PlusValue
  <2> QED
    BY <1>4, <2>2
<1>11. x \in Int /\ t \in Int
  BY <1>2, <1>3, <1>9
<1>12. BlockRight(0, 2, 3, x, t, 1)
  <2> DEFINE a == Delta_two
             b == Delta_three
  <2>1. a \in Int /\ b \in Int /\ Mod(a) = Mod(Pow[2]) /\ Mod(b) = Mod(Pow[3])
    BY <1>2, Powers
  <2>2. VerifierBlock(0) = Mod(x - a * c) * b
    BY <1>5
  <2> HIDE DEF a, b, x, t
  <2> QED
    BY <1>1, <1>2, <1>5, <1>6, <1>7, <1>10, <1>11, <2>1, <2>2, BlockOfValue
<1> HIDE DEF x, t
<1>13. 2 \in Nat /\ 3 \in Nat /\ 5 = 3 + 2
  OBVIOUS
<1> QED
  BY <1>12, <1>13, FoldFirst

\* C[2]
LEMMA FoldV == Bound => FoldRight(1)
<1> SUFFICES ASSUME Bound PROVE FoldRight(1)
  OBVIOUS
<1> DEFINE s == Total(KeyTerms, 9)
           r == Total(WTerms, 9)
           k == key[rv_pos]
           w == W[rv_pos]
           p == commitment[rv_pos]
           x == s + k
           t == r + w
           c == stmt.cv
           o == AddUp(1, RowV, 9)
<1>1. 1 \in 0 .. NumScalars /\ rv_pos \in 0 .. (25 + K) /\ LEval - 1 = 9 /\ 1 \in 1 .. NumScalars
  BY Layout
<1>2. HasValue(p, 1, k, w) /\ k \in Int /\ w \in Int /\ Delta \in Int /\ c \in Int
  BY <1>1, Entries, Ranges
<1>3. HasValue(o, 1, s, r) /\ s \in Int /\ r \in Int
  BY GammaRows DEF HasValue
<1>4. Block(commitment, 1) = Plus(o, p)
  BY <1>1, BlockOf DEF CheckV, RowV
<1>5. VerifierBlock(1) = Mod(x - Delta * c) * Delta_four /\ Public(1) = c
  <2>1. VerifierBlock(1) = v_check * Delta_four /\ Public(1) = stmt.cv
    BY <1>1, BlockOf
  <2>2. v_check = Mod((Total(KeyTerms, LEval - 1) + key[rv_pos]) - Delta * stmt.cv)
    BY DEF v_check, KeyTerms
  <2>3. Total(KeyTerms, LEval - 1) = s
    BY <1>1
  <2> HIDE DEF s
  <2>4. v_check = Mod((s + k) - Delta * c)
    BY <2>2, <2>3
  <2> QED
    BY <2>1, <2>4
<1>6. C(1) = Mod(t - c)
  <2>1. C(1) = Mod((Total(WTerms, LEval - 1) + W[rv_pos]) - stmt.cv)
    BY <1>1, ConstraintOf
  <2>2. Total(WTerms, LEval - 1) = r
    BY <1>1
  <2> HIDE DEF r
  <2> QED
    BY <2>1, <2>2
<1>7. Pow[1] = Delta /\ IsProduct(Pow[5], Pow[1], Pow[4]) /\ 1 \in 0 .. 5 /\ 4 \in 0 .. 5
  BY <1>2, Powers, PowerProducts DEF IsProduct
<1> HIDE DEF s, r, k, w, p, o, c
<1>8. HasValue(Block(commitment, 1), 1, x, t)
  <2>1. 1 \in Nat /\ 1 <= 5 /\ 1 <= 1
    OBVIOUS
  <2>2. HasValue(Plus(o, p), 1, s + k, IF 1 = 1 THEN r + w ELSE r)
    BY <1>2, <1>3, <2>1, PlusValue
  <2> QED
    BY <1>4, <2>2
<1>9. x \in Int /\ t \in Int
  BY <1>2, <1>3
<1>10. BlockRight(1, 1, 4, x, t, 1)
  <2> DEFINE a == Delta
             b == Delta_four
  <2>1. a \in Int /\ b \in Int /\ Mod(a) = Mod(Pow[1]) /\ Mod(b) = Mod(Pow[4])
    BY <1>2, Powers
  <2>2. VerifierBlock(1) = Mod(x - a * c) * b
    BY <1>5
  <2> HIDE DEF a, b, x, t
  <2> QED
    BY <1>1, <1>2, <1>5, <1>6, <1>7, <1>8, <1>9, <2>1, <2>2, BlockOfValue
<1> HIDE DEF x, t
<1>11. 1 \in Nat /\ 4 \in Nat /\ 5 = 4 + 1 /\ 1 \notin Bs
  BY DEF Bs
<1> QED
  BY <1>1, <1>10, <1>11, FoldPlain

\* A product of four positions.
LEMMA FourValue ==
  ASSUME Delta \in Int,
         NEW p1, NEW k1, NEW w1, HasValue(p1, 1, k1, w1), NEW p2, NEW k2, NEW w2, HasValue(p2, 1, k2, w2),
         NEW p3, NEW k3, NEW w3, HasValue(p3, 1, k3, w3), NEW p4, NEW k4, NEW w4, HasValue(p4, 1, k4, w4)
  PROVE  HasValue(Mul(Mul(Mul(p1, p2), p3), p4), 4, Four(k1, k2, k3, k4), Four(w1, w2, w3, w4))
<1>0. 1 \in Nat /\ 2 \in Nat /\ 3 \in Nat /\ 4 \in Nat
  OBVIOUS
<1> DEFINE m2 == Mul(p1, p2)
           k12 == Times(k1, k2)
           w12 == Times(w1, w2)
           m3 == Mul(m2, p3)
           k13 == Times(k12, k3)
           w13 == Times(w12, w3)
           m4 == Mul(m3, p4)
<1>1. HasValue(m2, 2, k12, w12)
  <2>1. 2 = 1 + 1 /\ 2 <= 5
    OBVIOUS
  <2> QED
    BY <1>0, <2>1, MulValue
<1> HIDE DEF m2, k12, w12
<1>2. HasValue(m3, 3, k13, w13)
  <2>1. 3 = 2 + 1 /\ 3 <= 5
    OBVIOUS
  <2> QED
    BY <1>0, <1>1, <2>1, MulValue
<1> HIDE DEF m3, k13, w13
<1>3. HasValue(m4, 4, Times(k13, k4), Times(w13, w4))
  <2>1. 4 = 3 + 1 /\ 4 <= 5
    OBVIOUS
  <2> QED
    BY <1>0, <1>2, <2>1, MulValue
<1> QED
  BY <1>3 DEF m4, m3, m2, k13, w13, k12, w12, Four

\* A product of two values, each of some degree.
LEMMA PairValue ==
  ASSUME Delta \in Int, NEW p1, NEW k1, NEW w1, NEW p2, NEW k2, NEW w2
  PROVE  /\ HasValue(p1, 1, k1, w1) /\ HasValue(p2, 1, k2, w2)
              => HasValue(Mul(p1, p2), 2, Times(k1, k2), Times(w1, w2))
         /\ HasValue(p1, 2, k1, w1) /\ HasValue(p2, 1, k2, w2)
              => HasValue(Mul(p1, p2), 3, Times(k1, k2), Times(w1, w2))
         /\ HasValue(p1, 2, k1, w1) /\ HasValue(p2, 2, k2, w2)
              => HasValue(Mul(p1, p2), 4, Times(k1, k2), Times(w1, w2))
         /\ HasValue(p1, 3, k1, w1) /\ HasValue(p2, 2, k2, w2)
              => HasValue(Mul(p1, p2), 5, Times(k1, k2), Times(w1, w2))
         /\ HasValue(p1, 4, k1, w1) /\ HasValue(p2, 1, k2, w2)
              => HasValue(Mul(p1, p2), 5, Times(k1, k2), Times(w1, w2))
<1>0. /\ 1 \in Nat /\ 2 \in Nat /\ 3 \in Nat /\ 4 \in Nat /\ 5 \in Nat
      /\ 2 = 1 + 1 /\ 3 = 2 + 1 /\ 4 = 2 + 2 /\ 5 = 3 + 2 /\ 5 = 4 + 1
      /\ 2 <= 5 /\ 3 <= 5 /\ 4 <= 5 /\ 5 <= 5
  OBVIOUS
<1>1. HasValue(p1, 1, k1, w1) /\ HasValue(p2, 1, k2, w2)
        => HasValue(Mul(p1, p2), 2, Times(k1, k2), Times(w1, w2))
  BY <1>0, MulValue
<1>2. HasValue(p1, 2, k1, w1) /\ HasValue(p2, 1, k2, w2)
        => HasValue(Mul(p1, p2), 3, Times(k1, k2), Times(w1, w2))
  BY <1>0, MulValue
<1>3. HasValue(p1, 2, k1, w1) /\ HasValue(p2, 2, k2, w2)
        => HasValue(Mul(p1, p2), 4, Times(k1, k2), Times(w1, w2))
  BY <1>0, MulValue
<1>4. HasValue(p1, 3, k1, w1) /\ HasValue(p2, 2, k2, w2)
        => HasValue(Mul(p1, p2), 5, Times(k1, k2), Times(w1, w2))
  BY <1>0, MulValue
<1>5. HasValue(p1, 4, k1, w1) /\ HasValue(p2, 1, k2, w2)
        => HasValue(Mul(p1, p2), 5, Times(k1, k2), Times(w1, w2))
  BY <1>0, MulValue
<1> QED
  BY <1>1, <1>2, <1>3, <1>4, <1>5

\* A block with no public constant.
LEMMA BlockOfZero ==
  ASSUME Bound, NEW n \in 0 .. NumScalars, NEW d, NEW g \in 0 .. 5,
         NEW x \in Int, NEW t \in Int, HasValue(Block(commitment, n), d, x, t), Public(n) = 0,
         VerifierBlock(n) \in Int, Mod(VerifierBlock(n)) = Mod(Pow[g] * x), C(n) = Mod(t)
  PROVE  BlockRight(n, d, g, x, t, 1)
<1> DEFINE h == Pow[g]
           m == Pow[5]
           v == VerifierBlock(n)
<1>1. h \in Int /\ m \in Int
  <2>1. Pow \in [0 .. 5 -> Int]
    BY Entries, Powers
  <2> QED
    BY <2>1
<1>2. 1 * h = h /\ v + m * 0 = v /\ 1 * t = t
  BY <1>1
<1>3. C(n) \in Int /\ C(n) + 0 = C(n) /\ Mod(C(n)) = Mod(t)
  <2>1. Mod(t) \in Int /\ Mod(Mod(t)) = Mod(t)
    BY Residues
  <2> QED
    BY <2>1
<1> HIDE DEF h, m, v
<1>4. Mod((1 * h) * x) = Mod(v + m * 0) /\ Mod(1 * t) = Mod(C(n) + 0)
  BY <1>2, <1>3 DEF h, v
<1> QED
  BY <1>3, <1>4 DEF BlockRight, h, m, v

\* The same for a block that is subtracted: the constant is what the value is taken from.
LEMMA BlockOfMinus ==
  ASSUME Bound, NEW n \in 0 .. NumScalars, NEW d, NEW g \in 0 .. 5, NEW e \in 0 .. 5,
         NEW x \in Int, NEW t \in Int, HasValue(Block(commitment, n), d, x, t),
         NEW a \in Int, NEW b \in Int, Mod(a) = Mod(Pow[e]), Mod(b) = Mod(Pow[g]),
         IsProduct(Pow[5], Pow[e], Pow[g]),
         NEW c \in Int, Public(n) = -c, VerifierBlock(n) = b * Mod(c * a - x), C(n) = Mod(c - t)
  PROVE  BlockRight(n, d, g, x, t, -1)
<1> DEFINE h == Pow[g]
           k == Pow[e]
           m == Pow[5]
           z == -x
           f == -c
           u == -t
           v == Mod(z - a * f) * b
<1>1. h \in Int /\ k \in Int /\ m \in Int
  <2>1. Pow \in [0 .. 5 -> Int]
    BY Entries, Powers
  <2> QED
    BY <2>1
<1>2. z \in Int /\ f \in Int /\ u \in Int
  OBVIOUS
<1>3. z - a * f = c * a - x
  BY SMT
<1>4. Mod(c * a - x) \in Int
  <2>1. c * a - x \in Int
    BY SMT
  <2> QED
    BY <2>1, Residues
<1>5. VerifierBlock(n) = v
  <2> DEFINE r == Mod(c * a - x)
  <2>1. v = r * b
    BY <1>3
  <2>2. VerifierBlock(n) = b * r
    OBVIOUS
  <2> HIDE DEF r, v
  <2>3. b * r = r * b
    BY <1>4, SMT DEF r
  <2> QED
    BY <2>1, <2>2, <2>3
<1> HIDE DEF h, k, m
<1>6. Homogenised(z, a, b, h, m, f) /\ v \in Int
  <2>1. Mod(a) = Mod(k) /\ Mod(b) = Mod(h) /\ IsProduct(m, k, h)
    BY DEF h, k, m
  <2> HIDE DEF z, f
  <2>2. Homogenised(z, a, b, h, m, f) /\ Mod(z - a * f) * b \in Int
    BY <1>1, <1>2, <2>1, Homogenise
  <2> QED
    BY <2>2
<1>7. C(n) \in Int /\ Mod(C(n) + f) = Mod(u)
  <2> DEFINE s == c - t
  <2>1. s \in Int /\ s + f = u /\ C(n) = Mod(s)
    OBVIOUS
  <2> HIDE DEF s, f, u
  <2>2. Mod(s) \in Int /\ Mod(Mod(s) + f) = Mod(s + f)
    BY <1>2, <2>1, Residues, Reduced
  <2> QED
    BY <2>1, <2>2
<1>8. ((-1) * h) * x = h * z /\ (-1) * t = u
  BY <1>1, SMT
<1>9. Mod(h * z) = Mod(v + m * f)
  BY <1>6 DEF Homogenised
<1>10. Mod(((-1) * h) * x) = Mod(v + m * f)
  BY <1>8, <1>9
<1>11. Public(n) = f
  OBVIOUS
<1>12. Mod((-1) * t) = Mod(C(n) + f)
  BY <1>7, <1>8
<1> HIDE DEF v, f
<1> QED
  BY <1>2, <1>5, <1>6, <1>7, <1>10, <1>11, <1>12 DEF BlockRight, h, m

\* C[3] to C[2 + K]
LEMMA FoldB == ASSUME Bound, NEW n \in Bs PROVE FoldRight(n)
<1> DEFINE i == n - 2
           off == stmt.offsets[LEval + stmt.c[i]]
           j == b_offset + i
           p == commitment[j]
           r == KPlus(commitment, off)
           k == key[j]
           w == W[j]
           ko == KeyPlus(off)
           wo == WPlus(off)
           x == Times(k, ko)
           t == Times(w, wo)
           c == stmt.mm[i]
<1>1. n \in 1 .. NumScalars /\ n \in 0 .. NumScalars /\ i \in 0 .. (K - 1) /\ j \in 0 .. (25 + K)
  BY Layout DEF Bs
<1>2. off \in F /\ c \in F /\ c \in Int /\ Delta \in Int
  <2>1. off \in F /\ c \in F
    BY <1>1, Entries
  <2> QED
    BY <2>1, Entries, Ranges
<1>3. HasValue(p, 1, k, w) /\ k \in Int /\ w \in Int
  BY <1>1, Entries
<1>4. HasValue(r, 1, ko, wo) /\ ko \in Int /\ wo \in Int
  BY <1>2, Entries
<1>5. Block(commitment, n) = Mul(p, r) /\ Public(n) = -c
  BY <1>1, BlockOf DEF TermB
<1>6. VerifierBlock(n) = Delta_three * Mod(c * Delta_two - k * ko)
  <2>1. VerifierBlock(n) = Delta_three * check_b(i)
    BY <1>1, BlockOf
  <2>2. check_b(i) = Mod(c * Delta_two - k * ko)
    BY DEF check_b, q
  <2> QED
    BY <2>1, <2>2
<1>7. C(n) = Mod(c - w * wo)
  BY <1>1, ConstraintOf
<1>8. Delta_two \in Int /\ Delta_three \in Int /\ Mod(Delta_two) = Mod(Pow[2]) /\ Mod(Delta_three) = Mod(Pow[3])
  BY <1>2, Powers
<1>9. IsProduct(Pow[5], Pow[2], Pow[3]) /\ 2 \in 0 .. 5 /\ 3 \in 0 .. 5
  BY <1>2, PowerProducts DEF IsProduct
<1> DEFINE a == Delta_two
           b == Delta_three
<1> HIDE DEF off, j, p, r, k, w, ko, wo, c, a, b
<1>10. HasValue(Block(commitment, n), 2, x, t)
  BY <1>2, <1>3, <1>4, <1>5, PairValue
<1>11. x \in Int /\ t \in Int
  BY <1>3, <1>4, TimesCommutes
<1>12. VerifierBlock(n) = b * Mod(c * a - x)
  <2> DEFINE ca == c * a
             kk == k * ko
  <2>1. ca \in Int /\ kk \in Int
    BY <1>2, <1>3, <1>4, <1>8, SMT DEF a
  <2>2. VerifierBlock(n) = b * Mod(ca - kk)
    BY <1>6 DEF a, b
  <2>3. x = Mod(kk)
    BY DEF Times
  <2> HIDE DEF ca, kk
  <2>4. Mod(ca - Mod(kk)) = Mod(ca - kk)
    BY <2>1, Reduced
  <2> QED
    BY <2>2, <2>3, <2>4 DEF ca
<1>13. C(n) = Mod(c - t)
  <2> DEFINE ww == w * wo
  <2>1. ww \in Int
    BY <1>3, <1>4, SMT
  <2>2. t = Mod(ww)
    BY DEF Times
  <2> HIDE DEF ww
  <2>3. Mod(c - Mod(ww)) = Mod(c - ww)
    BY <1>2, <2>1, Reduced
  <2> QED
    BY <1>7, <2>2, <2>3 DEF ww
<1>14. Public(n) = -c /\ a \in Int /\ b \in Int /\ Mod(a) = Mod(Pow[2]) /\ Mod(b) = Mod(Pow[3])
  BY <1>5, <1>8 DEF a, b
<1> HIDE DEF x, t
<1>15. BlockRight(n, 2, 3, x, t, -1)
  BY <1>1, <1>2, <1>9, <1>10, <1>11, <1>12, <1>13, <1>14, BlockOfMinus
<1>16. 2 \in Nat /\ 3 \in Nat /\ 5 = 3 + 2
  OBVIOUS
<1> QED
  BY <1>1, <1>15, <1>16, FoldMinus

\* A committed value less a product of five.
LEMMA FoldOfPosition ==
  ASSUME Bound, NEW n \in 1 .. NumScalars, n \notin Bs, NEW j \in 0 .. (25 + K),
         NEW p, NEW x, NEW t, HasValue(p, 5, x, t),
         Block(commitment, n) = Minus(shift_up(5, commitment[j]), p),
         VerifierBlock(n) = Mod(key[j] * Delta_four - x), C(n) = Mod(W[j] - t), Public(n) = 0
  PROVE  FoldRight(n)
<1> DEFINE k == key[j]
           w == W[j]
           m == Pow[4]
           mk == m * k
           dk == k * Delta_four
           y == mk - x
           u == w - t
           v == VerifierBlock(n)
           o == commitment[j]
<1>1. HasValue(o, 1, k, w) /\ k \in Int /\ w \in Int /\ Delta \in Int
  BY Entries
<1>2. x \in Int /\ t \in Int
  BY DEF HasValue
<1>3. m \in Int /\ Delta_four \in Int /\ Mod(Delta_four) = Mod(m) /\ Pow[0] = 1
  <2>1. Pow \in [0 .. 5 -> Int] /\ 4 \in 0 .. 5
    BY <1>1, Powers
  <2> QED
    BY <1>1, <2>1, Powers
<1> HIDE DEF m
<1>4. mk \in Int /\ dk \in Int
  BY <1>1, <1>3, SMT
<1>5. Mod(dk) = Mod(mk)
  <2> HIDE DEF k
  <2>1. Times(Delta_four, k) = Times(m, k)
    BY <1>1, <1>3, CongruentTimes
  <2>2. Times(Delta_four, k) = Times(k, Delta_four)
    BY <1>1, <1>3, TimesCommutes
  <2> QED
    BY <2>1, <2>2 DEF Times
<1>6. HasValue(shift_up(5, o), 5, mk, w)
  <2>1. 1 \in Nat /\ 4 \in Nat /\ 5 \in Nat /\ 5 = 4 + 1 /\ 5 <= 5
    OBVIOUS
  <2> HIDE DEF o, k, w
  <2>2. HasValue(shift_up(5, o), 5, Pow[4] * k, w)
    BY <1>1, <2>1, ShiftValue
  <2> QED
    BY <2>2 DEF m
<1> HIDE DEF k, w, mk, dk, o
<1>7. HasValue(Block(commitment, n), 5, y, u)
  <2>1. 5 \in Nat /\ 5 <= 5
    OBVIOUS
  <2>2. HasValue(Minus(shift_up(5, o), p), 5, mk - x, w - t)
    BY <1>1, <1>6, <2>1, MinusValue
  <2> QED
    BY <2>2 DEF o
<1>8. y \in Int /\ u \in Int
  BY <1>1, <1>2, <1>4
<1>9. v \in Int /\ Mod(v) = Mod(y)
  <2> DEFINE z == dk - x
  <2>1. z \in Int /\ v = Mod(z)
    BY <1>2, <1>4 DEF dk, k
  <2>2. SameDifference(dk, mk, x, x)
    BY <1>2, <1>4, <1>5, CongruentBoth
  <2>3. Mod(z) = Mod(y)
    BY <2>2 DEF SameDifference
  <2> HIDE DEF z, v, y
  <2> QED
    BY <2>1, <2>3, Residues
<1>10. Pow[0] * y = y
  BY <1>3, <1>8
<1> HIDE DEF y, v
<1>11. n \in 0 .. NumScalars /\ 0 \in 0 .. 5 /\ C(n) = Mod(u)
  BY DEF w
<1>12. VerifierBlock(n) \in Int /\ Mod(VerifierBlock(n)) = Mod(Pow[0] * y)
  BY <1>9, <1>10 DEF v
<1> HIDE DEF u
<1>13. BlockRight(n, 5, 0, y, u, 1)
  BY <1>7, <1>8, <1>11, <1>12, BlockOfZero
<1>14. 5 \in Nat /\ 0 \in Nat /\ 5 = 0 + 5
  OBVIOUS
<1> QED
  BY <1>13, <1>14, FoldPlain

\* The two products of v.
LEMMA FoldC == ASSUME Bound, NEW n \in Cs PROVE FoldRight(n)
<1> DEFINE h == n - (2 + K)
           from == v_offset + h * HALF
           j == c0_pos + h
           k1 == key[from]
           k2 == key[from + 1]
           k3 == key[from + 2]
           k4 == key[from + 3]
           k5 == key[from + 4]
           w1 == W[from]
           w2 == W[from + 1]
           w3 == W[from + 2]
           w4 == W[from + 3]
           w5 == W[from + 4]
           p1 == commitment[from]
           p2 == commitment[from + 1]
           p3 == commitment[from + 2]
           p4 == commitment[from + 3]
           p5 == commitment[from + 4]
           p == ProductV(commitment, from)
           x == Five(k1, k2, k3, k4, k5)
           t == Five(w1, w2, w3, w4, w5)
<1>1. n \in 1 .. NumScalars /\ n \in 0 .. NumScalars /\ n \notin Bs /\ h \in {0, 1} /\ j \in 0 .. (25 + K)
  BY Layout DEF Cs, Bs
<1>2. from \in {1, 6}
  <2>1. h * 5 \in {0, 5}
    BY <1>1
  <2> QED
    BY <2>1, Layout
<1>3. /\ from \in 0 .. (25 + K) /\ from + 1 \in 0 .. (25 + K) /\ from + 2 \in 0 .. (25 + K)
      /\ from + 3 \in 0 .. (25 + K) /\ from + 4 \in 0 .. (25 + K)
  BY <1>2, Layout
<1>4. Delta \in Int
  BY Entries
<1>5. /\ HasValue(p1, 1, k1, w1) /\ HasValue(p2, 1, k2, w2) /\ HasValue(p3, 1, k3, w3)
      /\ HasValue(p4, 1, k4, w4) /\ HasValue(p5, 1, k5, w5)
  BY <1>3, Entries
<1>6. Block(commitment, n) = Minus(shift_up(5, commitment[j]), p) /\ Public(n) = 0
  BY <1>1, BlockOf DEF CheckC
<1>7. VerifierBlock(n) = Mod(key[j] * Delta_four - x)
  <2>1. VerifierBlock(n) = check_c(h)
    BY <1>1, BlockOf
  <2> QED
    BY <2>1 DEF check_c
<1>8. C(n) = Mod(W[j] - t)
  BY <1>1, ConstraintOf DEF WProduct
<1>9. p = Mul(Mul(Mul(Mul(p1, p2), p3), p4), p5)
  BY DEF ProductV
<1> HIDE DEF h, from, j, k1, k2, k3, k4, k5, w1, w2, w3, w4, w5, p1, p2, p3, p4, p5, p
<1>10. HasValue(Mul(Mul(Mul(p1, p2), p3), p4), 4, Four(k1, k2, k3, k4), Four(w1, w2, w3, w4))
  BY <1>4, <1>5, FourValue
<1>11. HasValue(p, 5, x, t)
  BY <1>4, <1>5, <1>9, <1>10, PairValue DEF Five
<1> HIDE DEF x, t
<1> QED
  BY <1>1, <1>6, <1>7, <1>8, <1>11, FoldOfPosition

\* A square of squares and the products written out.
LEMMA FifthOf ==
  ASSUME NEW y \in Int
  PROVE  Times(Times(Times(y, y), Times(y, y)), y) = Five(y, y, y, y, y)
<1> DEFINE s == Times(y, y)
<1>1. s \in Int /\ s = Times(y, y)
  BY TimesCommutes
<1> HIDE DEF s
<1>2. Times(Times(s, y), y) = Times(s, Times(y, y))
  BY <1>1, TimesAssociates
<1> QED
  BY <1>1, <1>2 DEF Five, Four

LEMMA FiveOf ==
  ASSUME NEW a \in Int, NEW b \in Int, NEW c \in Int
  PROVE  Times(Times(Times(a, a), b), Times(c, c)) = Five(a, a, b, c, c)
<1> DEFINE s == Times(a, a)
           r == Times(s, b)
<1>1. s \in Int
  BY TimesCommutes
<1> HIDE DEF s
<1>2. r \in Int
  BY <1>1, TimesCommutes
<1> HIDE DEF r
<1>3. Times(Times(r, c), c) = Times(r, Times(c, c))
  BY <1>2, TimesAssociates
<1> QED
  BY <1>3 DEF Five, Four, r, s

LEMMA FourOf ==
  ASSUME NEW a \in Int, NEW b \in Int, NEW c \in Int, NEW d \in Int
  PROVE  Times(Times(a, b), Times(c, d)) = Four(a, b, c, d)
<1> DEFINE s == Times(a, b)
<1>1. s \in Int
  BY TimesCommutes
<1> HIDE DEF s
<1>2. Times(Times(s, c), d) = Times(s, Times(c, d))
  BY <1>1, TimesAssociates
<1> QED
  BY <1>2 DEF Four, s

\* The chain of fifth powers.
LEMMA FoldY == ASSUME Bound, NEW n \in Ys PROVE FoldRight(n)
<1> DEFINE i == n - (3 + K)
           h == n - (4 + K)
           j == y_offset + i
           jj == y_offset + h
           k == key[jj]
           w == W[jj]
           o == commitment[jj]
           p == FifthPower(o)
           x == Times(Times(Times(k, k), Times(k, k)), k)
           t == Times(Times(Times(w, w), Times(w, w)), w)
<1>1. /\ n \in 1 .. NumScalars /\ n \in 0 .. NumScalars /\ n \notin Bs /\ h = i - 1
      /\ j \in 0 .. (25 + K) /\ jj \in 0 .. (25 + K)
  BY Layout DEF Ys, Bs
<1>2. Delta \in Int /\ HasValue(o, 1, k, w) /\ w \in Int
  BY <1>1, Entries
<1>3. Block(commitment, n) = Minus(shift_up(5, commitment[j]), p) /\ Public(n) = 0
  <2>1. Block(commitment, n) = CheckY(commitment, i) /\ Public(n) = 0
    BY <1>1, BlockOf
  <2> QED
    BY <1>1, <2>1 DEF CheckY
<1>4. VerifierBlock(n) = Mod(key[j] * Delta_four - x)
  <2>1. VerifierBlock(n) = check_y(i)
    BY <1>1, BlockOf
  <2>2. q(y_offset, i) = key[j] /\ q(y_offset, i - 1) = k
    BY <1>1 DEF q
  <2> HIDE DEF i, j, k
  <2> QED
    BY <2>1, <2>2 DEF check_y
<1>5. C(n) = Mod(W[j] - t)
  <2>1. C(n) = Mod(W[j] - Five(w, w, w, w, w))
    BY <1>1, ConstraintOf DEF WY
  <2>2. t = Five(w, w, w, w, w)
    BY <1>2, FifthOf
  <2> QED
    BY <2>1, <2>2
<1>6. p = Mul(Mul(Mul(o, o), Mul(o, o)), o)
  BY DEF FifthPower
<1> HIDE DEF i, h, j, jj, k, w, o, p
<1>7. HasValue(Mul(o, o), 2, Times(k, k), Times(w, w))
  BY <1>2, PairValue
<1>8. HasValue(Mul(Mul(o, o), Mul(o, o)), 4, Times(Times(k, k), Times(k, k)), Times(Times(w, w), Times(w, w)))
  BY <1>2, <1>7, PairValue
<1>9. HasValue(p, 5, x, t)
  BY <1>2, <1>6, <1>8, PairValue
<1> HIDE DEF x, t
<1> QED
  BY <1>1, <1>3, <1>4, <1>5, <1>9, FoldOfPosition

\* a0
LEMMA FoldA0 == Bound => FoldRight(12 + K)
<1> SUFFICES ASSUME Bound PROVE FoldRight(12 + K)
  OBVIOUS
<1> DEFINE n == 12 + K
           j == a0_pos
           k8 == key[y_offset + 8]
           k4 == key[y_offset + 4]
           k1 == key[y_offset + 1]
           w8 == W[y_offset + 8]
           w4 == W[y_offset + 4]
           w1 == W[y_offset + 1]
           p8 == commitment[y_offset + 8]
           p4 == commitment[y_offset + 4]
           p1 == commitment[y_offset + 1]
           p == Mul(Mul(Mul(p8, p8), p4), Mul(p1, p1))
           x == Times(Times(Times(k8, k8), k4), Times(k1, k1))
           t == Times(Times(Times(w8, w8), w4), Times(w1, w1))
<1>1. /\ n \in 1 .. NumScalars /\ n \in 0 .. NumScalars /\ n \notin Bs /\ j \in 0 .. (25 + K)
      /\ y_offset + 8 \in 0 .. (25 + K) /\ y_offset + 4 \in 0 .. (25 + K) /\ y_offset + 1 \in 0 .. (25 + K)
  BY Layout DEF Bs
<1>2. /\ Delta \in Int /\ HasValue(p8, 1, k8, w8) /\ HasValue(p4, 1, k4, w4) /\ HasValue(p1, 1, k1, w1)
      /\ w8 \in Int /\ w4 \in Int /\ w1 \in Int
  BY <1>1, Entries
<1>3. Block(commitment, n) = Minus(shift_up(5, commitment[j]), p) /\ Public(n) = 0
  BY <1>1, BlockOf DEF CheckA0, y_
<1>4. VerifierBlock(n) = Mod(key[j] * Delta_four - x)
  BY <1>1, BlockOf DEF check_a0, q
<1>5. C(n) = Mod(W[j] - t)
  <2>1. C(n) = Mod(W[j] - Five(w8, w8, w4, w1, w1))
    BY <1>1, ConstraintOf DEF WY
  <2>2. t = Five(w8, w8, w4, w1, w1)
    BY <1>2, FiveOf
  <2> QED
    BY <2>1, <2>2
<1> HIDE DEF n, j, k8, k4, k1, w8, w4, w1, p8, p4, p1
<1>6. HasValue(Mul(p8, p8), 2, Times(k8, k8), Times(w8, w8))
  BY <1>2, PairValue
<1>7. HasValue(Mul(p1, p1), 2, Times(k1, k1), Times(w1, w1))
  BY <1>2, PairValue
<1>8. HasValue(Mul(Mul(p8, p8), p4), 3, Times(Times(k8, k8), k4), Times(Times(w8, w8), w4))
  BY <1>2, <1>6, PairValue
<1>9. HasValue(p, 5, x, t)
  BY <1>2, <1>7, <1>8, PairValue
<1> HIDE DEF x, t, p
<1>10. FoldRight(n)
  BY <1>1, <1>3, <1>4, <1>5, <1>9, FoldOfPosition
<1> QED
  BY <1>10 DEF n

\* What the verifier computes for a1 is the block's value lifted by Delta.
LEMMA LiftedA1 ==
  ASSUME Delta \in Int, NEW s \in Int, NEW f \in Int
  PROVE  /\ Mod(Times(s, Delta_three) - Times(f, Delta)) = Mod(Pow[1] * (Pow[2] * s - f))
         /\ Mod(Times(s, Delta_three) - Times(f, Delta)) \in Int
         /\ Pow[2] * s \in Int /\ Pow[2] * s - f \in Int
<1> DEFINE a == Pow[2]
           b == Pow[3]
           sb == s * b
           fd == f * Delta
           u == Times(s, Delta_three)
           v == Times(f, Delta)
           z == u - v
<1>1. Pow \in [0 .. 5 -> Int] /\ Pow[1] = Delta /\ Delta_three \in Int /\ Mod(Delta_three) = Mod(b)
  BY Powers
<1>2. a \in Int /\ b \in Int
  BY <1>1
<1>3. b = a * Delta
  <2>1. Field!IsPowers(Pow, 5) /\ 5 \in Nat /\ 1 \in 0 .. 5
    BY Powers
  <2>2. \A i \in 0 .. (5 - 1) : Pow[i + 1] = Pow[i] * Pow[1]
    BY <2>1, Field!PowerSum
  <2>3. 2 \in 0 .. (5 - 1) /\ 2 + 1 = 3
    OBVIOUS
  <2> QED
    BY <1>1, <2>2, <2>3
<1> HIDE DEF a, b
<1>4. sb \in Int /\ fd \in Int /\ a * s \in Int /\ a * s - f \in Int
  BY <1>2, SMT
<1>5. Delta * (a * s - f) = sb - fd
  <2>1. Delta * (a * s - f) = s * (a * Delta) - f * Delta
    BY <1>2, SMT
  <2> QED
    BY <1>3, <2>1
<1>6. u \in Int /\ Mod(u) = Mod(sb)
  <2>1. u = Times(s, b)
    BY <1>1, <1>2, CongruentTimes
  <2>2. u \in Int /\ Mod(Times(s, b)) = Mod(s * b)
    BY <1>2, <2>1, TimesRing
  <2> QED
    BY <2>1, <2>2
<1>7. v \in Int /\ Mod(v) = Mod(fd)
  BY TimesRing
<1> HIDE DEF u, v, sb, fd
<1>8. SameDifference(u, sb, v, fd)
  BY <1>4, <1>6, <1>7, CongruentBoth
<1>9. Mod(z) = Mod(sb - fd) /\ z \in Int
  BY <1>6, <1>7, <1>8 DEF SameDifference
<1> HIDE DEF z
<1>10. Mod(z) \in Int
  BY <1>9, Residues
<1>11. Mod(z) = Mod(Delta * (a * s - f))
  BY <1>5, <1>9
<1> QED
  BY <1>1, <1>4, <1>10, <1>11 DEF z, u, v, a

\* a1
LEMMA FoldA1 == Bound => FoldRight(13 + K)
<1> SUFFICES ASSUME Bound PROVE FoldRight(13 + K)
  OBVIOUS
<1> DEFINE n == 13 + K
           k0 == key[y_offset + 0]
           k1 == key[y_offset + 1]
           k3 == key[y_offset + 3]
           ka == key[a0_pos]
           kb == key[a1_pos]
           w0 == W[y_offset + 0]
           w1 == W[y_offset + 1]
           w3 == W[y_offset + 3]
           wa == W[a0_pos]
           wb == W[a1_pos]
           p0 == commitment[y_offset + 0]
           p1 == commitment[y_offset + 1]
           p3 == commitment[y_offset + 3]
           pa == commitment[a0_pos]
           pb == commitment[a1_pos]
           o == Mul(p1, pa)
           p == Mul(Mul(Mul(p0, p0), p3), pb)
           s == Times(k1, ka)
           f == Four(k0, k0, k3, kb)
           ps == Pow[2] * s
           x == ps - f
           r == Times(w1, wa)
           e == Four(w0, w0, w3, wb)
           t == r - e
           v == VerifierBlock(n)
<1>1. /\ n \in 1 .. NumScalars /\ n \in 0 .. NumScalars /\ n \notin Bs
      /\ y_offset + 0 \in 0 .. (25 + K) /\ y_offset + 1 \in 0 .. (25 + K) /\ y_offset + 3 \in 0 .. (25 + K)
      /\ a0_pos \in 0 .. (25 + K) /\ a1_pos \in 0 .. (25 + K)
  BY Layout DEF Bs
<1>2. /\ Delta \in Int /\ HasValue(p0, 1, k0, w0) /\ HasValue(p1, 1, k1, w1) /\ HasValue(p3, 1, k3, w3)
      /\ HasValue(pa, 1, ka, wa) /\ HasValue(pb, 1, kb, wb) /\ w1 \in Int /\ wa \in Int
  BY <1>1, Entries
<1>3. Block(commitment, n) = Minus(shift_up(4, o), p) /\ Public(n) = 0
  BY <1>1, BlockOf DEF CheckA1, y_
<1>4. v = Mod(Times(s, Delta_three) - Times(f, Delta))
  BY <1>1, BlockOf DEF check_a1, q, Five
<1>5. C(n) = Mod(w1 * wa - e)
  BY <1>1, ConstraintOf DEF WY
<1> HIDE DEF n, k0, k1, k3, ka, kb, w0, w1, w3, wa, wb, p0, p1, p3, pa, pb
<1>6. HasValue(o, 2, s, r)
  BY <1>2, PairValue
<1>7. HasValue(p, 4, f, e)
  BY <1>2, FourValue
<1>8. s \in Int /\ r \in Int /\ f \in Int /\ e \in Int
  BY <1>6, <1>7 DEF HasValue
<1>9. r = Mod(w1 * wa)
  BY DEF Times
<1> HIDE DEF s, r, f, e, o, p, v
<1>10. v \in Int /\ Mod(v) = Mod(Pow[1] * x) /\ ps \in Int /\ x \in Int
  <2> DEFINE z == Mod(Times(s, Delta_three) - Times(f, Delta))
             y == Pow[1] * x
  <2>1. z = Mod(y) /\ z \in Int /\ ps \in Int /\ x \in Int
    BY <1>2, <1>8, LiftedA1
  <2>2. Pow[1] = Delta
    BY <1>2, Powers
  <2>3. y \in Int
    BY <1>2, <2>1, <2>2, SMT
  <2>4. v = z
    BY <1>4
  <2> HIDE DEF z, y
  <2>5. Mod(Mod(y)) = Mod(y)
    BY <2>3, Residues
  <2> QED
    BY <2>1, <2>4, <2>5 DEF y
<1>11. HasValue(shift_up(4, o), 4, ps, r)
  <2>1. 2 \in Nat /\ 4 \in Nat /\ 4 = 2 + 2 /\ 4 <= 5
    OBVIOUS
  <2> QED
    BY <1>2, <1>6, <2>1, ShiftValue
<1> HIDE DEF ps
<1>12. HasValue(Block(commitment, n), 4, x, t)
  <2>1. 4 \in Nat /\ 4 <= 5
    OBVIOUS
  <2>2. HasValue(Minus(shift_up(4, o), p), 4, ps - f, r - e)
    BY <1>2, <1>7, <1>11, <2>1, MinusValue
  <2> QED
    BY <1>3, <2>2
<1>13. t \in Int /\ C(n) = Mod(t)
  <2> DEFINE ww == w1 * wa
  <2>1. ww \in Int
    BY <1>2, SMT
  <2>2. C(n) = Mod(ww - e) /\ r = Mod(ww)
    BY <1>5, <1>9
  <2> HIDE DEF ww
  <2>3. Mod(Mod(ww) - e) = Mod(ww - e)
    BY <1>8, <2>1, Reduced
  <2> QED
    BY <1>8, <2>2, <2>3
<1> HIDE DEF x, t
<1>14. 1 \in 0 .. 5 /\ VerifierBlock(n) = v
  BY DEF v
<1>15. BlockRight(n, 4, 1, x, t, 1)
  BY <1>1, <1>3, <1>10, <1>12, <1>13, <1>14, BlockOfZero
<1>16. 4 \in Nat /\ 1 \in Nat /\ 5 = 1 + 4
  OBVIOUS
<1>17. FoldRight(n)
  BY <1>1, <1>15, <1>16, FoldPlain
<1> QED
  BY <1>17 DEF n

\* The inversion.
LEMMA FoldInv == Bound => FoldRight(14 + K)
<1> SUFFICES ASSUME Bound PROVE FoldRight(14 + K)
  OBVIOUS
<1> DEFINE n == 14 + K
           k1 == key[c0_pos]
           k2 == key[c1_pos]
           k3 == key[y_offset + 0]
           k4 == key[a1_pos]
           w1 == W[c0_pos]
           w2 == W[c1_pos]
           w3 == W[y_offset + 0]
           w4 == W[a1_pos]
           p1 == commitment[c0_pos]
           p2 == commitment[c1_pos]
           p3 == commitment[y_offset + 0]
           p4 == commitment[a1_pos]
           x == Four(k1, k2, k3, k4)
           t == Four(w1, w2, w3, w4)
           a == Delta_four
           c == 1
<1>1. /\ n \in 1 .. NumScalars /\ n \in 0 .. NumScalars /\ n \notin Bs /\ y_offset + 0 \in 0 .. (25 + K)
      /\ c0_pos \in 0 .. (25 + K) /\ c1_pos \in 0 .. (25 + K) /\ a1_pos \in 0 .. (25 + K)
  BY Layout DEF Bs
<1>2. /\ Delta \in Int /\ HasValue(p1, 1, k1, w1) /\ HasValue(p2, 1, k2, w2) /\ HasValue(p3, 1, k3, w3)
      /\ HasValue(p4, 1, k4, w4)
      /\ k1 \in Int /\ k2 \in Int /\ k3 \in Int /\ k4 \in Int /\ w1 \in Int /\ w2 \in Int /\ w3 \in Int /\ w4 \in Int
  BY <1>1, Entries
<1>3. Block(commitment, n) = Mul(Mul(p1, p2), Mul(p3, p4)) /\ Public(n) = 1
  BY <1>1, BlockOf DEF CheckInv, y_
<1>4. VerifierBlock(n) = Mod(x - a) * Delta
  BY <1>1, BlockOf DEF check_inv, q
<1>5. C(n) = Mod(t - 1)
  BY <1>1, ConstraintOf DEF WY
<1>6. /\ a \in Int /\ Mod(a) = Mod(Pow[4]) /\ Pow[1] = Delta /\ IsProduct(Pow[5], Pow[4], Pow[1])
      /\ 1 \in 0 .. 5 /\ 4 \in 0 .. 5 /\ c \in Int
  BY <1>2, Powers, PowerProducts DEF IsProduct
<1> HIDE DEF n, k1, k2, k3, k4, w1, w2, w3, w4, p1, p2, p3, p4
<1>7. HasValue(Mul(p1, p2), 2, Times(k1, k2), Times(w1, w2)) /\ HasValue(Mul(p3, p4), 2, Times(k3, k4), Times(w3, w4))
  BY <1>2, PairValue
<1>8. HasValue(Mul(Mul(p1, p2), Mul(p3, p4)), 4, Times(Times(k1, k2), Times(k3, k4)), Times(Times(w1, w2), Times(w3, w4)))
  BY <1>2, <1>7, PairValue
<1>9. x = Times(Times(k1, k2), Times(k3, k4)) /\ t = Times(Times(w1, w2), Times(w3, w4))
  BY <1>2, FourOf
<1> HIDE DEF x, t, a
<1>10. HasValue(Block(commitment, n), 4, x, t)
  BY <1>3, <1>8, <1>9
<1>11. x \in Int /\ t \in Int
  BY <1>10 DEF HasValue
<1>12. VerifierBlock(n) = Mod(x - a * c) * Delta /\ C(n) = Mod(t - c) /\ Public(n) = c
  <2>1. a * 1 = a
    BY <1>6
  <2> QED
    BY <1>3, <1>4, <1>5, <2>1
<1> HIDE DEF c
<1>13. BlockRight(n, 4, 1, x, t, 1)
  BY <1>1, <1>2, <1>6, <1>10, <1>11, <1>12, BlockOfValue
<1>14. 4 \in Nat /\ 1 \in Nat /\ 5 = 1 + 4
  OBVIOUS
<1>15. FoldRight(n)
  BY <1>1, <1>13, <1>14, FoldPlain
<1> QED
  BY <1>15 DEF n

\* Every summand of the prover's polynomial is worth what the verifier adds for it, plus its
\* constant at degree 5, and leads with its constraint and the constant (the blocks of prove
\* and verify).
THEOREM EveryFold == ASSUME Bound, NEW n \in 0 .. NumScalars PROVE FoldRight(n)
BY Classes, FoldU, FoldV, FoldB, FoldC, FoldY, FoldA0, FoldA1, FoldInv

----------------------------------------------------------------------------
(* The folded polynomial, with its masks.                                  *)

\* The sums over all constraints.
PublicRow == [n \in 0 .. NumScalars |-> Scale(scalars, n) * Public(n)]
PublicSum == Total(PublicRow, NumScalars)
VerifierRow == [n \in 0 .. NumScalars |-> VerifierFold(n)]
VerifierSum == Total(VerifierRow, NumScalars)
ConstraintRow == [n \in 0 .. NumScalars |-> Scale(scalars, n) * C(n)]
ConstraintSum == Total(ConstraintRow, NumScalars)
FoldSum == AddUp(5, [n \in 0 .. NumScalars |-> Fold(commitment, scalars, n)], NumScalars)

\* The summands are integers.
LEMMA SummandTypes ==
  ASSUME Bound, NEW n \in 0 .. NumScalars
  PROVE  /\ VerifierFold(n) \in Int
         /\ Scale(scalars, n) * Public(n) \in Int /\ Scale(scalars, n) * C(n) \in Int
         /\ Lead(n) = Scale(scalars, n) * C(n) + 1 * (Scale(scalars, n) * Public(n))
<1> DEFINE s == Scale(scalars, n)
           p == Public(n)
           c == C(n)
           b == VerifierBlock(n)
<1>1. s \in Int /\ p \in Int /\ c \in Int /\ b \in Int
  BY EveryFold, ScaleType DEF FoldRight
<1>2. Lead(n) = s * (c + p) /\ VerifierFold(n) = Mod(s * Mod(b))
  BY DEF Lead, VerifierFold
<1> HIDE DEF s, p, c, b
<1>3. s * p \in Int /\ s * c \in Int /\ s * (c + p) = s * c + s * p
  BY <1>1, SMT
<1>4. Mod(s * Mod(b)) \in Int
  <2> DEFINE m == Mod(b)
  <2>1. m \in Int
    BY <1>1, Residues
  <2> HIDE DEF m
  <2>2. s * m \in Int
    BY <1>1, <2>1, SMT
  <2> QED
    BY <2>2, Residues DEF m
<1>5. s * c + s * p = s * c + 1 * (s * p)
  <2> DEFINE z == s * p
  <2>1. z = 1 * z
    BY <1>3
  <2> HIDE DEF z
  <2> QED
    BY <2>1 DEF z
<1> QED
  BY <1>2, <1>3, <1>4, <1>5 DEF s, p, c, b

\* The sum of the folds has the verifier's sum and the constants homogenised for its value.
LEMMA FoldSumValue ==
  ASSUME Bound
  PROVE  /\ HasValue(FoldSum, 5, VerifierSum + Pow[5] * PublicSum, ConstraintSum + 1 * PublicSum)
         /\ VerifierSum \in Int /\ PublicSum \in Int /\ ConstraintSum \in Int
<1> DEFINE N == NumScalars
           m == Pow[5]
           row == [n \in 0 .. N |-> Fold(commitment, scalars, n)]
           xs == [n \in 0 .. N |-> VerifierRow[n] + m * PublicRow[n]]
           ts == [n \in 0 .. N |-> ConstraintRow[n] + 1 * PublicRow[n]]
<1>1. N \in Nat /\ Delta \in Int /\ m \in Int
  <2>1. N \in Nat /\ Delta \in Int
    BY Layout, Entries
  <2> QED
    BY <2>1, Powers
<1>2. VerifierRow \in [0 .. N -> Int] /\ PublicRow \in [0 .. N -> Int] /\ ConstraintRow \in [0 .. N -> Int]
  <2>1. VerifierRow \in [0 .. N -> Int]
    BY SummandTypes DEF VerifierRow
  <2>2. PublicRow \in [0 .. N -> Int]
    BY SummandTypes DEF PublicRow
  <2>3. ConstraintRow \in [0 .. N -> Int]
    BY SummandTypes DEF ConstraintRow
  <2> QED
    BY <2>1, <2>2, <2>3
<1>3. ASSUME NEW n \in 0 .. N
      PROVE  HasValue(row[n], 5, xs[n], ts[n])
  <2>1. HasValue(Fold(commitment, scalars, n), 5, Value(n), Lead(n))
    BY EveryFold DEF FoldRight
  <2>2. xs[n] = Value(n)
    BY DEF Value, VerifierRow, PublicRow
  <2>3. ts[n] = Lead(n)
    <3>1. Lead(n) = Scale(scalars, n) * C(n) + 1 * (Scale(scalars, n) * Public(n))
      BY SummandTypes
    <3> QED
      BY <3>1 DEF ConstraintRow, PublicRow
  <2> QED
    BY <2>1, <2>2, <2>3
<1> HIDE DEF N, m
<1>4. xs \in [0 .. N -> Int] /\ ts \in [0 .. N -> Int]
  <2>1. \A n \in 0 .. N : xs[n] \in Int /\ ts[n] \in Int
    BY <1>3 DEF HasValue
  <2> DEFINE a(n) == VerifierRow[n] + m * PublicRow[n]
             b(n) == ConstraintRow[n] + 1 * PublicRow[n]
  <2>2. xs = [n \in 0 .. N |-> a(n)] /\ ts = [n \in 0 .. N |-> b(n)]
    OBVIOUS
  <2>3. \A n \in 0 .. N : a(n) \in Int /\ b(n) \in Int
    BY <2>1
  <2> HIDE DEF a, b, xs, ts
  <2> QED
    BY <2>2, <2>3
<1>5. HaveValues(N, row, 5, xs, ts)
  <2> HIDE DEF row, xs, ts
  <2> QED
    BY <1>3, <1>4 DEF HaveValues
<1>6. HasValue(AddUp(5, row, N), 5, Total(xs, N), Total(ts, N))
  <2>1. 5 \in Nat /\ 5 <= 5
    OBVIOUS
  <2> HIDE DEF row, xs, ts
  <2> QED
    BY <1>1, <1>5, <2>1, AddUpValue
<1>7. Total(xs, N) = Total(VerifierRow, N) + m * Total(PublicRow, N)
  <2>1. Field!Total(xs, N) = Field!Total(VerifierRow, N) + m * Field!Total(PublicRow, N)
    BY <1>1, <1>2, Field!SumAdd
  <2> HIDE DEF xs
  <2> QED
    BY <2>1, SameTotal
<1>8. Total(ts, N) = Total(ConstraintRow, N) + 1 * Total(PublicRow, N)
  <2> DEFINE k == 1
  <2>1. k \in Int
    OBVIOUS
  <2>2. ts = [n \in 0 .. N |-> ConstraintRow[n] + k * PublicRow[n]]
    OBVIOUS
  <2> HIDE DEF k, ts
  <2>3. Field!Total(ts, N) = Field!Total(ConstraintRow, N) + k * Field!Total(PublicRow, N)
    BY <1>1, <1>2, <2>1, <2>2, Field!SumAdd
  <2> QED
    BY <2>3, SameTotal DEF k
<1>9. Total(VerifierRow, N) \in Int /\ Total(PublicRow, N) \in Int /\ Total(ConstraintRow, N) \in Int
  BY <1>1, <1>2, SameTotal, Field!SumInt
<1> HIDE DEF row, xs, ts
<1> QED
  BY <1>6, <1>7, <1>8, <1>9 DEF FoldSum, VerifierSum, PublicSum, ConstraintSum, N, m, row

\* The masks' values, as the polynomials and as the verifier have them.
PolyMasks == ((key[mask_pos] + Pow[1] * key[mask_pos + 1]) + Pow[2] * key[mask_pos + 2])
             + Pow[3] * key[mask_pos + 3]

LEMMA MasksAgree ==
  ASSUME Bound
  PROVE  /\ VerifierMasks \in Int /\ PolyMasks \in Int /\ Mod(PolyMasks) = Mod(VerifierMasks)
         /\ key[mask_pos] \in Int /\ Pow[1] * key[mask_pos + 1] \in Int
         /\ Pow[2] * key[mask_pos + 2] \in Int /\ Pow[3] * key[mask_pos + 3] \in Int
<1> DEFINE k0 == key[mask_pos]
           k1 == key[mask_pos + 1]
           k2 == key[mask_pos + 2]
           k3 == key[mask_pos + 3]
           a1 == Delta * k1
           a2 == Pow[2] * k2
           a3 == Pow[3] * k3
           b2 == Delta_two * k2
           b3 == Delta_three * k3
           s == k0 + a1
           s2 == s + a2
           r2 == s + b2
<1>1. mask_pos \in Pos /\ mask_pos + 1 \in Pos /\ mask_pos + 2 \in Pos /\ mask_pos + 3 \in Pos
  BY Layout
<1>2. k0 \in Int /\ k1 \in Int /\ k2 \in Int /\ k3 \in Int /\ Delta \in Int
  BY <1>1, PositionValue
<1>3. /\ Pow[1] = Delta /\ Pow[2] \in Int /\ Pow[3] \in Int /\ Delta_two \in Int /\ Delta_three \in Int
      /\ Mod(Delta_two) = Mod(Pow[2]) /\ Mod(Delta_three) = Mod(Pow[3])
  BY <1>2, Powers
<1>4. PolyMasks = s2 + a3 /\ VerifierMasks = r2 + b3
  BY <1>3 DEF PolyMasks, VerifierMasks
<1> HIDE DEF k0, k1, k2, k3
<1>5. a1 \in Int /\ a2 \in Int /\ a3 \in Int /\ b2 \in Int /\ b3 \in Int
  BY <1>2, <1>3, SMT
<1>6. Mod(a2) = Mod(b2)
  <2>1. Times(Pow[2], k2) = Times(Delta_two, k2)
    BY <1>2, <1>3, CongruentTimes
  <2> QED
    BY <2>1 DEF Times
<1>7. Mod(a3) = Mod(b3)
  <2>1. Times(Pow[3], k3) = Times(Delta_three, k3)
    BY <1>2, <1>3, CongruentTimes
  <2> QED
    BY <2>1 DEF Times
<1> HIDE DEF a1, a2, a3, b2, b3
<1>8. s \in Int /\ s2 \in Int /\ r2 \in Int
  BY <1>2, <1>5
<1>9. Mod(s2) = Mod(r2)
  <2> HIDE DEF s
  <2>1. Mod(s) = Mod(s)
    OBVIOUS
  <2>2. SameSum(s, s, a2, b2)
    BY <1>5, <1>6, <1>8, <2>1, CongruentBoth
  <2> QED
    BY <2>2 DEF SameSum
<1> HIDE DEF s, s2, r2
<1>10. SameSum(s2, r2, a3, b3)
  BY <1>5, <1>7, <1>8, <1>9, CongruentBoth
<1>11. Mod(PolyMasks) = Mod(VerifierMasks)
  BY <1>4, <1>10 DEF SameSum
<1>12. VerifierMasks \in Int /\ PolyMasks \in Int
  BY <1>4, <1>5, <1>8
<1>13. /\ key[mask_pos] \in Int /\ Pow[1] * key[mask_pos + 1] \in Int
       /\ Pow[2] * key[mask_pos + 2] \in Int /\ Pow[3] * key[mask_pos + 3] \in Int
  BY <1>2, <1>3, <1>5 DEF k0, k1, k2, k3, a1, a2, a3
<1> QED
  BY <1>11, <1>12, <1>13

\* The polynomial the prover sends, but for its top coefficient: its value at Delta is the
\* verifier's, up to the constants, and its top coefficient the folded constraints and constants.
THEOREM CheckPolyValue ==
  ASSUME Bound
  PROVE  HasValue(CheckPoly(commitment, scalars), 5,
                  (VerifierSum + VerifierMasks) + Pow[5] * PublicSum, ConstraintSum + PublicSum)
<1> DEFINE f == FoldSum
           m0 == commitment[mask_pos]
           m1 == shift_up(2, commitment[mask_pos + 1])
           m2 == shift_up(3, commitment[mask_pos + 2])
           m3 == shift_up(4, commitment[mask_pos + 3])
           a == VerifierSum
           e == Pow[5] * PublicSum
           x == a + e
           b0 == key[mask_pos]
           b1 == Pow[1] * key[mask_pos + 1]
           b2 == Pow[2] * key[mask_pos + 2]
           b3 == Pow[3] * key[mask_pos + 3]
           t == ConstraintSum + 1 * PublicSum
           u0 == Committed(mask_pos)
           u1 == Committed(mask_pos + 1)
           u2 == Committed(mask_pos + 2)
           u3 == Committed(mask_pos + 3)
           p0 == Plus(f, m0)
           p1 == Plus(p0, m1)
           p2 == Plus(p1, m2)
           p3 == Plus(p2, m3)
           v == VerifierMasks
<1>0. /\ 1 \in Nat /\ 2 \in Nat /\ 3 \in Nat /\ 4 \in Nat /\ 5 \in Nat
      /\ 1 <= 5 /\ 2 <= 5 /\ 3 <= 5 /\ 4 <= 5 /\ 5 <= 5 /\ 2 = 1 + 1 /\ 3 = 2 + 1 /\ 4 = 3 + 1
  OBVIOUS
<1>1. mask_pos \in Pos /\ mask_pos + 1 \in Pos /\ mask_pos + 2 \in Pos /\ mask_pos + 3 \in Pos
  BY Layout
<1>2. /\ HasValue(m0, 1, b0, u0)
      /\ HasValue(commitment[mask_pos + 1], 1, key[mask_pos + 1], u1)
      /\ HasValue(commitment[mask_pos + 2], 1, key[mask_pos + 2], u2)
      /\ HasValue(commitment[mask_pos + 3], 1, key[mask_pos + 3], u3)
  BY <1>1, PositionValue
<1>3. Delta \in Int
  BY Entries
<1>4. HasValue(m1, 2, b1, u1)
  BY <1>0, <1>2, <1>3, ShiftValue
<1>5. HasValue(m2, 3, b2, u2)
  BY <1>0, <1>2, <1>3, ShiftValue
<1>6. HasValue(m3, 4, b3, u3)
  BY <1>0, <1>2, <1>3, ShiftValue
<1>7. CheckPoly(commitment, scalars) = p3
  BY DEF CheckPoly, FoldSum
<1>8. HasValue(f, 5, x, t) /\ a \in Int /\ e \in Int
  <2>1. Pow[5] \in Int /\ PublicSum \in Int /\ a \in Int
    BY <1>3, Powers, FoldSumValue
  <2>2. e \in Int
    BY <2>1, SMT
  <2> QED
    BY <2>1, <2>2, FoldSumValue
<1>9. /\ PolyMasks = ((b0 + b1) + b2) + b3 /\ v \in Int /\ Mod(PolyMasks) = Mod(v)
      /\ b0 \in Int /\ b1 \in Int /\ b2 \in Int /\ b3 \in Int
  BY MasksAgree DEF PolyMasks
<1>10. ConstraintSum + PublicSum \in Int /\ t = ConstraintSum + PublicSum
  BY FoldSumValue
<1> HIDE DEF f, m0, m1, m2, m3, a, e, x, b0, b1, b2, b3, t, u0, u1, u2, u3, v
<1>11. HasValue(p0, 5, x + b0, t)
  <2>1. HasValue(Plus(f, m0), 5, x + b0, IF 1 = 5 THEN t + u0 ELSE t)
    BY <1>0, <1>2, <1>3, <1>8, PlusValue
  <2> QED
    BY <2>1
<1> HIDE DEF p0
<1> DEFINE x0 == x + b0
<1> HIDE DEF x0
<1>12. HasValue(p1, 5, x0 + b1, t)
  <2>1. HasValue(p0, 5, x0, t)
    BY <1>11 DEF x0
  <2>2. HasValue(Plus(p0, m1), 5, x0 + b1, IF 2 = 5 THEN t + u1 ELSE t)
    BY <1>0, <1>3, <1>4, <2>1, PlusValue
  <2> QED
    BY <2>2
<1> HIDE DEF p1
<1> DEFINE x1 == x0 + b1
<1> HIDE DEF x1
<1>13. HasValue(p2, 5, x1 + b2, t)
  <2>1. HasValue(p1, 5, x1, t)
    BY <1>12 DEF x1
  <2>2. HasValue(Plus(p1, m2), 5, x1 + b2, IF 3 = 5 THEN t + u2 ELSE t)
    BY <1>0, <1>3, <1>5, <2>1, PlusValue
  <2> QED
    BY <2>2
<1> HIDE DEF p2
<1> DEFINE x2 == x1 + b2
<1> HIDE DEF x2
<1>14. HasValue(p3, 5, x2 + b3, t)
  <2>1. HasValue(p2, 5, x2, t)
    BY <1>13 DEF x2
  <2>2. HasValue(Plus(p2, m3), 5, x2 + b3, IF 4 = 5 THEN t + u3 ELSE t)
    BY <1>0, <1>3, <1>6, <2>1, PlusValue
  <2> QED
    BY <2>2
<1> HIDE DEF p3
<1> DEFINE y == x2 + b3
           z == (a + v) + e
           w == ConstraintSum + PublicSum
<1>15. y = x + PolyMasks /\ x = a + e /\ PolyMasks \in Int /\ x \in Int
  BY <1>8, <1>9 DEF x2, x1, x0, x
<1>16. z = x + v /\ z \in Int
  BY <1>8, <1>9, <1>15
<1>17. Mod(y) = Mod(z)
  <2>1. Mod(x) = Mod(x)
    OBVIOUS
  <2>2. SameSum(x, x, PolyMasks, v)
    BY <1>9, <1>15, <2>1, CongruentBoth
  <2> QED
    BY <1>15, <1>16, <2>2 DEF SameSum
<1>18. w \in Int /\ t = w /\ Mod(t) = Mod(w)
  BY <1>10
<1> HIDE DEF y, z, w
<1>19. HasValue(p3, 5, y, t)
  BY <1>14 DEF y
<1>20. HasValue(p3, 5, z, w)
  BY <1>16, <1>17, <1>18, <1>19, Rebase
<1> QED
  BY <1>7, <1>20 DEF z, w, a, v, e

----------------------------------------------------------------------------
(* Horner's rule and the verdict.                                          *)

\* r is u + v.
SplitsTo(r, u, v) == r \in Int /\ u \in Int /\ v \in Int /\ Mod(r) = Mod(u + v)

\* One step of the rule, on a sum.
LEMMA HornerStep ==
  ASSUME Delta \in Int, NEW r, NEW u, NEW v, SplitsTo(r, u, v), NEW c, NEW a, NEW b, SplitsTo(c, a, b)
  PROVE  SplitsTo(Mod(Delta * r + c), Delta * u + a, Delta * v + b)
<1> DEFINE x == Delta
           uv == u + v
           ab == a + b
           xr == x * r
           xuv == x * uv
           xu == x * u
           xv == x * v
           ua == xu + a
           vb == xv + b
           z == xr + c
<1>1. /\ r \in Int /\ u \in Int /\ v \in Int /\ c \in Int /\ a \in Int /\ b \in Int /\ x \in Int
      /\ uv \in Int /\ ab \in Int /\ Mod(r) = Mod(uv) /\ Mod(c) = Mod(ab)
  BY DEF SplitsTo
<1>2. xuv = xu + xv
  BY <1>1, SMT
<1> HIDE DEF uv, ab
<1>3. xr \in Int /\ xuv \in Int /\ xu \in Int /\ xv \in Int
  BY <1>1, SMT
<1>4. Mod(xr) = Mod(xuv)
  <2>1. Times(x, r) = Times(x, uv)
    BY <1>1, CongruentTimes
  <2> QED
    BY <2>1 DEF Times
<1> HIDE DEF xr, xuv, xu, xv
<1>5. SameSum(xr, xuv, c, ab)
  BY <1>1, <1>3, <1>4, CongruentBoth
<1>6. ua \in Int /\ vb \in Int /\ z \in Int /\ xuv + ab = ua + vb
  BY <1>1, <1>2, <1>3 DEF ab
<1>7. Mod(z) = Mod(ua + vb)
  BY <1>5, <1>6 DEF SameSum
<1> HIDE DEF ua, vb, z
<1>8. Mod(z) \in Int /\ Mod(Mod(z)) = Mod(z)
  BY <1>6, Residues
<1>9. SplitsTo(Mod(z), ua, vb)
  BY <1>6, <1>7, <1>8 DEF SplitsTo
<1> QED
  BY <1>9 DEF z, ua, vb, xr, xu, xv

\* The four nested products, as an integer.
Nested(p) == Delta * (Delta * (Delta * (Delta * p[4] + p[3]) + p[2]) + p[1]) + p[0]

\* Horner's rule on a sum.
LEMMA HornerSplit ==
  ASSUME Delta \in Int, NEW c, NEW p, NEW e, \A d \in 0 .. 4 : SplitsTo(c[d], p[d], e[d])
  PROVE  SplitsTo(Horner(c), Nested(p), Nested(e)) /\ Horner(c) = Mod(Horner(c))
<1>0. /\ SplitsTo(c[0], p[0], e[0]) /\ SplitsTo(c[1], p[1], e[1]) /\ SplitsTo(c[2], p[2], e[2])
      /\ SplitsTo(c[3], p[3], e[3]) /\ SplitsTo(c[4], p[4], e[4])
  OBVIOUS
<1> DEFINE c3 == Mod(Delta * c[4] + c[3])
           p3 == Delta * p[4] + p[3]
           e3 == Delta * e[4] + e[3]
           c2 == Mod(Delta * c3 + c[2])
           p2 == Delta * p3 + p[2]
           e2 == Delta * e3 + e[2]
           c1 == Mod(Delta * c2 + c[1])
           p1 == Delta * p2 + p[1]
           e1 == Delta * e2 + e[1]
           z == Delta * c1 + c[0]
           c0 == Mod(z)
           p0 == Delta * p1 + p[0]
           e0 == Delta * e1 + e[0]
<1>1. SplitsTo(c3, p3, e3)
  BY <1>0, HornerStep
<1> HIDE DEF c3, p3, e3
<1>2. SplitsTo(c2, p2, e2)
  BY <1>0, <1>1, HornerStep
<1> HIDE DEF c2, p2, e2
<1>3. SplitsTo(c1, p1, e1)
  BY <1>0, <1>2, HornerStep
<1> HIDE DEF c1, p1, e1
<1>4. SplitsTo(c0, p0, e0)
  BY <1>0, <1>3, HornerStep
<1>5. z \in Int
  <2>1. c1 \in Int /\ c[0] \in Int
    BY <1>0, <1>3 DEF SplitsTo
  <2> QED
    BY <2>1, SMT
<1> HIDE DEF z
<1>6. c0 = Mod(c0)
  BY <1>5, Residues
<1> HIDE DEF c0, p0, e0
<1>7. Horner(c) = c0
  BY DEF Horner, c0, z, c1, c2, c3
<1>8. Nested(p) = p0
  BY DEF Nested, p0, p1, p2, p3
<1>9. Nested(e) = e0
  BY DEF Nested, e0, e1, e2, e3
<1> QED
  BY <1>4, <1>6, <1>7, <1>8, <1>9

\* The error of each coefficient.
CoefErrors == [d \in 0 .. 4 |-> Err("coef", d)]
Sent == Coefs(CheckPoly(commitment, scalars))

\* What the verifier computes from the coefficients differs from what it computes itself by
\* the coefficients' errors and by the folded constraints, at the top degree.
LEMMA Difference ==
  ASSUME Bound
  PROVE  /\ Horner(Sent) = VerifierCheck <=> Mod(Nested(CoefErrors) - Pow[5] * ConstraintSum) = 0
         /\ Nested(CoefErrors) \in Int /\ Pow[5] * ConstraintSum \in Int
<1> DEFINE p == CheckPoly(commitment, scalars)
           e == CoefErrors
           c == Sent
           a == VerifierSum + VerifierMasks
           m == Pow[5]
           s == PublicSum
           r == ConstraintSum
           t == p[5]
           ms == m * s
           mt == m * t
           mr == m * r
           rs == r + s
           mrs == m * rs
           u == Nested(p)
           v == Nested(e)
           h == Horner(c)
<1>1. Delta \in Int /\ m \in Int /\ s \in Int /\ r \in Int /\ a \in Int
  <2>1. Delta \in Int
    BY Entries
  <2>2. m \in Int
    BY <2>1, Powers
  <2>3. s \in Int /\ r \in Int /\ VerifierSum \in Int /\ VerifierMasks \in Int
    BY FoldSumValue, MasksAgree
  <2> QED
    BY <2>1, <2>2, <2>3
<1>2. HasValue(p, 5, a + ms, rs)
  BY CheckPolyValue
<1>3. p \in [0 .. 5 -> Int] /\ Mod(Eval(5, p)) = Mod(a + ms) /\ Mod(t) = Mod(rs) /\ t \in Int
  <2>1. p \in [0 .. 5 -> F]
    BY <1>2 DEF HasValue
  <2>2. p \in [0 .. 5 -> Int]
    BY <2>1, Ranges
  <2>3. t \in Int
    BY <2>2
  <2> HIDE DEF p, a, ms, rs
  <2> QED
    BY <1>2, <2>2, <2>3 DEF HasValue
<1>4. \A d \in 0 .. 4 : e[d] \in F /\ e[d] \in Int
  <2> SUFFICES ASSUME NEW d \in 0 .. 4 PROVE e[d] \in F /\ e[d] \in Int
    OBVIOUS
  <2>1. e[d] = Err("coef", d)
    BY DEF CoefErrors
  <2>2. tamper.err \in F
    BY TamperAssumption DEF Bound, Given
  <2> QED
    BY <2>1, <2>2, Ranges DEF Err
<1>5. \A d \in 0 .. 4 : SplitsTo(c[d], p[d], e[d])
  <2> SUFFICES ASSUME NEW d \in 0 .. 4 PROVE SplitsTo(c[d], p[d], e[d])
    OBVIOUS
  <2> DEFINE x == p[d]
             y == e[d]
             z == x + y
  <2>1. c[d] = Mod(z)
    BY DEF Sent, Coefs, CoefErrors
  <2>2. x \in Int /\ y \in Int
    BY <1>3, <1>4
  <2>3. z \in Int
    BY <2>2
  <2> HIDE DEF x, y
  <2>4. Mod(z) \in Int /\ Mod(Mod(z)) = Mod(z)
    BY <2>3, Residues
  <2>5. SplitsTo(Mod(z), x, y)
    BY <2>2, <2>4 DEF SplitsTo
  <2> QED
    BY <2>1, <2>5 DEF x, y
<1> HIDE DEF p, e, c, a
<1>6. SplitsTo(h, u, v) /\ h = Mod(h)
  BY <1>1, <1>5, HornerSplit
<1>7. Eval(5, p) = u + mt
  <2>1. Field!IsPowers(Pow, 5) /\ Pow[1] = Delta
    BY <1>1, Powers
  <2>2. Field!Ev(5, Pow, p) = Delta * (Delta * (Delta * (Delta * p[4] + p[3]) + p[2]) + p[1]) + p[0] + Pow[5] * p[5]
    BY <1>3, <2>1, Field!EvHorner
  <2>3. Field!Ev(5, Pow, p) = Nested(p) + Pow[5] * p[5]
    BY <2>2 DEF Nested
  <2> QED
    BY <2>3 DEF Eval
<1> HIDE DEF u, v, h, t, m, s, r
<1>8. ms \in Int /\ mt \in Int /\ mr \in Int
  BY <1>1, <1>3, SMT
<1>9. rs \in Int /\ mrs = mr + ms /\ u \in Int /\ v \in Int /\ h \in Int /\ Mod(h) = Mod(u + v)
  <2>1. u \in Int /\ v \in Int /\ h \in Int /\ Mod(h) = Mod(u + v)
    BY <1>6 DEF SplitsTo
  <2> QED
    BY <1>1, <2>1, SMT
<1>10. Mod(mt) = Mod(mrs)
  <2> HIDE DEF rs
  <2>1. Times(m, t) = Times(m, rs)
    BY <1>1, <1>3, <1>9, CongruentTimes
  <2> QED
    BY <2>1 DEF Times
<1> HIDE DEF ms, mt, mr, rs, mrs
<1>11. Mod(u + mt) = Mod(a + ms) /\ mrs \in Int /\ u + mt \in Int /\ a + ms \in Int
  BY <1>1, <1>3, <1>7, <1>8, <1>9
<1>12. Mod(u) = Mod(a - mr)
  <2> DEFINE x == u + mt
             y == a + ms
  <2>1. Mod(x) = Mod(y) /\ x \in Int /\ y \in Int
    BY <1>11
  <2>2. x - mt = u /\ y - mrs = a - mr
    BY <1>1, <1>8, <1>9
  <2> HIDE DEF x, y
  <2>3. SameDifference(x, y, mt, mrs)
    BY <1>8, <1>10, <1>11, <2>1, CongruentBoth
  <2> QED
    BY <2>2, <2>3 DEF SameDifference
<1> DEFINE w == v - mr
           b == a - mr
<1>13. w \in Int /\ b \in Int /\ b + v = a + w
  BY <1>1, <1>8, <1>9
<1>14. Mod(h) = Mod(a + w)
  <2> HIDE DEF w, b
  <2>1. Mod(u) = Mod(b) /\ Mod(v) = Mod(v)
    BY <1>12 DEF b
  <2>2. SameSum(u, b, v, v)
    BY <1>9, <1>13, <2>1, CongruentBoth
  <2> QED
    BY <1>9, <1>13, <2>2 DEF SameSum
<1>15. VerifierCheck = Mod(a)
  BY DEF VerifierCheck, a, VerifierSum, VerifierRow
<1> HIDE DEF w, b
<1>16. Mod(a + w) = Mod(a) <=> Mod(w) = 0
  <2>1. ASSUME Mod(a + w) = Mod(a) PROVE Mod(w) = 0
    <3> DEFINE x == a + w
    <3>1. x \in Int /\ x - a = w /\ a - a = 0 /\ Mod(x) = Mod(a)
      BY <1>1, <1>13, <2>1
    <3> HIDE DEF x
    <3>2. SameDifference(x, a, a, a)
      BY <1>1, <3>1, CongruentBoth
    <3> QED
      BY <3>1, <3>2, Residues DEF SameDifference
  <2>2. ASSUME Mod(w) = 0 PROVE Mod(a + w) = Mod(a)
    <3>1. Mod(0) = 0 /\ 0 \in Int /\ a + 0 = a
      BY <1>1, Residues
    <3> DEFINE x == 0
    <3>2. Mod(w) = Mod(x) /\ Mod(a) = Mod(a) /\ x \in Int
      BY <2>2, <3>1
    <3> HIDE DEF x
    <3>3. SameSum(a, a, w, x)
      BY <1>1, <1>13, <3>2, CongruentBoth
    <3> QED
      BY <3>1, <3>3 DEF SameSum, x
  <2> QED
    BY <2>1, <2>2
<1>17. h = VerifierCheck <=> Mod(w) = 0
  BY <1>6, <1>14, <1>15, <1>16
<1> QED
  BY <1>8, <1>9, <1>17 DEF h, c, w, v, e, mr, m, r

\* Congruent to zero or not, whatever the sign.
LEMMA NegativeZero ==
  ASSUME NEW x \in Int
  PROVE  Mod(0 - x) = 0 <=> Mod(x) = 0
<1> DEFINE z == 0
<1>1. z \in Int /\ Mod(z) = 0 /\ z - z = z /\ z - (z - x) = x
  BY Residues
<1>2. ASSUME Mod(x) = 0 PROVE Mod(z - x) = 0
  <2>1. SameDifference(z, z, x, z)
    <3> HIDE DEF z
    <3> QED
      BY <1>1, <1>2, CongruentBoth
  <2> QED
    BY <1>1, <2>1 DEF SameDifference
<1>3. ASSUME Mod(z - x) = 0 PROVE Mod(x) = 0
  <2> DEFINE y == z - x
  <2>1. y \in Int /\ z - y = x /\ Mod(y) = Mod(z) /\ z - z = z
    BY <1>1, <1>3
  <2> HIDE DEF y, z
  <2>2. SameDifference(z, z, y, z)
    BY <1>1, <2>1, CongruentBoth
  <2>3. Mod(z - y) = Mod(z - z)
    BY <2>2 DEF SameDifference
  <2> QED
    BY <1>1, <2>1, <2>3
<1> QED
  BY <1>2, <1>3

\* The errors of the coefficients, at Delta.
LEMMA ErrorsValue ==
  ASSUME Bound
  PROVE  /\ tamper.msg # "coef" => Nested(CoefErrors) = 0
         /\ tamper.msg = "coef" => Mod(Nested(CoefErrors)) = Mod(tamper.err * DeltaPower(tamper.at))
<1> DEFINE p == [d \in 0 .. 5 |-> IF d = 5 THEN 0 ELSE Err("coef", d)]
           t == [d \in 0 .. 5 |-> Pow[d] * p[d]]
<1>1. Delta \in Int /\ tamper.err \in Int
  <2>1. tamper.err \in F
    BY TamperAssumption DEF Bound, Given
  <2> QED
    BY <2>1, Entries, Ranges
<1>2. \A d \in 0 .. 5 : p[d] \in Int
  BY <1>1 DEF Err
<1>3. p \in [0 .. 5 -> Int]
  <2> DEFINE f(d) == IF d = 5 THEN 0 ELSE Err("coef", d)
  <2>1. p = [d \in 0 .. 5 |-> f(d)] /\ \A d \in 0 .. 5 : f(d) \in Int
    BY <1>2
  <2> HIDE DEF f, p
  <2> QED
    BY <2>1
<1>4. Field!IsPowers(Pow, 5) /\ Pow \in [0 .. 5 -> Int] /\ Pow[1] = Delta
  BY <1>1, Powers
<1>5. t \in [0 .. 5 -> Int] /\ \A d \in 0 .. 5 : t[d] = Pow[d] * p[d]
  <2> HIDE DEF p
  <2>1. \A d \in 0 .. 5 : Pow[d] * p[d] \in Int
    BY <1>2, <1>4, SMT
  <2> QED
    BY <2>1
<1>6. Nested(CoefErrors) = Nested(p)
  <2>1. /\ CoefErrors[0] = p[0] /\ CoefErrors[1] = p[1] /\ CoefErrors[2] = p[2]
        /\ CoefErrors[3] = p[3] /\ CoefErrors[4] = p[4]
    BY DEF CoefErrors
  <2> HIDE DEF p
  <2> QED
    BY <2>1 DEF Nested
<1>7. p[5] = 0
  OBVIOUS
<1>8. Nested(p) = Total(t, 5)
  <2> DEFINE n == Delta * (Delta * (Delta * (Delta * p[4] + p[3]) + p[2]) + p[1]) + p[0]
  <2> HIDE DEF p
  <2>1. Field!Ev(5, Pow, p) = n + Pow[5] * p[5]
    BY <1>3, <1>4, Field!EvHorner
  <2>2. Field!Ev(5, Pow, p) = Field!Total(t, 5)
    BY DEF Field!Ev
  <2>3. n = Nested(p)
    BY DEF Nested
  <2>4. Field!Ev(5, Pow, p) \in Int
    BY <1>5, <2>2, Field!SumInt
  <2>5. n \in Int
    <3>1. p[0] \in Int /\ p[1] \in Int /\ p[2] \in Int /\ p[3] \in Int /\ p[4] \in Int
      BY <1>3
    <3> QED
      BY <1>1, <3>1, SMT
  <2> HIDE DEF n, t
  <2>6. n + Pow[5] * p[5] = n
    BY <1>4, <1>7, <2>5
  <2> QED
    BY <2>1, <2>2, <2>3, <2>6, SameTotal
<1>9. ASSUME tamper.msg # "coef" PROVE Nested(CoefErrors) = 0
  <2>1. \A d \in 0 .. 5 : p[d] = 0
    BY <1>9 DEF Err
  <2> HIDE DEF p
  <2>2. \A d \in 0 .. 5 : t[d] = 0
    <3> HIDE DEF t
    <3> SUFFICES ASSUME NEW d \in 0 .. 5 PROVE t[d] = 0
      OBVIOUS
    <3> DEFINE a == Pow[d]
    <3>1. a \in Int /\ t[d] = a * p[d] /\ p[d] = 0
      BY <1>4, <1>5, <2>1
    <3> HIDE DEF a
    <3>2. a * 0 = 0
      BY <3>1
    <3> QED
      BY <3>1, <3>2
  <2> HIDE DEF t
  <2>3. Field!Total(t, 5) = t[0]
    <3>1. 5 \in Nat /\ 0 \in 0 .. 5 /\ \A d \in 0 .. 5 : d # 0 => t[d] = 0
      BY <2>2
    <3> QED
      BY <1>5, <3>1, Field!SumSingle
  <2> QED
    BY <1>6, <1>8, <2>2, <2>3, SameTotal
<1>10. ASSUME tamper.msg = "coef"
       PROVE  Mod(Nested(CoefErrors)) = Mod(tamper.err * DeltaPower(tamper.at))
  <2> DEFINE k == tamper.at
             e == tamper.err
             g == DeltaPower(k)
  <2>1. k \in 0 .. 4
    BY <1>10, TamperAssumption DEF Bound, Given
  <2>2. p[k] = e /\ \A d \in 0 .. 5 : d # k => p[d] = 0
    BY <1>10, <2>1 DEF Err
  <2> HIDE DEF p
  <2>3. \A d \in 0 .. 5 : d # k => t[d] = 0
    <3> HIDE DEF t, k
    <3> SUFFICES ASSUME NEW d \in 0 .. 5, d # k PROVE t[d] = 0
      OBVIOUS
    <3> DEFINE a == Pow[d]
    <3>1. a \in Int /\ t[d] = a * p[d] /\ p[d] = 0
      BY <1>4, <1>5, <2>2
    <3> HIDE DEF a
    <3>2. a * 0 = 0
      BY <3>1
    <3> QED
      BY <3>1, <3>2
  <2>4. t[k] = Pow[k] * e /\ k \in 0 .. 5
    BY <1>5, <2>1, <2>2
  <2> HIDE DEF t, k
  <2>5. Field!Total(t, 5) = t[k]
    BY <1>5, <2>3, <2>4, Field!SumSingle
  <2>6. Nested(CoefErrors) = Pow[k] * e
    BY <1>6, <1>8, <2>4, <2>5, SameTotal
  <2>7. g \in Int /\ Mod(g) = Mod(Pow[k])
    <3>1. /\ Pow[0] = 1 /\ Mod(Pow[2]) = Mod(Delta_two) /\ Mod(Pow[3]) = Mod(Delta_three)
          /\ Mod(Pow[4]) = Mod(Delta_four) /\ Delta_two \in Int /\ Delta_three \in Int /\ Delta_four \in Int
      BY <1>1, Powers
    <3> DEFINE s == <<1, Delta, Delta_two, Delta_three, Delta_four>>
    <3>2. g = s[k + 1]
      BY DEF DeltaPower
    <3>3. s[1] = 1 /\ s[2] = Delta /\ s[3] = Delta_two /\ s[4] = Delta_three /\ s[5] = Delta_four
      OBVIOUS
    <3> HIDE DEF s, g
    <3>4. k = 0 \/ k = 1 \/ k = 2 \/ k = 3 \/ k = 4
      BY <2>1
    <3> QED
      BY <1>1, <1>4, <3>1, <3>2, <3>3, <3>4
  <2>8. Pow[k] \in Int
    BY <1>4, <2>4
  <2> HIDE DEF g, e
  <2>9. Times(Pow[k], e) = Times(g, e) /\ Times(g, e) = Times(e, g)
    <3>1. e \in Int
      BY <1>1 DEF e
    <3>2. Times(Pow[k], e) = Times(g, e)
      BY <2>7, <2>8, <3>1, CongruentTimes
    <3>3. Times(g, e) = Times(e, g)
      BY <2>7, <3>1, TimesCommutes
    <3> QED
      BY <3>2, <3>3
  <2>10. Mod(Nested(CoefErrors)) = Mod(e * g)
    BY <2>6, <2>9 DEF Times
  <2> QED
    BY <2>10 DEF e, g, k
<1> QED
  BY <1>9, <1>10

\* Without an error in the witness every constraint holds.
LEMMA HonestConstraints ==
  ASSUME Bound, tamper.msg # "witness"
  PROVE  ConstraintSum = 0
<1>1. \A j \in 0 .. (mask_pos - 1) : Committed(j) = stmt.w[j]
  <2> SUFFICES ASSUME NEW j \in 0 .. (mask_pos - 1) PROVE Committed(j) = stmt.w[j]
    OBVIOUS
  <2>1. j < mask_pos /\ Err("witness", j) = 0
    BY Ranges DEF Err
  <2>2. stmt.w \in [0 .. (mask_pos - 1) -> F]
    BY ZkAssumption DEF Bound, Given
  <2> DEFINE x == stmt.w[j]
  <2>3. x \in F /\ x \in Int
    BY <2>2, Ranges
  <2>4. Committed(j) = Mod(x + 0)
    BY <2>1 DEF Committed
  <2> HIDE DEF x
  <2>5. x + 0 = x /\ Mod(x) = x
    BY <2>3, Residues
  <2> QED
    BY <2>4, <2>5 DEF x
<1>2. W = stmt.w
  <2>1. stmt.w \in [0 .. (mask_pos - 1) -> F]
    BY ZkAssumption DEF Bound, Given
  <2> QED
    BY <1>1, <2>1 DEF W
<1>3. \A n \in 0 .. NumScalars : C(n) = 0
  BY <1>2, HonestAssumption DEF Bound, Given, C
<1>4. \A n \in 0 .. NumScalars : ConstraintRow[n] = 0
  <2> SUFFICES ASSUME NEW n \in 0 .. NumScalars PROVE ConstraintRow[n] = 0
    OBVIOUS
  <2> DEFINE s == Scale(scalars, n)
  <2>1. ConstraintRow[n] = s * 0
    BY <1>3 DEF ConstraintRow
  <2>2. s \in Int
    BY ScaleType
  <2> HIDE DEF s
  <2> QED
    BY <2>1, <2>2
<1>5. ConstraintRow \in [0 .. NumScalars -> Int] /\ NumScalars \in Nat /\ 0 \in 0 .. NumScalars
  <2>1. ConstraintRow = [n \in 0 .. NumScalars |-> ConstraintRow[n]]
    BY DEF ConstraintRow
  <2> QED
    BY <1>4, <2>1, Layout
<1>6. Field!Total(ConstraintRow, NumScalars) = ConstraintRow[0]
  BY <1>4, <1>5, Field!SumSingle
<1> QED
  BY <1>4, <1>5, <1>6, SameTotal DEF ConstraintSum

\* The verdict on what was sent, for each kind of run.
LEMMA VerdictOf ==
  ASSUME Bound
  PROVE  /\ tamper.msg = "none" => Horner(Sent) = VerifierCheck
         /\ tamper.msg = "witness" => (Horner(Sent) = VerifierCheck <=> Mod(Folded * Delta_five) = 0)
         /\ tamper.msg = "coef" =>
              (Horner(Sent) = VerifierCheck <=> Mod(tamper.err * DeltaPower(tamper.at)) = 0)
<1> DEFINE e == Nested(CoefErrors)
           r == ConstraintSum
           m == Pow[5]
           mr == m * r
           verdict == Horner(Sent) = VerifierCheck
<1>1. (verdict <=> Mod(e - mr) = 0) /\ e \in Int /\ mr \in Int
  BY Difference
<1>2. Delta \in Int /\ r \in Int /\ m \in Int /\ Delta_five \in Int /\ Mod(m) = Mod(Delta_five)
  <2>1. Delta \in Int /\ r \in Int
    BY Entries, FoldSumValue
  <2> QED
    BY <2>1, Powers
<1> HIDE DEF verdict
<1>3. ASSUME tamper.msg = "witness"
      PROVE  verdict <=> Mod(Folded * Delta_five) = 0
  <2>1. e = 0
    BY <1>3, ErrorsValue
  <2>2. Folded = Mod(r)
    BY DEF Folded, ConstraintSum, ConstraintRow, C, W
  <2> HIDE DEF e, r, m, mr
  <2>3. verdict <=> Mod(mr) = 0
    <3>1. Mod(0 - mr) = 0 <=> Mod(mr) = 0
      BY <1>1, NegativeZero
    <3> QED
      BY <1>1, <2>1, <3>1
  <2>4. Mod(mr) = Mod(Folded * Delta_five)
    <3> DEFINE f == Mod(r)
    <3>1. f \in Int /\ Mod(f) = Mod(r)
      BY <1>2, Residues
    <3> HIDE DEF f
    <3>2. Times(m, r) = Times(Delta_five, f) /\ Times(Delta_five, f) = Times(f, Delta_five)
      BY <1>2, <3>1, CongruentTimes, TimesCommutes
    <3> QED
      BY <2>2, <3>2 DEF Times, mr, f
  <2> QED
    BY <2>3, <2>4
<1>4. ASSUME tamper.msg # "witness"
      PROVE  verdict <=> Mod(e) = 0
  <2>1. r = 0
    BY <1>4, HonestConstraints
  <2> HIDE DEF e, r, m
  <2>2. mr = 0
    BY <1>2, <2>1
  <2> HIDE DEF mr
  <2>3. e - mr = e
    BY <1>1, <2>2
  <2> QED
    BY <1>1, <2>3
<1>5. ASSUME tamper.msg = "none" PROVE verdict
  <2>1. e = 0
    BY <1>5, ErrorsValue
  <2> QED
    BY <1>4, <1>5, <2>1, Residues
<1>6. ASSUME tamper.msg = "coef"
      PROVE  verdict <=> Mod(tamper.err * DeltaPower(tamper.at)) = 0
  BY <1>4, <1>6, ErrorsValue
<1> QED
  BY <1>3, <1>5, <1>6 DEF verdict

----------------------------------------------------------------------------
(* The run up to the verdict.                                              *)

\* What the verifier decides on.
Decides ==
  /\ vpc \in {"verify", "done"} => scalars \in Scalars
  /\ ppc = "done" /\ vpc = "verify" => p2v = <<Sent>>
  /\ vpc = "done" => (valid <=> Horner(Sent) = VerifierCheck)

\* A step that leaves the two sides' values alone leaves the verdict's two sides alone.
LEMMA FixedVerdict ==
  ASSUME UNCHANGED <<stmt, tamper, commitment, key, Delta, scalars>>
  PROVE  Sent' = Sent /\ VerifierCheck' = VerifierCheck /\ Horner(Sent)' = Horner(Sent)
<1>1. \A n : Block(commitment, n)' = Block(commitment, n)
  BY DEF Block, CheckU, CheckV, GammaV, TermB, CheckC, ProductV, CheckY, CheckA0, CheckA1, CheckInv, y_, KPlus
<1>2. \A n : Fold(commitment, scalars, n)' = Fold(commitment, scalars, n)
  BY <1>1 DEF Fold, Scaled
<1>3. CheckPoly(commitment, scalars)' = CheckPoly(commitment, scalars)
  BY <1>2 DEF CheckPoly
<1>4. Sent' = Sent
  BY <1>3 DEF Sent, Coefs, Err
<1>5. Horner(Sent)' = Horner(Sent)
  BY <1>4 DEF Horner
<1>6. \A n : VerifierBlock(n)' = VerifierBlock(n)
  BY DEF VerifierBlock, u_check, v_check, check_b, check_c, check_y, check_a0, check_a1, check_inv,
     gammav, q, KeyPlus, Delta_two, Delta_three, Delta_four
<1>7. \A n : VerifierFold(n)' = VerifierFold(n)
  BY <1>6 DEF VerifierFold
<1>8. VerifierMasks' = VerifierMasks
  BY DEF VerifierMasks, Delta_two, Delta_three
<1>9. VerifierCheck' = VerifierCheck
  BY <1>7, <1>8 DEF VerifierCheck
<1> QED
  BY <1>4, <1>5, <1>9

LEMMA DecidesInit == ZkInit => Decides
BY DEF ZkInit, Decides

\* Every step keeps it.
LEMMA DecidesStep == Inv /\ Decides /\ [ZkNext]_zkVars => Decides'
<1> SUFFICES ASSUME Inv, Decides, [ZkNext]_zkVars PROVE Decides'
  OBVIOUS
<1>1. Stage
  BY DEF Inv
<1>2. CASE Commit
  <2>1. At("commit", "derand", <<>>, <<>>)
    BY <1>1, <1>2 DEF Commit, Stage, At
  <2>2. vpc' = "derand"
    BY <1>2, <2>1 DEF Commit, verifier, At
  <2> QED
    BY <2>2 DEF Decides
<1>3. CASE CommitCheck
  <2>1. At("checkSeed", "check", <<>>, <<checkGamma>>)
    BY <1>1, <1>3 DEF CommitCheck, Stage, At
  <2>2. vpc' = "check"
    BY <1>3, <2>1 DEF CommitCheck, verifier, At
  <2> QED
    BY <2>2 DEF Decides
<1>4. CASE Prove
  <2>1. At("proveSeed", "verify", <<>>, <<scalars>>)
    BY <1>1, <1>4 DEF Prove, Stage, At
  <2>2. UNCHANGED <<stmt, tamper, commitment, key, Delta, scalars>> /\ vpc' = "verify" /\ ppc' = "done"
    BY <1>4, <2>1 DEF Prove, verifier, setup, At
  <2>3. p2v' = <<Sent>>
    <3>1. p2v = <<>> /\ Head(v2p) = scalars
      BY <2>1 DEF At
    <3>2. p2v' = Append(p2v, Sent)
      BY <1>4, <3>1 DEF Prove, Sent
    <3> QED
      BY <3>1, <3>2
  <2>4. scalars' \in Scalars
    BY <2>1, <2>2 DEF At, Decides
  <2>5. p2v' = <<Sent>>'
    <3>1. Sent' = Sent
      BY <2>2, FixedVerdict
    <3> QED
      BY <2>3, <3>1
  <2> QED
    BY <2>2, <2>4, <2>5 DEF Decides
<1>5. CASE ReceiveDerand
  <2>1. vpc' = "check"
    BY <1>5 DEF ReceiveDerand
  <2> QED
    BY <2>1 DEF Decides
<1>6. CASE ReceiveCheck
  <2>1. At("proveSeed", "check", <<CheckMessage(checkGamma)>>, <<>>)
    BY <1>1, <1>6 DEF ReceiveCheck, Stage, At
  <2>2. ppc' = "proveSeed"
    BY <1>6, <2>1 DEF ReceiveCheck, At
  <2>3. \/ vpc' = "verify" /\ scalars' \in Scalars
       \/ vpc' = "rejected"
    BY <1>6 DEF ReceiveCheck
  <2> QED
    BY <2>2, <2>3 DEF Decides
<1>7. CASE Verify
  <2>1. ppc = "done" /\ vpc = "verify"
    BY <1>1, <1>7 DEF Verify, Stage, At
  <2>2. p2v = <<Sent>> /\ scalars \in Scalars
    BY <2>1 DEF Decides
  <2>3. UNCHANGED <<stmt, tamper, commitment, key, Delta, scalars>> /\ vpc' = "done"
    BY <1>7 DEF Verify, setup
  <2>4. Head(p2v) = Sent
    BY <2>2
  <2>5. valid' <=> Horner(Sent) = VerifierCheck
    BY <1>7, <2>4 DEF Verify
  <2>6. (valid <=> Horner(Sent) = VerifierCheck)'
    <3>1. Horner(Sent)' = Horner(Sent) /\ VerifierCheck' = VerifierCheck
      BY <2>3, FixedVerdict
    <3> QED
      BY <2>5, <3>1
  <2> QED
    BY <2>2, <2>3, <2>6 DEF Decides
<1>8. CASE UNCHANGED zkVars
  <2>1. UNCHANGED <<stmt, tamper, commitment, key, Delta, scalars>> /\ UNCHANGED <<ppc, vpc, p2v, valid>>
    BY <1>8 DEF zkVars
  <2>2. Sent' = Sent /\ VerifierCheck' = VerifierCheck /\ Horner(Sent)' = Horner(Sent)
    BY <2>1, FixedVerdict
  <2> QED
    BY <2>1, <2>2 DEF Decides
<1> QED
  BY <1>2, <1>3, <1>4, <1>5, <1>6, <1>7, <1>8 DEF ZkNext

\* At the verdict the keys are the values at Delta, unless it was the shift or the check
\* that was changed.
LEMMA BoundThen ==
  ASSUME Inv, Decides, CommitmentBinds, vpc = "done", tamper.msg \in {"none", "witness", "coef"}
  PROVE  Bound
<1>1. Given /\ commitment = Polynomials /\ Delta = Combine(hi)
  BY DEF Inv, Stage, At, Knows
<1>2. \A j \in Pos : key[j] = AtDelta(j)
  BY DEF CommitmentBinds, Missed
<1>3. scalars \in Scalars
  BY DEF Decides
<1> QED
  BY <1>1, <1>2, <1>3 DEF Bound

\* The verdict, once the verifier has decided.
LEMMA VerdictFollows == Inv /\ Decides /\ CommitmentBinds => VerdictExact
<1> SUFFICES ASSUME Inv, Decides, CommitmentBinds PROVE VerdictExact
  OBVIOUS
<1>1. vpc = "done" /\ tamper.msg \in {"none", "witness", "coef"} => Bound
  BY BoundThen
<1>2. tamper.msg = "none" => vpc # "rejected"
  BY DEF CommitmentBinds, Unseen
<1>3. vpc = "done" => (valid <=> Horner(Sent) = VerifierCheck)
  BY DEF Decides
<1>4. vpc = "done" /\ tamper.msg = "none" => valid
  BY <1>1, <1>3, VerdictOf
<1>5. ASSUME vpc = "done", tamper.msg = "witness"
      PROVE  valid <=> Mod(Folded * Delta_five) = 0
  BY <1>1, <1>3, <1>5, VerdictOf
<1>6. ASSUME vpc = "done", tamper.msg = "coef"
      PROVE  valid <=> Mod(tamper.err * DeltaPower(tamper.at)) = 0
  BY <1>1, <1>3, <1>6, VerdictOf
<1>7. vpc = "done" /\ tamper.msg \in {"witness", "coef"} =>
        (valid <=> Mod(IF tamper.msg = "witness" THEN Folded * Delta_five
                   ELSE tamper.err * DeltaPower(tamper.at)) = 0)
  BY <1>5, <1>6
<1> QED
  BY <1>2, <1>4, <1>7 DEF VerdictExact, HonestAccepted

\* The verifier decides on the polynomial the prover computed and on its own sum.
THEOREM Decided == ZkSpec => []Decides
<1> QED
  BY DecidesInit, DecidesStep, Reached, PTL DEF ZkSpec

\* The verdict is exact for every prime, every number of symbols and of correlations, every
\* witness, gamma, mask and scalar: an honest proof is accepted, a wrong witness passes
\* exactly when the folded constraints vanish or Delta is 0, a wrong coefficient exactly when
\* its power of Delta is 0.
THEOREM Exact == ZkSpec => []VerdictExact
<1> QED
  BY Reached, Decided, CommitmentBound, VerdictFollows, PTL

\* No power of Delta vanishes but that of zero.
LEMMA NonzeroProduct ==
  ASSUME NEW a \in Int, NEW b \in Int, Mod(a) # 0, Mod(b) # 0
  PROVE  Mod(Times(a, b)) # 0 /\ Times(a, b) \in Int
<1>1. Mod(Times(a, b)) = Mod(a * b) /\ Times(a, b) \in Int
  BY TimesRing
<1> QED
  BY <1>1, NoZeroDivisors

LEMMA NonzeroPowers ==
  ASSUME Delta \in F, Delta # 0
  PROVE  /\ Delta_five \in Int /\ Mod(Delta_five) # 0
         /\ \A k \in 0 .. 4 : DeltaPower(k) \in Int /\ Mod(DeltaPower(k)) # 0
<1>1. Delta \in Int /\ Mod(Delta) # 0
  BY Residues, Ranges
<1>2. Delta_two \in Int /\ Mod(Delta_two) # 0
  BY <1>1, NonzeroProduct DEF Delta_two
<1>3. Delta_three \in Int /\ Mod(Delta_three) # 0
  BY <1>1, <1>2, NonzeroProduct DEF Delta_three
<1>4. Delta_four \in Int /\ Mod(Delta_four) # 0
  BY <1>2, NonzeroProduct DEF Delta_four
<1>5. Delta_five \in Int /\ Mod(Delta_five) # 0
  BY <1>2, <1>3, NonzeroProduct DEF Delta_five
<1>6. 1 \in Int /\ Mod(1) # 0
  <2>1. 1 \in F
    BY ZkAssumption DEF F
  <2> QED
    BY <2>1, Residues
<1>7. ASSUME NEW k \in 0 .. 4 PROVE DeltaPower(k) \in Int /\ Mod(DeltaPower(k)) # 0
  <2> DEFINE s == <<1, Delta, Delta_two, Delta_three, Delta_four>>
             g == DeltaPower(k)
  <2>1. g = s[k + 1]
    BY DEF DeltaPower
  <2>2. s[1] = 1 /\ s[2] = Delta /\ s[3] = Delta_two /\ s[4] = Delta_three /\ s[5] = Delta_four
    OBVIOUS
  <2>3. k = 0 \/ k = 1 \/ k = 2 \/ k = 3 \/ k = 4
    OBVIOUS
  <2> HIDE DEF s, g
  <2>4. g \in Int /\ Mod(g) # 0
    BY <1>1, <1>2, <1>3, <1>4, <1>6, <2>1, <2>2, <2>3
  <2> QED
    BY <2>4 DEF g
<1> QED
  BY <1>5, <1>7

\* What an accepted proof shows when Delta is not zero: no coefficient was changed, and the
\* folded constraints of the values committed to vanish.
Convinced ==
  vpc = "done" /\ valid /\ Delta # 0 =>
    /\ tamper.msg # "coef"
    /\ tamper.msg = "witness" => Folded = 0

LEMMA ConvincedFollows == Inv /\ Decides /\ CommitmentBinds /\ VerdictExact => Convinced
<1> SUFFICES ASSUME Inv, CommitmentBinds, Decides, VerdictExact, vpc = "done", valid, Delta # 0
             PROVE  tamper.msg # "coef" /\ (tamper.msg = "witness" => Folded = 0)
  BY DEF Convinced
<1>1. Given /\ Delta = Combine(hi)
  BY DEF Inv, Stage, At, Knows
<1>2. Delta \in F
  <2>1. \A x \in [I -> Int] : Combine(x) \in F
    BY <1>1, SumTypes, Products, Residues
  <2> QED
    BY <1>1, <2>1, RowTypes
<1>3. tamper.msg # "coef"
  <2> SUFFICES ASSUME tamper.msg = "coef" PROVE FALSE
    OBVIOUS
  <2> DEFINE e == tamper.err
             g == DeltaPower(tamper.at)
  <2>1. tamper.at \in 0 .. 4 /\ e \in F /\ e # 0
    BY <1>1, TamperAssumption DEF Given
  <2>2. g \in Int /\ Mod(g) # 0
    BY <1>2, <2>1, NonzeroPowers
  <2>3. Mod(e * g) = 0
    BY DEF VerdictExact
  <2> HIDE DEF e, g
  <2>4. e \in Int /\ Mod(e) # 0
    BY <2>1, Residues, Ranges
  <2> QED
    BY <2>2, <2>3, <2>4, NoZeroDivisors
<1>4. ASSUME tamper.msg = "witness" PROVE Folded = 0
  <2>1. Mod(Folded * Delta_five) = 0
    BY <1>4 DEF VerdictExact
  <2>2. Bound
    BY <1>4, BoundThen
  <2>3. Folded \in Int /\ Mod(Folded) = Folded
    <3>1. ConstraintSum \in Int
      BY <2>2, FoldSumValue
    <3>2. Folded = Mod(ConstraintSum)
      BY DEF Folded, ConstraintSum, ConstraintRow, C, W
    <3> QED
      BY <3>1, <3>2, Residues
  <2>4. Delta_five \in Int /\ Mod(Delta_five) # 0
    BY <1>2, NonzeroPowers
  <2> QED
    BY <2>1, <2>3, <2>4, NoZeroDivisors
<1> QED
  BY <1>3, <1>4

THEOREM AcceptedShows == ZkSpec => []Convinced
<1> QED
  BY Reached, Decided, CommitmentBound, Exact, ConvincedFollows, PTL
=============================================================================
