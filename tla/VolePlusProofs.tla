---------------------------- MODULE VolePlusProofs ----------------------------
(***************************************************************************)
(* Proofs about VolePlus for every prime P, length, number of correlations *)
(* and set of candidate values.                                            *)
(*                                                                         *)
(* Residues and the loops of the code come first, from FieldLemmas: inner  *)
(* products are linear and known on rows with one entry or none.  So each  *)
(* quantity the receiver computes is reduced to what it ought to be plus   *)
(* the errors: CorrectedValue after the shift, CheckExact for the check,   *)
(* OutputValue, OutputCvValue and OutputCuValue at the end.                *)
(*                                                                         *)
(* Inv is the inductive invariant: Stage lists the places the two sides can *)
(* be in together with the messages under way, each still the one sent;    *)
(* Knows says what the receiver has at its place.  The properties of        *)
(* VolePlus and the steps of IdealVole follow from it and the values above. *)
(***************************************************************************)
EXTENDS VolePlus, TLAPS

Field == INSTANCE FieldLemmas WITH M <- P

----------------------------------------------------------------------------
(* Residues modulo P.                                                      *)

\* A residue is a field element.
LEMMA ModRange ==
  \A x \in Int : Mod(x) \in F /\ Mod(x) \in Int
BY VolePlusAssumption, Field!ResRange DEF Mod, Field!Res, F

\* Equal residues come from numbers that differ by a multiple of P.
LEMMA ModDiffer ==
  \A x, y \in Int : Mod(x) = Mod(y) => \E k \in Int : x = y + k * P
BY VolePlusAssumption, Field!ResDiffer DEF Mod, Field!Res

\* A multiple of P does not change a residue.
LEMMA ModShift ==
  ASSUME NEW x \in Int, NEW y \in Int, NEW k \in Int, x = y + k * P
  PROVE  Mod(x) = Mod(y)
BY VolePlusAssumption, Field!ResShift DEF Mod, Field!Res

\* Field elements are their own residues, and a residue may be reduced again.
LEMMA ModSmall ==
  /\ \A x \in F : Mod(x) = x
  /\ \A x \in Int : Mod(Mod(x)) = Mod(x)
  /\ Mod(0) = 0
BY VolePlusAssumption, Field!ResSmall DEF Mod, Field!Res, F

\* P has no zero divisors.
LEMMA NoZeroDivisors ==
  ASSUME NEW a \in Int, NEW b \in Int, Mod(a * b) = 0
  PROVE  Mod(a) = 0 \/ Mod(b) = 0
BY PrimeAssumption, Field!Euclid DEF Mod, Field!Res, Field!IsPrime

\* An integer behind a residue.
LEMMA ModWitness ==
  \A x \in Int : \E k \in Int : Mod(x) = x + k * P
<1> TAKE x \in Int
<1>1. Mod(x) \in Int /\ Mod(Mod(x)) = Mod(x)
  BY ModRange, ModSmall
<1> QED
  BY <1>1, ModDiffer

----------------------------------------------------------------------------
(* The loops of the code.                                                  *)

\* dot_product and Combine are the inner products, reduced.
LEMMA Products ==
  /\ \A g, w : dot_product(g, w) = Mod(Field!Inner(Length, g, w))
  /\ \A lam, x : Combine(lam, x) = Mod(Field!Inner(KVole - 1, lam, x))
BY DEF dot_product, Combine, Sum, Field!Inner, Field!Total, I, J

\* Congruent rows have congruent inner products.
LEMMA InnerCongruent ==
  ASSUME NEW n \in Nat, NEW g \in [0 .. n -> Int],
         NEW x \in [0 .. n -> Int], NEW y \in [0 .. n -> Int],
         \A j \in 0 .. n : Mod(x[j]) = Mod(y[j])
  PROVE  Mod(Field!Inner(n, g, x)) = Mod(Field!Inner(n, g, y))
<1>1. P \in Nat \ {0} /\ \A z \in Int : Field!Res(z) = Mod(z)
  BY VolePlusAssumption DEF Mod, Field!Res
<1>2. \A j \in 0 .. n : x[j] \in Int /\ y[j] \in Int
  OBVIOUS
<1>3. Field!Inner(n, g, x) \in Int /\ Field!Inner(n, g, y) \in Int
  BY Field!InnerInt
<1>4. Field!Res(Field!Inner(n, g, x)) = Field!Res(Field!Inner(n, g, y))
  <2>1. \A j \in 0 .. n : Field!Res(x[j]) = Field!Res(y[j])
    BY <1>1, <1>2
  <2> QED
    BY <1>1, <2>1, Field!InnerCongruent
<1> QED
  BY <1>1, <1>3, <1>4

----------------------------------------------------------------------------
(* What a run starts from.                                                 *)

Given == /\ ui \in Us /\ vi \in Vs /\ hi \in Points
         /\ input \in SenderValues /\ h \in Hs /\ tamper \in Tampers

\* The types of what a run is given.
LEMMA GivenTypes ==
  ASSUME Given
  PROVE  /\ ui \in [I \X J -> F] /\ vi \in [I \X J -> F] /\ hi \in [I -> F]
         /\ input.u \in [J -> F] /\ input.v \in [J -> F] /\ h \in F
         /\ tamper.err \in F
         /\ \A g \in Gammas : g \in [J -> F]
         /\ \A g \in Lambdas : g \in [I -> F]
<1>1. ui \in [I \X J -> F] /\ vi \in [I \X J -> F] /\ hi \in [I -> F] /\ h \in F
  BY VolePlusAssumption DEF Given
<1>2. input.u \in [J -> F] /\ input.v \in [J -> F]
  BY VolePlusAssumption DEF Given
<1>3. tamper.err \in F
  BY VolePlusAssumption DEF Given
<1>4. \A g \in Gammas : g \in [J -> F]
  BY VolePlusAssumption
<1>5. \A g \in Lambdas : g \in [I -> F]
  BY VolePlusAssumption
<1> QED
  BY <1>1, <1>2, <1>3, <1>4, <1>5

\* The index sets and the field, as ranges of integers.
LEMMA Ranges ==
  /\ F \subseteq Int /\ P \in Int /\ 0 \in F
  /\ Length \in Nat /\ J = 0 .. Length
  /\ KVole - 1 \in Nat /\ I = 0 .. (KVole - 1) /\ 0 \in I
BY VolePlusAssumption DEF F, I, J

\* Only the entry that `tamper` names has an error.
LEMMA ErrTypes ==
  ASSUME Given
  PROVE  /\ \A m, a : Err(m, a) \in F /\ Err(m, a) \in Int
         /\ \A m, a : tamper.err = 0 => Err(m, a) = 0
         /\ \A m, a : m # tamper.msg => Err(m, a) = 0
         /\ \A m, a : a # tamper.at => Err(m, a) = 0
         /\ Err(tamper.msg, tamper.at) = tamper.err
         /\ \A j : Err("derand", <<0, j>>) = 0
<1>1. tamper.err \in F /\ F \subseteq Int /\ 0 \in F
  BY GivenTypes, Ranges
<1>2. tamper.msg = "derand" => tamper.at \in (I \ {0}) \X J
  BY VolePlusAssumption DEF Given
<1>3. \A j : Err("derand", <<0, j>>) = 0
  <2> TAKE j
  <2>1. CASE tamper.msg = "derand"
    <3>1. tamper.at \in (I \ {0}) \X J
      BY <1>2, <2>1
    <3>2. tamper.at # <<0, j>>
      BY <3>1
    <3> QED
      BY <3>2 DEF Err
  <2>2. CASE tamper.msg # "derand"
    BY <2>2 DEF Err
  <2> QED
    BY <2>1, <2>2
<1> QED
  BY <1>1, <1>3 DEF Err

----------------------------------------------------------------------------
(* The shift: every correlation holds with v_0, up to the error.           *)

Start == [ij \in I \X J |-> Mod(ui[ij] + hi[ij[1]] * vi[ij])]
Corrected == [ij \in I \X J |-> IF ij[1] = 0 THEN Start[ij]
                                ELSE Mod(Start[ij] + hi[ij[1]] * DerandMessage[ij])]
D(i, j) == Err("derand", <<i, j>>)

\* Every corrected entry is u_i + h_i * (v_0 + error), row 0 included.
LEMMA CorrectedValue ==
  ASSUME Given, NEW i \in I, NEW j \in J
  PROVE  Corrected[<<i, j>>] = Mod(ui[<<i, j>>] + hi[i] * (vi[<<0, j>>] + D(i, j)))
<1> DEFINE u == ui[<<i, j>>]
           v == vi[<<i, j>>]
           w == vi[<<0, j>>]
           a == hi[i]
           e == D(i, j)
<1>1. u \in Int /\ v \in Int /\ w \in Int /\ a \in Int /\ e \in Int /\ P \in Int
  <2>1. <<i, j>> \in I \X J /\ <<0, j>> \in I \X J
    BY Ranges
  <2> QED
    BY <2>1, GivenTypes, ErrTypes, Ranges DEF D
<1>2. Start[<<i, j>>] = Mod(u + a * v)
  BY DEF Start
<1>3. CASE i = 0
  <2>1. e = 0 /\ v = w
    BY <1>3, ErrTypes DEF D
  <2>2. Corrected[<<i, j>>] = Start[<<i, j>>]
    BY <1>3 DEF Corrected
  <2> HIDE DEF u, v, w, a, e
  <2>3. u + a * v = u + a * (w + e)
    BY <1>1, <2>1
  <2>4. Corrected[<<i, j>>] = Mod(u + a * (w + e))
    BY <1>2, <2>2, <2>3
  <2> QED
    BY <2>4 DEF u, v, w, a, e
<1>4. CASE i # 0
  <2> DEFINE x == u + a * v
             y == (w - v) + e
             s == Mod(x)
             d == Mod(y)
  <2>1. DerandMessage[<<i, j>>] = d
    BY <1>4 DEF DerandMessage, D
  <2>2. Corrected[<<i, j>>] = Mod(s + a * d)
    BY <1>2, <1>4, <2>1 DEF Corrected
  <2> HIDE DEF u, v, w, a, e
  <2>3. x \in Int /\ y \in Int
    BY <1>1
  <2> HIDE DEF x, y
  <2>4. PICK k \in Int : s = x + k * P
    BY <2>3, ModWitness
  <2>5. PICK m \in Int : d = y + m * P
    BY <2>3, ModWitness
  <2> HIDE DEF s, d
  <2> DEFINE p == s + a * d
             q == u + a * (w + e)
             z == k + a * m
  <2>6. p \in Int /\ q \in Int /\ z \in Int /\ p = q + z * P
    BY <1>1, <2>3, <2>4, <2>5, SMT DEF x, y
  <2> HIDE DEF p, q, z
  <2>7. Mod(p) = Mod(q)
    BY <2>6, ModShift
  <2>8. Corrected[<<i, j>>] = Mod(q)
    BY <2>2, <2>7 DEF p
  <2> QED
    BY <2>8 DEF q, u, w, a, e
<1> QED
  BY <1>3, <1>4

----------------------------------------------------------------------------
(* The check: what the receiver computes from the sender's cu and cv.      *)

Errors(i) == [j \in J |-> D(i, j)]

\* The rows that enter inner products hold integers.
LEMMA RowTypes ==
  ASSUME Given
  PROVE  /\ \A i \in I : Row(ui, i) \in [J -> Int] /\ Row(vi, i) \in [J -> Int]
         /\ \A i \in I : Errors(i) \in [J -> Int]
         /\ \A g \in Gammas : g \in [J -> Int]
         /\ \A g \in Lambdas : g \in [I -> Int]
         /\ \A i \in I : hi[i] \in Int
         /\ hi \in [I -> Int] /\ h \in Int
         /\ input.u \in [J -> Int] /\ input.v \in [J -> Int]
<1>1. \A i \in I : Row(ui, i) \in [J -> Int] /\ Row(vi, i) \in [J -> Int]
  BY GivenTypes, Ranges DEF Row
<1>2. \A i \in I : Errors(i) \in [J -> Int]
  BY ErrTypes DEF Errors, D
<1>3. /\ \A g \in Gammas : g \in [J -> Int]
      /\ \A g \in Lambdas : g \in [I -> Int]
  BY GivenTypes, Ranges
<1>4. /\ hi \in [I -> Int] /\ h \in Int /\ input.u \in [J -> Int] /\ input.v \in [J -> Int]
  BY GivenTypes, Ranges
<1> QED
  BY <1>1, <1>2, <1>3, <1>4

\* The inner product of gamma with a corrected row.
LEMMA CorrectedRow ==
  ASSUME Given, NEW g \in Gammas, NEW i \in I
  PROVE  dot_product(g, Row(Corrected, i))
           = Mod(Field!Inner(Length, g, Row(ui, i))
                 + hi[i] * (Field!Inner(Length, g, Row(vi, 0)) + 1 * Field!Inner(Length, g, Errors(i))))
<1> DEFINE u == Row(ui, i)
           v == Row(vi, 0)
           e == Errors(i)
           a == hi[i]
           z == Field!Plus(Length, v, 1, e)
           w == Field!Plus(Length, u, a, z)
           r == Row(Corrected, i)
<1>1. /\ u \in [0 .. Length -> Int] /\ v \in [0 .. Length -> Int] /\ e \in [0 .. Length -> Int]
      /\ g \in [0 .. Length -> Int] /\ a \in Int /\ 1 \in Int /\ Length \in Nat
  BY RowTypes, Ranges
<1> HIDE DEF u, v, e, a
<1>2. z \in [0 .. Length -> Int] /\ \A j \in 0 .. Length : z[j] = v[j] + 1 * e[j]
  BY <1>1, Field!PlusInt
<1> HIDE DEF z
<1>3. w \in [0 .. Length -> Int] /\ \A j \in 0 .. Length : w[j] = u[j] + a * z[j]
  BY <1>1, <1>2, Field!PlusInt
<1> HIDE DEF w, r
<1>4. \A j \in 0 .. Length : r[j] = Mod(w[j])
  <2> TAKE j \in 0 .. Length
  <2>1. j \in J
    BY Ranges
  <2>2. r[j] = Mod(ui[<<i, j>>] + hi[i] * (vi[<<0, j>>] + D(i, j)))
    BY <2>1, CorrectedValue DEF Row, r
  <2>3. u[j] = ui[<<i, j>>] /\ v[j] = vi[<<0, j>>] /\ e[j] = D(i, j)
    BY <2>1 DEF Row, Errors, u, v, e
  <2>4. z[j] = v[j] + e[j]
    BY <1>1, <1>2
  <2>5. w[j] = u[j] + a * (v[j] + e[j])
    BY <1>3, <2>4
  <2> QED
    BY <2>2, <2>3, <2>5 DEF a
<1>5. r \in [0 .. Length -> Int] /\ \A j \in 0 .. Length : Mod(r[j]) = Mod(w[j])
  <2>1. r = [j \in 0 .. Length |-> r[j]]
    BY Ranges DEF Row, r
  <2>2. \A j \in 0 .. Length : r[j] \in Int /\ Mod(r[j]) = Mod(w[j])
    BY <1>3, <1>4, ModRange, ModSmall
  <2> QED
    BY <2>1, <2>2
<1>6. Mod(Field!Inner(Length, g, r)) = Mod(Field!Inner(Length, g, w))
  BY <1>1, <1>3, <1>5, InnerCongruent
<1>7. Field!Inner(Length, g, w) = Field!Inner(Length, g, u) + a * Field!Inner(Length, g, z)
  <2>1. z \in [0 .. Length -> Int]
    BY <1>2
  <2>2. Field!Inner(Length, g, Field!Plus(Length, u, a, z)) = Field!Inner(Length, g, u) + a * Field!Inner(Length, g, z)
    BY <1>1, <2>1, Field!InnerAdd, ZenonT(40)
  <2> QED
    BY <2>2 DEF w
<1>8. Field!Inner(Length, g, z) = Field!Inner(Length, g, v) + 1 * Field!Inner(Length, g, e)
  BY <1>1, Field!InnerAdd DEF z
<1> QED
  BY <1>6, <1>7, <1>8, Products DEF u, v, e, a, r

\* The check sees exactly this of the errors.
Residual(i) == Err("cu", i) + hi[i] * (Err("cv", 0) - Field!Inner(Length, gamma, Errors(i)))

\* The receiver's check for correlation i holds exactly when the residual vanishes:
\* everything else in it cancels.
LEMMA CheckExact ==
  ASSUME Given, oi = Corrected, gamma \in Gammas, NEW i \in I
  PROVE  /\ Residual(i) \in Int
         /\ CheckHolds(CheckMessage(gamma), i) <=> Mod(Residual(i)) = 0
<1> DEFINE su == Field!Inner(Length, gamma, Row(ui, i))
           sv == Field!Inner(Length, gamma, Row(vi, 0))
           sd == Field!Inner(Length, gamma, Errors(i))
           a == hi[i]
           eu == Err("cu", i)
           ev == Err("cv", 0)
           m1 == Mod(su)
           m2 == Mod(sv)
           cu == Mod(m1 + eu)
           cv == Mod(m2 + ev)
           dp == Mod(su + a * (sv + 1 * sd))
<1>1. su \in Int /\ sv \in Int /\ sd \in Int /\ a \in Int /\ eu \in Int /\ ev \in Int /\ P \in Int
  <2>1. /\ Row(ui, i) \in [0 .. Length -> Int] /\ Row(vi, 0) \in [0 .. Length -> Int]
        /\ Errors(i) \in [0 .. Length -> Int] /\ gamma \in [0 .. Length -> Int]
    BY RowTypes, Ranges
  <2> QED
    BY <2>1, Field!InnerInt, RowTypes, Ranges, ErrTypes
<1>2. CheckHolds(CheckMessage(gamma), i) <=> Mod(cu - dp + a * cv) = 0
  <2>1. CheckMessage(gamma).cu[i] = cu /\ CheckMessage(gamma).cv = cv
    BY Products DEF CheckMessage
  <2>2. dot_product(gamma, Row(oi, i)) = dp
    BY CorrectedRow
  <2> HIDE DEF cu, cv, dp
  <2> QED
    BY <2>1, <2>2 DEF CheckHolds
<1>3. Residual(i) = eu + a * (ev - sd)
  BY DEF Residual
<1> HIDE DEF su, sv, sd, a, eu, ev
<1>4. PICK k1 \in Int : m1 = su + k1 * P
  BY <1>1, ModWitness
<1>5. PICK k2 \in Int : m2 = sv + k2 * P
  BY <1>1, ModWitness
<1> DEFINE x == m1 + eu
           y == m2 + ev
           z == su + a * (sv + 1 * sd)
<1>6. x \in Int /\ y \in Int /\ z \in Int
  <2> HIDE DEF m1, m2
  <2> QED
    BY <1>1, <1>4, <1>5, SMT
<1>7. PICK k3 \in Int : cu = x + k3 * P
  <2> HIDE DEF x
  <2> QED
    BY <1>6, ModWitness DEF x
<1>8. PICK k4 \in Int : cv = y + k4 * P
  <2> HIDE DEF y
  <2> QED
    BY <1>6, ModWitness DEF y
<1>9. PICK k5 \in Int : dp = z + k5 * P
  <2> HIDE DEF z
  <2> QED
    BY <1>6, ModWitness DEF z
<1> HIDE DEF m1, m2, cu, cv, dp
<1> DEFINE p == cu - dp + a * cv
           q == eu + a * (ev - sd)
           n == k1 + k3 - k5 + a * (k2 + k4)
<1>10. p \in Int /\ q \in Int /\ n \in Int
  <2> HIDE DEF x, y, z
  <2> QED
    BY <1>1, <1>6, <1>7, <1>8, <1>9, SMT
<1>11. p = q + n * P
  BY <1>1, <1>4, <1>5, <1>7, <1>8, <1>9, SMT
<1> HIDE DEF p, q, n
<1>12. Mod(p) = Mod(q)
  BY <1>10, <1>11, ModShift
<1> QED
  BY <1>2, <1>3, <1>10, <1>12 DEF p, q

----------------------------------------------------------------------------
(* The outputs, once u' and v' are in.                                     *)

Final == UvMessage(lambda, DeltaPrime(lambda))

\* What reaches o of the errors in the differences.
HiddenErrors(j) == [i \in I |-> hi[i] * D(i, j)]
Carried == [j \in J |-> Field!Inner(KVole - 1, lambda, HiddenErrors(j))]
UErrors == [j \in J |-> Err("u", j)]
VErrors == [j \in J |-> Err("v", j)]

\* The rows of errors hold integers.
LEMMA ErrorRows ==
  ASSUME Given, lambda \in Lambdas
  PROVE  /\ \A j \in J : HiddenErrors(j) \in [0 .. (KVole - 1) -> Int]
         /\ Carried \in [0 .. Length -> Int]
         /\ UErrors \in [0 .. Length -> Int] /\ VErrors \in [0 .. Length -> Int]
<1>1. ASSUME NEW j \in J
      PROVE  HiddenErrors(j) \in [0 .. (KVole - 1) -> Int]
  <2>1. \A i \in I : hi[i] \in Int /\ D(i, j) \in Int
    BY RowTypes, ErrTypes DEF D
  <2>2. \A i \in I : hi[i] * D(i, j) \in Int
    BY <2>1, SMT
  <2> QED
    BY <2>2, Ranges DEF HiddenErrors
<1>2. ASSUME NEW j \in J
      PROVE  Field!Inner(KVole - 1, lambda, HiddenErrors(j)) \in Int
  BY <1>1, Field!InnerInt, RowTypes, Ranges
<1>3. Carried \in [0 .. Length -> Int]
  BY <1>2, Ranges DEF Carried
<1>4. UErrors \in [0 .. Length -> Int] /\ VErrors \in [0 .. Length -> Int]
  BY ErrTypes, Ranges DEF UErrors, VErrors
<1> QED
  BY <1>1, <1>3, <1>4

\* The combination of a corrected column, by the lambdas.
LEMMA CombinedColumn ==
  ASSUME Given, lambda \in Lambdas, NEW j \in J
  PROVE  Combine(lambda, Col(Corrected, j))
           = Mod((Field!Inner(KVole - 1, lambda, Col(ui, j))
                  + vi[<<0, j>>] * Field!Inner(KVole - 1, lambda, hi)) + 1 * Carried[j])
<1> DEFINE n == KVole - 1
           u == Col(ui, j)
           b == vi[<<0, j>>]
           e == HiddenErrors(j)
           z == Field!Plus(n, u, b, hi)
           w == Field!Plus(n, z, 1, e)
           r == Col(Corrected, j)
<1>1. /\ u \in [0 .. n -> Int] /\ hi \in [0 .. n -> Int] /\ e \in [0 .. n -> Int]
      /\ lambda \in [0 .. n -> Int] /\ b \in Int /\ 1 \in Int /\ n \in Nat
  <2>1. u \in [0 .. n -> Int] /\ b \in Int
    BY GivenTypes, Ranges DEF Col
  <2>2. hi \in [0 .. n -> Int] /\ lambda \in [0 .. n -> Int]
    BY RowTypes, Ranges
  <2>3. e \in [0 .. n -> Int]
    BY ErrorRows
  <2>4. n \in Nat /\ 1 \in Int
    BY Ranges
  <2> QED
    BY <2>1, <2>2, <2>3, <2>4
<1>0. n = KVole - 1 /\ I = 0 .. n
  BY Ranges
<1> HIDE DEF n, u, b, e
<1>2. z \in [0 .. n -> Int] /\ \A i \in 0 .. n : z[i] = u[i] + b * hi[i]
  BY <1>1, Field!PlusInt
<1> HIDE DEF z
<1>3. w \in [0 .. n -> Int] /\ \A i \in 0 .. n : w[i] = z[i] + 1 * e[i]
  BY <1>1, <1>2, Field!PlusInt
<1> HIDE DEF w, r
<1>4. \A i \in 0 .. n : r[i] = Mod(w[i])
  <2> TAKE i \in 0 .. n
  <2>1. i \in I
    BY <1>0
  <2>2. r[i] = Mod(ui[<<i, j>>] + hi[i] * (vi[<<0, j>>] + D(i, j)))
    BY <2>1, CorrectedValue DEF Col, r
  <2>3. u[i] = ui[<<i, j>>] /\ e[i] = hi[i] * D(i, j)
    BY <2>1 DEF Col, HiddenErrors, u, e
  <2>4. w[i] = (u[i] + b * hi[i]) + e[i]
    <3>1. e[i] \in Int
      BY <1>1
    <3> QED
      BY <1>2, <1>3, <3>1
  <2> DEFINE p == u[i]
             a == hi[i]
             f == D(i, j)
  <2>5. p \in Int /\ a \in Int /\ f \in Int /\ b \in Int
    BY <1>1, <2>1, RowTypes, ErrTypes DEF D
  <2>6. w[i] = (p + b * a) + a * f
    BY <2>3, <2>4
  <2>7. r[i] = Mod(p + a * (b + f))
    BY <2>2, <2>3 DEF b
  <2> HIDE DEF p, a, f
  <2>8. (p + b * a) + a * f = p + a * (b + f)
    BY <2>5, SMT
  <2> QED
    BY <2>6, <2>7, <2>8
<1>5. r \in [0 .. n -> Int] /\ \A i \in 0 .. n : Mod(r[i]) = Mod(w[i])
  <2>1. r = [i \in 0 .. n |-> r[i]]
    BY <1>0 DEF Col, r
  <2>2. \A i \in 0 .. n : r[i] \in Int /\ Mod(r[i]) = Mod(w[i])
    BY <1>3, <1>4, ModRange, ModSmall
  <2> QED
    BY <2>1, <2>2
<1>6. Mod(Field!Inner(n, lambda, r)) = Mod(Field!Inner(n, lambda, w))
  BY <1>1, <1>3, <1>5, InnerCongruent
<1>7. Field!Inner(n, lambda, w) = Field!Inner(n, lambda, z) + 1 * Field!Inner(n, lambda, e)
  <2>1. z \in [0 .. n -> Int]
    BY <1>2
  <2> QED
    BY <1>1, <2>1, Field!InnerAdd, ZenonT(40) DEF w
<1>8. Field!Inner(n, lambda, z) = Field!Inner(n, lambda, u) + b * Field!Inner(n, lambda, hi)
  BY <1>1, Field!InnerAdd, ZenonT(40) DEF z
<1>9. Field!Inner(n, lambda, e) = Carried[j]
  BY DEF Carried, e, n
<1>10. Combine(lambda, r) = Mod(Field!Inner(n, lambda, r))
  BY Products DEF n
<1>11. Combine(lambda, r)
         = Mod((Field!Inner(n, lambda, u) + b * Field!Inner(n, lambda, hi)) + 1 * Carried[j])
  BY <1>6, <1>7, <1>8, <1>9, <1>10
<1> QED
  BY <1>11 DEF n, u, b, r

\* o is u + h*v up to the errors.
LEMMA OutputValue ==
  ASSUME Given, oi = Corrected, lambda \in Lambdas, NEW j \in J
  PROVE  OutputO(Final)[j]
           = Mod(input.u[j] + h * input.v[j] + UErrors[j] + h * VErrors[j] + Carried[j])
<1> DEFINE su == Field!Inner(KVole - 1, lambda, Col(ui, j))
           sh == Field!Inner(KVole - 1, lambda, hi)
           se == Carried[j]
           b == vi[<<0, j>>]
           u == input.u[j]
           v == input.v[j]
           eu == UErrors[j]
           ev == VErrors[j]
           m1 == Mod(su)
           m2 == Mod(sh)
           delta == Mod(h - m2)
           mu == Mod(delta * b - m1 + u + eu)
           mv == Mod(v - b + ev)
           c == Mod((su + b * sh) + 1 * se)
<1>1. /\ su \in Int /\ sh \in Int /\ se \in Int /\ b \in Int /\ u \in Int /\ v \in Int
      /\ eu \in Int /\ ev \in Int /\ h \in Int /\ P \in Int
  <2>1. Col(ui, j) \in [0 .. (KVole - 1) -> Int] /\ b \in Int
    BY GivenTypes, Ranges DEF Col
  <2>2. lambda \in [0 .. (KVole - 1) -> Int] /\ hi \in [0 .. (KVole - 1) -> Int]
    BY RowTypes, Ranges
  <2>3. su \in Int /\ sh \in Int
    BY <2>1, <2>2, Field!InnerInt, Ranges
  <2> QED
    BY <2>1, <2>3, ErrorRows, RowTypes, Ranges
<1>2. OutputO(Final)[j] = Mod(c + mu + h * mv)
  <2>1. Final.u[j] = mu /\ Final.v[j] = mv
    BY Products DEF Final, UvMessage, DeltaPrime, UErrors, VErrors
  <2>2. Combine(lambda, Col(oi, j)) = c
    BY CombinedColumn
  <2> HIDE DEF mu, mv, c, Final
  <2> QED
    BY <2>1, <2>2 DEF OutputO
<1> HIDE DEF su, sh, se, b, u, v, eu, ev
<1>3. PICK k1 \in Int : m1 = su + k1 * P
  BY <1>1, ModWitness
<1>4. PICK k2 \in Int : m2 = sh + k2 * P
  BY <1>1, ModWitness
<1> DEFINE x1 == h - m2
<1>5. x1 \in Int
  <2> HIDE DEF m2
  <2> QED
    BY <1>1, <1>4, SMT
<1>6. PICK k3 \in Int : delta = x1 + k3 * P
  <2> HIDE DEF x1
  <2> QED
    BY <1>5, ModWitness DEF x1
<1> HIDE DEF m1, m2, delta
<1> DEFINE x2 == delta * b - m1 + u + eu
           x3 == v - b + ev
           x4 == (su + b * sh) + 1 * se
<1>7. x2 \in Int /\ x3 \in Int /\ x4 \in Int
  <2> HIDE DEF x1
  <2> QED
    BY <1>1, <1>3, <1>5, <1>6, SMT
<1>8. PICK k4 \in Int : mu = x2 + k4 * P
  <2> HIDE DEF x2
  <2> QED
    BY <1>7, ModWitness DEF x2
<1>9. PICK k5 \in Int : mv = x3 + k5 * P
  <2> HIDE DEF x3
  <2> QED
    BY <1>7, ModWitness DEF x3
<1>10. PICK k6 \in Int : c = x4 + k6 * P
  <2> HIDE DEF x4
  <2> QED
    BY <1>7, ModWitness DEF x4
<1> HIDE DEF mu, mv, c
<1> DEFINE p == c + mu + h * mv
           q == u + h * v + eu + h * ev + se
           n == k6 + k4 + h * k5 - k1 + b * (k3 - k2)
<1>11. p \in Int /\ q \in Int /\ n \in Int
  <2> HIDE DEF x1, x2, x3, x4
  <2> QED
    BY <1>1, <1>7, <1>8, <1>9, <1>10, SMT
<1>12. p = q + n * P
  BY <1>1, <1>3, <1>4, <1>6, <1>8, <1>9, <1>10, SMT
<1> HIDE DEF p, q, n
<1>13. Mod(p) = Mod(q)
  BY <1>11, <1>12, ModShift
<1>14. OutputO(Final)[j] = Mod(q)
  BY <1>2, <1>13 DEF p
<1> QED
  BY <1>14 DEF q, u, v, eu, ev, se

\* cv is <gamma, v> up to the errors.
LEMMA OutputCvValue ==
  ASSUME Given, gamma \in Gammas, lambda \in Lambdas, cv1 = CheckMessage(gamma).cv
  PROVE  OutputCv(Final)
           = Mod(Field!Inner(Length, gamma, input.v) + Field!Inner(Length, gamma, VErrors) + Err("cv", 0))
<1> DEFINE v == input.v
           b == Row(vi, 0)
           e == VErrors
           z == Field!Plus(Length, v, -1, b)
           w == Field!Plus(Length, z, 1, e)
           r == Final.v
<1>1. /\ v \in [0 .. Length -> Int] /\ b \in [0 .. Length -> Int] /\ e \in [0 .. Length -> Int]
      /\ gamma \in [0 .. Length -> Int] /\ -1 \in Int /\ 1 \in Int /\ Length \in Nat
  <2>1. v \in [0 .. Length -> Int] /\ b \in [0 .. Length -> Int]
    BY RowTypes, Ranges
  <2>2. e \in [0 .. Length -> Int]
    BY ErrorRows
  <2>3. gamma \in [0 .. Length -> Int] /\ -1 \in Int /\ 1 \in Int /\ Length \in Nat
    BY RowTypes, Ranges
  <2> QED
    BY <2>1, <2>2, <2>3
<1> HIDE DEF v, b, e
<1>2. z \in [0 .. Length -> Int] /\ \A j \in 0 .. Length : z[j] = v[j] + (-1) * b[j]
  BY <1>1, Field!PlusInt
<1> HIDE DEF z
<1>3. w \in [0 .. Length -> Int] /\ \A j \in 0 .. Length : w[j] = z[j] + 1 * e[j]
  BY <1>1, <1>2, Field!PlusInt
<1> HIDE DEF w
<1>4. \A j \in 0 .. Length : r[j] = Mod(w[j])
  <2> TAKE j \in 0 .. Length
  <2>1. j \in J /\ v[j] \in Int /\ b[j] \in Int /\ e[j] \in Int
    BY <1>1, Ranges
  <2>2. r[j] = Mod((v[j] - b[j]) + e[j])
    BY <2>1 DEF Final, UvMessage, VErrors, Row, v, b, e
  <2>3. w[j] = (v[j] - b[j]) + e[j]
    BY <1>2, <1>3, <2>1
  <2> QED
    BY <2>2, <2>3
<1>5. r \in [0 .. Length -> Int] /\ \A j \in 0 .. Length : Mod(r[j]) = Mod(w[j])
  <2>1. r = [j \in 0 .. Length |-> r[j]]
    BY Ranges DEF Final, UvMessage
  <2> HIDE DEF r
  <2>2. \A j \in 0 .. Length : r[j] \in Int /\ Mod(r[j]) = Mod(w[j])
    BY <1>3, <1>4, ModRange, ModSmall
  <2> QED
    BY <2>1, <2>2
<1> HIDE DEF r
<1>6. Mod(Field!Inner(Length, gamma, r)) = Mod(Field!Inner(Length, gamma, w))
  BY <1>1, <1>3, <1>5, InnerCongruent
<1> DEFINE gv == Field!Inner(Length, gamma, v)
           gb == Field!Inner(Length, gamma, b)
           ge == Field!Inner(Length, gamma, e)
           gw == Field!Inner(Length, gamma, w)
           ev == Err("cv", 0)
<1>7. gw = (gv + (-1) * gb) + 1 * ge
  <2>1. z \in [0 .. Length -> Int]
    BY <1>2
  <2>2. gw = Field!Inner(Length, gamma, z) + 1 * ge
    BY <1>1, <2>1, Field!InnerAdd, ZenonT(40) DEF w
  <2>3. Field!Inner(Length, gamma, z) = gv + (-1) * gb
    BY <1>1, Field!InnerAdd, ZenonT(40) DEF z
  <2> QED
    BY <2>2, <2>3
<1>8. gv \in Int /\ gb \in Int /\ ge \in Int /\ ev \in Int /\ P \in Int
  BY <1>1, Field!InnerInt, ErrTypes, Ranges
<1> DEFINE m1 == Mod(gb)
           m2 == Mod(m1 + ev)
           m3 == Mod(gw)
<1>9. OutputCv(Final) = Mod(m3 + m2)
  <2>1. cv1 = m2
    BY Products DEF CheckMessage, b
  <2>2. dot_product(gamma, Final.v) = m3
    BY <1>6, Products DEF r
  <2> HIDE DEF m2, m3
  <2> QED
    BY <2>1, <2>2 DEF OutputCv
<1> HIDE DEF gv, gb, ge, gw, ev
<1>10. PICK k1 \in Int : m1 = gb + k1 * P
  BY <1>8, ModWitness
<1>11. gw \in Int
  BY <1>7, <1>8
<1>12. PICK k3 \in Int : m3 = gw + k3 * P
  BY <1>11, ModWitness
<1> DEFINE x == m1 + ev
<1>13. x \in Int
  <2> HIDE DEF m1
  <2> QED
    BY <1>8, <1>10, SMT
<1>14. PICK k2 \in Int : m2 = x + k2 * P
  <2> HIDE DEF x
  <2> QED
    BY <1>13, ModWitness DEF x
<1> HIDE DEF m1, m2, m3
<1> DEFINE p == m3 + m2
           q == gv + ge + ev
           n == k1 + k2 + k3
<1>15. p \in Int /\ q \in Int /\ n \in Int
  <2> HIDE DEF x
  <2> QED
    BY <1>8, <1>11, <1>12, <1>13, <1>14, SMT
<1>16. p = q + n * P
  BY <1>7, <1>8, <1>10, <1>12, <1>14, SMT
<1> HIDE DEF p, q, n
<1>17. Mod(p) = Mod(q)
  BY <1>15, <1>16, ModShift
<1> QED
  BY <1>9, <1>17 DEF p, q, gv, ge, ev, v, e

\* cu is <gamma, u> up to the errors.
LEMMA OutputCuValue ==
  ASSUME Given, gamma \in Gammas, lambda \in Lambdas, oi = Corrected, cv1 = CheckMessage(gamma).cv
  PROVE  OutputCu(OutputO(Final), OutputCv(Final))
           = Mod(Field!Inner(Length, gamma, input.u) + Field!Inner(Length, gamma, UErrors)
                 + Field!Inner(Length, gamma, Carried) - h * Err("cv", 0))
<1> DEFINE u == input.u
           v == input.v
           w1 == Field!Plus(Length, u, h, v)
           w2 == Field!Plus(Length, w1, 1, UErrors)
           w3 == Field!Plus(Length, w2, h, VErrors)
           w4 == Field!Plus(Length, w3, 1, Carried)
           r == OutputO(Final)
<1>1. /\ u \in [0 .. Length -> Int] /\ v \in [0 .. Length -> Int]
      /\ UErrors \in [0 .. Length -> Int] /\ VErrors \in [0 .. Length -> Int]
      /\ Carried \in [0 .. Length -> Int]
      /\ gamma \in [0 .. Length -> Int] /\ h \in Int /\ 1 \in Int /\ Length \in Nat
  <2>1. u \in [0 .. Length -> Int] /\ v \in [0 .. Length -> Int]
    BY RowTypes, Ranges
  <2>2. /\ UErrors \in [0 .. Length -> Int] /\ VErrors \in [0 .. Length -> Int]
        /\ Carried \in [0 .. Length -> Int]
    BY ErrorRows
  <2>3. gamma \in [0 .. Length -> Int] /\ h \in Int /\ 1 \in Int /\ Length \in Nat
    BY RowTypes, Ranges
  <2> QED
    BY <2>1, <2>2, <2>3
<1> HIDE DEF u, v
<1>2. w1 \in [0 .. Length -> Int] /\ \A j \in 0 .. Length : w1[j] = u[j] + h * v[j]
  BY <1>1, Field!PlusInt
<1> HIDE DEF w1
<1>3. w2 \in [0 .. Length -> Int] /\ \A j \in 0 .. Length : w2[j] = w1[j] + 1 * UErrors[j]
  BY <1>1, <1>2, Field!PlusInt
<1> HIDE DEF w2
<1>4. w3 \in [0 .. Length -> Int] /\ \A j \in 0 .. Length : w3[j] = w2[j] + h * VErrors[j]
  BY <1>1, <1>3, Field!PlusInt
<1> HIDE DEF w3
<1>5. w4 \in [0 .. Length -> Int] /\ \A j \in 0 .. Length : w4[j] = w3[j] + 1 * Carried[j]
  BY <1>1, <1>4, Field!PlusInt
<1> HIDE DEF w4, r
<1>6. \A j \in 0 .. Length : r[j] = Mod(w4[j])
  <2> TAKE j \in 0 .. Length
  <2>1. j \in J /\ UErrors[j] \in Int /\ Carried[j] \in Int
    BY <1>1, Ranges
  <2>2. r[j] = Mod(u[j] + h * v[j] + UErrors[j] + h * VErrors[j] + Carried[j])
    BY <2>1, OutputValue DEF r, u, v
  <2>3. w4[j] = u[j] + h * v[j] + UErrors[j] + h * VErrors[j] + Carried[j]
    BY <1>2, <1>3, <1>4, <1>5, <2>1
  <2> QED
    BY <2>2, <2>3
<1>7. r \in [0 .. Length -> Int] /\ \A j \in 0 .. Length : Mod(r[j]) = Mod(w4[j])
  <2>1. r = [j \in 0 .. Length |-> r[j]]
    BY Ranges DEF OutputO, r
  <2>2. \A j \in 0 .. Length : r[j] \in Int /\ Mod(r[j]) = Mod(w4[j])
    BY <1>5, <1>6, ModRange, ModSmall
  <2> QED
    BY <2>1, <2>2
<1>8. Mod(Field!Inner(Length, gamma, r)) = Mod(Field!Inner(Length, gamma, w4))
  BY <1>1, <1>5, <1>7, InnerCongruent
<1> DEFINE gu == Field!Inner(Length, gamma, u)
           gv == Field!Inner(Length, gamma, v)
           eu == Field!Inner(Length, gamma, UErrors)
           ev == Field!Inner(Length, gamma, VErrors)
           ec == Field!Inner(Length, gamma, Carried)
           gw == Field!Inner(Length, gamma, w4)
           cv == Err("cv", 0)
<1>9. gw = (((gu + h * gv) + 1 * eu) + h * ev) + 1 * ec
  <2>2. Field!Inner(Length, gamma, w4) = Field!Inner(Length, gamma, w3) + 1 * Field!Inner(Length, gamma, Carried)
    <3>1. w3 \in [0 .. Length -> Int]
      BY <1>2, <1>3, <1>4
    <3>2. Carried \in [0 .. Length -> Int] /\ 1 \in Int
      BY <1>1
    <3>3. gamma \in [0 .. Length -> Int] /\ Length \in Nat
      BY <1>1
    <3> QED
      BY <3>1, <3>2, <3>3, Field!InnerAdd, ZenonT(40) DEF w4
  <2>3. Field!Inner(Length, gamma, w3) = Field!Inner(Length, gamma, w2) + h * Field!Inner(Length, gamma, VErrors)
    <3>1. w2 \in [0 .. Length -> Int]
      BY <1>2, <1>3, <1>4
    <3>2. VErrors \in [0 .. Length -> Int] /\ h \in Int
      BY <1>1
    <3>3. gamma \in [0 .. Length -> Int] /\ Length \in Nat
      BY <1>1
    <3> QED
      BY <3>1, <3>2, <3>3, Field!InnerAdd, ZenonT(40) DEF w3
  <2>4. Field!Inner(Length, gamma, w2) = Field!Inner(Length, gamma, w1) + 1 * Field!Inner(Length, gamma, UErrors)
    <3>1. w1 \in [0 .. Length -> Int]
      BY <1>2, <1>3, <1>4
    <3>2. UErrors \in [0 .. Length -> Int] /\ 1 \in Int
      BY <1>1
    <3>3. gamma \in [0 .. Length -> Int] /\ Length \in Nat
      BY <1>1
    <3> QED
      BY <3>1, <3>2, <3>3, Field!InnerAdd, ZenonT(40) DEF w2
  <2>5. Field!Inner(Length, gamma, w1) = gu + h * gv
    BY <1>1, Field!InnerAdd, ZenonT(40) DEF w1
  <2> QED
    BY <2>2, <2>3, <2>4, <2>5
<1>10. /\ gu \in Int /\ gv \in Int /\ eu \in Int /\ ev \in Int /\ ec \in Int
       /\ cv \in Int /\ h \in Int /\ P \in Int
  BY <1>1, Field!InnerInt, ErrTypes, Ranges
<1> DEFINE m1 == Mod(gw)
           x == gv + ev + cv
           m2 == Mod(x)
<1>11. OutputCu(OutputO(Final), OutputCv(Final)) = Mod(m1 - h * m2)
  <2>1. dot_product(gamma, OutputO(Final)) = m1
    BY <1>8, Products DEF r
  <2>2. OutputCv(Final) = m2
    BY OutputCvValue DEF v
  <2> HIDE DEF m1, m2
  <2> QED
    BY <2>1, <2>2 DEF OutputCu
<1> HIDE DEF gu, gv, eu, ev, ec, gw, cv
<1>12. gw \in Int /\ x \in Int
  BY <1>9, <1>10, SMT
<1>13. PICK k1 \in Int : m1 = gw + k1 * P
  BY <1>12, ModWitness
<1>14. PICK k2 \in Int : m2 = x + k2 * P
  <2> HIDE DEF x
  <2> QED
    BY <1>12, ModWitness DEF x
<1> HIDE DEF m1, m2
<1> DEFINE p == m1 - h * m2
           q == gu + eu + ec - h * cv
           n == k1 - h * k2
<1>15. p \in Int /\ q \in Int /\ n \in Int
  <2> HIDE DEF x
  <2> QED
    BY <1>10, <1>12, <1>13, <1>14, SMT
<1>16. p = q + n * P
  BY <1>9, <1>10, <1>13, <1>14, SMT
<1> HIDE DEF p, q, n
<1>17. Mod(p) = Mod(q)
  BY <1>15, <1>16, ModShift
<1> QED
  BY <1>11, <1>17 DEF p, q, gu, eu, ec, cv, u

----------------------------------------------------------------------------
(* The inductive invariant.                                                *)

\* Where both are and what is under way: each message is still the one sent.
At(s, r, toReceiver, toSender) == spc = s /\ rpc = r /\ s2r = toReceiver /\ r2s = toSender
Stage ==
  \/ At("derand", "derand", <<>>, <<>>)
  \/ At("gamma", "derand", <<DerandMessage>>, <<>>)
  \/ At("gamma", "check", <<>>, <<gamma>>)
  \/ At("lambda", "check", <<CheckMessage(gamma)>>, <<>>)
  \/ At("lambda", "failed", <<>>, <<>>)
  \/ At("lambda", "uv", <<>>, <<[lambda |-> lambda, delta |-> DeltaPrime(lambda)]>>)
  \/ At("done", "uv", <<Final>>, <<>>)
  \/ At("done", "done", <<>>, <<>>)

\* What the receiver knows at each place.
Knows ==
  /\ rpc = "derand" => oi = Start /\ gamma = NoValue
  /\ rpc # "derand" => oi = Corrected /\ gamma \in Gammas
  /\ rpc = "failed" => \E i \in I : ~ CheckHolds(CheckMessage(gamma), i)
  /\ Passed => /\ lambda \in Lambdas /\ cv1 = CheckMessage(gamma).cv
               /\ \A i \in I : CheckHolds(CheckMessage(gamma), i)
  /\ rpc = "done" => result = Outputs(Final)
  /\ rpc # "done" => result = NoResult

Inv == Given /\ Stage /\ Knows

\* The invariant holds when the protocol starts.
LEMMA InvInit == Init => Inv
<1> SUFFICES ASSUME Init PROVE Inv
  OBVIOUS
<1>1. Given
  BY DEF Init, Given
<1>2. Stage
  BY DEF Init, Stage, At
<1>3. Knows
  BY DEF Init, Knows, Passed, Start, NoResult
<1> QED
  BY <1>1, <1>2, <1>3 DEF Inv

\* What the run starts from stays, and all that is computed from it.
LEMMA SetupStays ==
  ASSUME UNCHANGED setup
  PROVE  /\ Given => Given'
         /\ Start' = Start /\ Corrected' = Corrected /\ DerandMessage' = DerandMessage
         /\ \A g : CheckMessage(g)' = CheckMessage(g)
         /\ \A l : DeltaPrime(l)' = DeltaPrime(l)
         /\ \A l, d : UvMessage(l, d)' = UvMessage(l, d)
BY DEF setup, Given, Start, Corrected, DerandMessage, CheckMessage, DeltaPrime, UvMessage, Err,
       Combine, Col, Row, dot_product

\* Every step of either side keeps the invariant.
LEMMA InvStep == Inv /\ [Next]_vars => Inv'
<1> SUFFICES ASSUME Inv, [Next]_vars PROVE Inv'
  OBVIOUS
<1> USE SetupStays
<1>1. CASE SenderDerand
  <2>1. UNCHANGED <<setup, oi, gamma, lambda, cv1, hi, h, result, rpc>>
    BY <1>1 DEF SenderDerand, setup, receiver
  <2>2. At("derand", "derand", <<>>, <<>>)
    BY <1>1 DEF SenderDerand, Inv, Stage, At
  <2>3. At("gamma", "derand", <<DerandMessage>>, <<>>)'
    BY <1>1, <2>1, <2>2 DEF SenderDerand, At
  <2>4. Knows'
    BY <2>1, <2>2, <2>3 DEF Inv, Knows, At, Passed, NoResult
  <2> QED
    BY <2>1, <2>3, <2>4 DEF Inv, Stage
<1>2. CASE SenderCheck
  <2>1. UNCHANGED <<setup, oi, gamma, lambda, cv1, hi, h, result, rpc>>
    BY <1>2 DEF SenderCheck, setup, receiver
  <2>2. At("gamma", "check", <<>>, <<gamma>>)
    BY <1>2 DEF SenderCheck, Inv, Stage, At
  <2>3. At("lambda", "check", <<CheckMessage(gamma)>>, <<>>)'
    BY <1>2, <2>1, <2>2 DEF SenderCheck, At
  <2>4. Knows'
    BY <2>1, <2>2, <2>3 DEF Inv, Knows, At, Passed, NoResult
  <2> QED
    BY <2>1, <2>3, <2>4 DEF Inv, Stage
<1>3. CASE SenderReply
  <2>1. UNCHANGED <<setup, oi, gamma, lambda, cv1, hi, h, result, rpc>>
    BY <1>3 DEF SenderReply, setup, receiver
  <2>2. At("lambda", "uv", <<>>, <<[lambda |-> lambda, delta |-> DeltaPrime(lambda)]>>)
    BY <1>3 DEF SenderReply, Inv, Stage, At
  <2>3. At("done", "uv", <<Final>>, <<>>)'
    BY <1>3, <2>1, <2>2 DEF SenderReply, At, Final
  <2>4. Knows'
    <3>1. Knows /\ rpc' = "uv" /\ rpc = "uv"
      BY <2>2, <2>3 DEF Inv, At
    <3>2. \A i \in I : CheckHolds(CheckMessage(gamma), i)' = CheckHolds(CheckMessage(gamma), i)
      BY <2>1 DEF CheckHolds, dot_product, Row
    <3> QED
      BY <2>1, <3>1, <3>2 DEF Knows, Passed, NoResult
  <2> QED
    BY <2>1, <2>3, <2>4 DEF Inv, Stage
<1>4. CASE ReceiverDerand
  <2>1. UNCHANGED <<setup, spc, lambda, cv1, hi, h, result>> /\ gamma' \in Gammas
    BY <1>4 DEF ReceiverDerand, setup
  <2>2. At("gamma", "derand", <<DerandMessage>>, <<>>)
    BY <1>4 DEF ReceiverDerand, Inv, Stage, At
  <2>3. At("gamma", "check", <<>>, <<gamma>>)'
    BY <1>4, <2>1, <2>2 DEF ReceiverDerand, At
  <2>4. oi = Start /\ oi' = Shifted(DerandMessage)
    BY <1>4, <2>2 DEF ReceiverDerand, Inv, Knows, At
  <2>5. Shifted(DerandMessage) = Corrected
    BY <2>4 DEF Shifted, Corrected
  <2>6. Knows'
    BY <2>1, <2>2, <2>3, <2>4, <2>5 DEF Inv, Knows, At, Passed, NoResult
  <2> QED
    BY <2>1, <2>3, <2>6 DEF Inv, Stage
<1>5. CASE ReceiverCheck
  <2>1. UNCHANGED <<setup, spc, oi, gamma, hi, h, result>> /\ lambda' \in Lambdas
    BY <1>5 DEF ReceiverCheck, setup
  <2>2. At("lambda", "check", <<CheckMessage(gamma)>>, <<>>)
    BY <1>5 DEF ReceiverCheck, Inv, Stage, At
  <2>3. At("lambda", "uv", <<>>, <<[lambda |-> lambda, delta |-> DeltaPrime(lambda)]>>)'
    BY <1>5, <2>1, <2>2 DEF ReceiverCheck, At
  <2>4. /\ cv1' = CheckMessage(gamma).cv
        /\ \A i \in I : CheckHolds(CheckMessage(gamma), i)
    BY <1>5, <2>2 DEF ReceiverCheck, At
  <2>5. \A i \in I : CheckHolds(CheckMessage(gamma), i)' = CheckHolds(CheckMessage(gamma), i)
    BY <2>1 DEF CheckHolds, dot_product, Row
  <2>6. Knows'
    BY <2>1, <2>2, <2>3, <2>4, <2>5 DEF Inv, Knows, At, Passed, NoResult
  <2> QED
    BY <2>1, <2>3, <2>6 DEF Inv, Stage
<1>6. CASE ReceiverCheckFails
  <2>1. UNCHANGED <<setup, spc, oi, gamma, lambda, cv1, hi, h, result>>
    BY <1>6 DEF ReceiverCheckFails, setup
  <2>2. At("lambda", "check", <<CheckMessage(gamma)>>, <<>>)
    BY <1>6 DEF ReceiverCheckFails, Inv, Stage, At
  <2>3. At("lambda", "failed", <<>>, <<>>)'
    BY <1>6, <2>1, <2>2 DEF ReceiverCheckFails, At
  <2>4. \E i \in I : ~ CheckHolds(CheckMessage(gamma), i)
    BY <1>6, <2>2 DEF ReceiverCheckFails, At
  <2>5. \A i \in I : CheckHolds(CheckMessage(gamma), i)' = CheckHolds(CheckMessage(gamma), i)
    BY <2>1 DEF CheckHolds, dot_product, Row
  <2>6. Knows'
    BY <2>1, <2>2, <2>3, <2>4, <2>5 DEF Inv, Knows, At, Passed, NoResult
  <2> QED
    BY <2>1, <2>3, <2>6 DEF Inv, Stage
<1>7. CASE ReceiverFinish
  <2>1. UNCHANGED <<setup, spc, oi, gamma, lambda, cv1, hi, h>> /\ result' = Outputs(Head(s2r))
    BY <1>7 DEF ReceiverFinish, setup
  <2>2. At("done", "uv", <<Final>>, <<>>)
    BY <1>7 DEF ReceiverFinish, Inv, Stage, At
  <2>3. At("done", "done", <<>>, <<>>)'
    BY <1>7, <2>1, <2>2 DEF ReceiverFinish, At
  <2>4. \A i \in I : CheckHolds(CheckMessage(gamma), i)' = CheckHolds(CheckMessage(gamma), i)
    BY <2>1 DEF CheckHolds, dot_product, Row
  <2>5. Outputs(Final)' = Outputs(Final)
    BY <2>1 DEF Outputs, OutputO, OutputCu, OutputCv, Final, Combine, Col, dot_product
  <2>6. result' = Outputs(Final)
    BY <2>1, <2>2 DEF At
  <2>7. Knows'
    BY <2>1, <2>2, <2>3, <2>4, <2>5, <2>6 DEF Inv, Knows, At, Passed
  <2> QED
    BY <2>1, <2>3, <2>7 DEF Inv, Stage
<1>8. CASE UNCHANGED vars
  <2>1. UNCHANGED <<setup, spc, rpc, s2r, r2s, oi, gamma, lambda, cv1, hi, h, result>>
    BY <1>8 DEF vars, setup
  <2>2. \A i \in I : CheckHolds(CheckMessage(gamma), i)' = CheckHolds(CheckMessage(gamma), i)
    BY <2>1 DEF CheckHolds, dot_product, Row
  <2>3. Final' = Final /\ Outputs(Final)' = Outputs(Final)
    BY <2>1 DEF Outputs, OutputO, OutputCu, OutputCv, Final, Combine, Col, dot_product
  <2>4. Knows'
    BY <2>1, <2>2, <2>3 DEF Inv, Knows, Passed, NoResult
  <2>5. Stage'
    BY <2>1, <2>3 DEF Inv, Stage, At
  <2> QED
    BY <2>1, <2>4, <2>5 DEF Inv
<1> QED
  BY <1>1, <1>2, <1>3, <1>4, <1>5, <1>6, <1>7, <1>8 DEF Next

\* In every state of every run, messages still under way are the ones their sender computed
\* and the receiver's values are those of its place in VolePlus::receive.
THEOREM InvHolds == Spec => []Inv
<1> QED
  BY InvInit, InvStep, PTL DEF Spec

----------------------------------------------------------------------------
(* What the check sees.                                                    *)

\* The deviations that the check cannot see, once gamma is drawn.
Unseen ==
  \/ tamper.err = 0
  \/ /\ tamper.msg = "derand"
     /\ Mod(hi[tamper.at[1]] * gamma[tamper.at[2]] * tamper.err) = 0
  \/ tamper.msg = "cv" /\ \A i \in I : hi[i] = 0
  \/ tamper.msg \in {"u", "v"}

\* The entry with the error exists in its message.
LEMMA TamperTypes ==
  ASSUME Given
  PROVE  /\ tamper.msg \in {"none", "derand", "cu", "cv", "u", "v"}
         /\ tamper.msg = "none" => tamper.err = 0
         /\ tamper.msg = "derand" => \E i \in I, j \in J : tamper.at = <<i, j>>
         /\ tamper.msg = "cu" => tamper.at \in I
         /\ tamper.msg = "cv" => tamper.at = 0
         /\ tamper.msg \in {"u", "v"} => tamper.at \in J
         /\ tamper.err \in F /\ tamper.err \in Int
<1>1. tamper \in Tampers /\ tamper.err \in F /\ F \subseteq Int
  BY GivenTypes, Ranges DEF Given
<1>2. /\ tamper.msg \in {"none", "derand", "cu", "cv", "u", "v"}
      /\ tamper.msg = "none" => tamper.err = 0
      /\ tamper.msg = "derand" => tamper.at \in (I \ {0}) \X J
      /\ tamper.msg = "cu" => tamper.at \in I
      /\ tamper.msg = "cv" => tamper.at = 0
      /\ tamper.msg \in {"u", "v"} => tamper.at \in J
  BY <1>1, VolePlusAssumption
<1>3. \A at \in (I \ {0}) \X J : \E i \in I, j \in J : at = <<i, j>>
  <2> TAKE at \in (I \ {0}) \X J
  <2>1. at[1] \in I /\ at[2] \in J /\ at = <<at[1], at[2]>>
    OBVIOUS
  <2> QED
    BY <2>1
<1>4. tamper.err \in Int
  BY <1>1
<1> QED
  BY <1>1, <1>2, <1>3, <1>4

\* Without an error in the differences their rows are zero.
LEMMA NoShiftError ==
  ASSUME Given, tamper.msg # "derand" \/ tamper.err = 0
  PROVE  /\ \A i, j : D(i, j) = 0
         /\ \A g \in Gammas, i \in I : Field!Inner(Length, g, Errors(i)) = 0
<1>1. \A i, j : D(i, j) = 0
  BY ErrTypes DEF D
<1>2. ASSUME NEW g \in Gammas, NEW i \in I
      PROVE  Field!Inner(Length, g, Errors(i)) = 0
  <2>1. g \in [0 .. Length -> Int] /\ Errors(i) \in [0 .. Length -> Int] /\ Length \in Nat
    BY RowTypes, Ranges
  <2>2. \A j \in 0 .. Length : Errors(i)[j] = 0
    BY <1>1, Ranges DEF Errors
  <2> QED
    BY <2>1, <2>2, Field!InnerZero
<1> QED
  BY <1>1, <1>2

\* A residual in which only the differences are wrong.
LEMMA DerandResidual ==
  ASSUME Given, gamma \in Gammas, NEW k \in I, NEW l \in J,
         tamper.msg = "derand", tamper.at = <<k, l>>
  PROVE  /\ Residual(k) = hi[k] * (0 - gamma[l] * tamper.err)
         /\ \A i \in I : i # k => Residual(i) = 0
<1>1. gamma \in [0 .. Length -> Int] /\ Length \in Nat /\ l \in 0 .. Length
  BY RowTypes, Ranges
<1>2. Err("cv", 0) = 0 /\ \A i \in I : Err("cu", i) = 0 /\ hi[i] \in Int
  BY ErrTypes, RowTypes
<1>3. Field!Inner(Length, gamma, Errors(k)) = gamma[l] * tamper.err
  <2>1. Errors(k) \in [0 .. Length -> Int]
    BY RowTypes, Ranges
  <2>2. \A j \in 0 .. Length : j # l => Errors(k)[j] = 0
    <3> TAKE j \in 0 .. Length
    <3> HAVE j # l
    <3>1. <<k, j>> # tamper.at /\ j \in J
      BY Ranges
    <3> QED
      BY <3>1, ErrTypes DEF Errors, D
  <2>3. Errors(k)[l] = tamper.err
    BY ErrTypes DEF Errors, D
  <2> QED
    BY <1>1, <2>1, <2>2, <2>3, Field!InnerSingle
<1>4. ASSUME NEW i \in I, i # k
      PROVE  Field!Inner(Length, gamma, Errors(i)) = 0
  <2>1. Errors(i) \in [0 .. Length -> Int]
    BY RowTypes, Ranges
  <2>2. \A j \in 0 .. Length : Errors(i)[j] = 0
    <3> TAKE j \in 0 .. Length
    <3>1. <<i, j>> # tamper.at /\ j \in J
      BY <1>4, Ranges
    <3> QED
      BY <3>1, ErrTypes DEF Errors, D
  <2> QED
    BY <1>1, <2>1, <2>2, Field!InnerZero
<1>5. Residual(k) = hi[k] * (0 - gamma[l] * tamper.err)
  <2> DEFINE a == hi[k]
             b == gamma[l] * tamper.err
             c == a * (0 - b)
  <2>1. a \in Int /\ b \in Int
    <3>1. gamma[l] \in Int /\ tamper.err \in Int
      BY <1>1, TamperTypes
    <3> QED
      BY <1>2, <3>1, SMT
  <2>2. Residual(k) = 0 + c
    BY <1>2, <1>3 DEF Residual
  <2> HIDE DEF a, b
  <2>3. c \in Int
    BY <2>1, SMT
  <2> HIDE DEF c
  <2>4. Residual(k) = c
    BY <2>2, <2>3
  <2> QED
    BY <2>4 DEF a, b, c
<1>6. ASSUME NEW i \in I, i # k
      PROVE  Residual(i) = 0
  <2>1. hi[i] \in Int /\ Residual(i) = 0 + hi[i] * (0 - 0)
    BY <1>2, <1>4, <1>6 DEF Residual
  <2> QED
    BY <2>1
<1> QED
  BY <1>5, <1>6

\* The check holds for every correlation exactly when the deviation is unseen.
LEMMA CheckSees ==
  ASSUME Given, oi = Corrected, gamma \in Gammas
  PROVE  (\A i \in I : CheckHolds(CheckMessage(gamma), i)) <=> Unseen
<1> DEFINE Zero(i) == Mod(Residual(i)) = 0
<1>1. \A i \in I : CheckHolds(CheckMessage(gamma), i) <=> Zero(i)
  BY CheckExact
<1>2. Mod(0) = 0 /\ \A x \in F : Mod(x) = x
  BY ModSmall
<1>3. tamper.err \in F /\ tamper.err \in Int /\ \A i \in I : hi[i] \in Int /\ hi[i] \in F
  BY TamperTypes, RowTypes, GivenTypes
<1> SUFFICES (\A i \in I : Zero(i)) <=> Unseen
  BY <1>1
<1>4. CASE tamper.err = 0 \/ tamper.msg \in {"u", "v"}
  <2>1. \A i \in I : Err("cu", i) = 0 /\ Err("cv", 0) = 0
    BY <1>4, ErrTypes
  <2>2. \A i \in I : Field!Inner(Length, gamma, Errors(i)) = 0
    BY <1>4, NoShiftError
  <2>3. \A i \in I : Residual(i) = 0
    BY <1>3, <2>1, <2>2 DEF Residual
  <2> QED
    BY <1>2, <1>4, <2>3 DEF Unseen
<1>5. CASE tamper.msg = "derand"
  <2>1. PICK k \in I, l \in J : tamper.at = <<k, l>>
    BY <1>5, TamperTypes
  <2>2. /\ Residual(k) = hi[k] * (0 - gamma[l] * tamper.err)
        /\ \A i \in I : i # k => Residual(i) = 0
    BY <1>5, <2>1, DerandResidual
  <2> DEFINE a == hi[k]
             g == gamma[l]
             e == tamper.err
             p == a * (0 - g * e)
             q == a * g * e
  <2>3. a \in Int /\ g \in Int /\ e \in Int
    BY <1>3, RowTypes
  <2>4. Mod(p) = 0 <=> Mod(q) = 0
    <3> HIDE DEF a, g, e
    <3>1. p \in Int /\ q \in Int /\ -1 \in Int /\ p = (-1) * q /\ q = (-1) * p
      BY <2>3, SMT
    <3> HIDE DEF p, q
    <3>2. ASSUME NEW x \in Int, NEW y \in Int, x = (-1) * y, Mod(y) = 0 PROVE Mod(x) = 0
      <4>1. PICK k1 \in Int : Mod(y) = y + k1 * P
        BY <3>2, ModWitness
      <4>2. k1 \in Int /\ 0 \in Int /\ x = 0 + k1 * P
        BY <3>2, <4>1, Ranges, SMT
      <4> QED
        BY <4>2, ModShift, <1>2
    <3> QED
      BY <3>1, <3>2
  <2>5. (\A i \in I : Zero(i)) <=> Mod(p) = 0
    <3> HIDE DEF Residual
    <3> QED
      BY <1>2, <2>2
  <2>6. Unseen <=> (e = 0 \/ Mod(q) = 0)
    BY <1>5, <2>1 DEF Unseen
  <2>7. e = 0 => Mod(q) = 0
    <3> SUFFICES ASSUME e = 0 PROVE Mod(q) = 0
      OBVIOUS
    <3> HIDE DEF a, g, e
    <3>1. a * g \in Int
      BY <2>3
    <3>2. q = 0
      BY <3>1
    <3> QED
      BY <3>2, <1>2
  <2> QED
    BY <2>4, <2>5, <2>6, <2>7
<1>6. CASE tamper.msg = "cu"
  <2>1. tamper.at \in I /\ Err("cv", 0) = 0 /\ Field!Inner(Length, gamma, Errors(tamper.at)) = 0
    BY <1>6, TamperTypes, ErrTypes, NoShiftError
  <2>2. Residual(tamper.at) = tamper.err
    BY <1>3, <1>6, <2>1, ErrTypes DEF Residual
  <2>3. (\A i \in I : Zero(i)) => tamper.err = 0
    BY <1>2, <1>3, <2>1, <2>2
  <2> QED
    BY <1>4, <1>6, <2>3 DEF Unseen
<1>7. CASE tamper.msg = "cv"
  <2>1. \A i \in I : Err("cu", i) = 0 /\ Field!Inner(Length, gamma, Errors(i)) = 0
    BY <1>7, ErrTypes, NoShiftError
  <2>2. Err("cv", 0) = tamper.err
    BY <1>7, TamperTypes, ErrTypes
  <2>3. \A i \in I : Residual(i) = hi[i] * tamper.err
    BY <1>3, <2>1, <2>2 DEF Residual
  <2>4. ASSUME NEW i \in I
        PROVE  Zero(i) <=> hi[i] = 0 \/ tamper.err = 0
    <3> DEFINE a == hi[i]
               e == tamper.err
    <3>1. a \in Int /\ e \in Int /\ a \in F /\ e \in F /\ Residual(i) = a * e
      BY <1>3, <2>3
    <3> HIDE DEF a, e
    <3>2. Mod(a * e) = 0 => Mod(a) = 0 \/ Mod(e) = 0
      BY <3>1, NoZeroDivisors
    <3>3. Mod(a * e) = 0 => a = 0 \/ e = 0
      BY <3>1, <3>2, <1>2
    <3>4. a = 0 \/ e = 0 => a * e = 0
      BY <3>1
    <3> QED
      BY <3>1, <3>3, <3>4, <1>2 DEF a, e
  <2> QED
    BY <1>7, <2>4 DEF Unseen
<1> QED
  BY <1>4, <1>5, <1>6, <1>7, TamperTypes

----------------------------------------------------------------------------
(* What a finished run has delivered.                                      *)

\* The deviations that come before the check leave nothing in u' and v'.
LEMMA Delivered ==
  ASSUME Inv, rpc = "done"
  PROVE  /\ \A j \in J : result.o[j]
               = Mod(input.u[j] + h * input.v[j] + UErrors[j] + h * VErrors[j] + Carried[j])
         /\ result.cv = Mod(Field!Inner(Length, gamma, input.v) + Field!Inner(Length, gamma, VErrors) + Err("cv", 0))
         /\ result.cu = Mod(Field!Inner(Length, gamma, input.u) + Field!Inner(Length, gamma, UErrors)
                            + Field!Inner(Length, gamma, Carried) - h * Err("cv", 0))
         /\ gamma \in Gammas /\ lambda \in Lambdas /\ Unseen
<1>1. /\ Given /\ oi = Corrected /\ gamma \in Gammas /\ lambda \in Lambdas
      /\ cv1 = CheckMessage(gamma).cv
      /\ \A i \in I : CheckHolds(CheckMessage(gamma), i)
      /\ result = Outputs(Final)
  BY DEF Inv, Knows, Passed
<1>2. /\ result.o = OutputO(Final) /\ result.cv = OutputCv(Final)
      /\ result.cu = OutputCu(OutputO(Final), OutputCv(Final))
  BY <1>1 DEF Outputs
<1>3. \A j \in J : OutputO(Final)[j]
               = Mod(input.u[j] + h * input.v[j] + UErrors[j] + h * VErrors[j] + Carried[j])
  BY <1>1, OutputValue
<1>4. OutputCv(Final)
        = Mod(Field!Inner(Length, gamma, input.v) + Field!Inner(Length, gamma, VErrors) + Err("cv", 0))
  BY <1>1, OutputCvValue
<1>5. OutputCu(OutputO(Final), OutputCv(Final))
        = Mod(Field!Inner(Length, gamma, input.u) + Field!Inner(Length, gamma, UErrors)
              + Field!Inner(Length, gamma, Carried) - h * Err("cv", 0))
  BY <1>1, OutputCuValue
<1>6. Unseen
  BY <1>1, CheckSees
<1> QED
  BY <1>1, <1>2, <1>3, <1>4, <1>5, <1>6

\* An error in u', or one in v', is the only entry of its row.
LEMMA FinalErrors ==
  ASSUME Given, gamma \in Gammas, lambda \in Lambdas
  PROVE  /\ tamper.msg # "derand" \/ tamper.err = 0 =>
              (\A j \in J : Carried[j] = 0) /\ Field!Inner(Length, gamma, Carried) = 0
         /\ tamper.msg # "u" \/ tamper.err = 0 =>
              (\A j \in J : UErrors[j] = 0) /\ Field!Inner(Length, gamma, UErrors) = 0
         /\ tamper.msg # "v" \/ tamper.err = 0 =>
              (\A j \in J : VErrors[j] = 0) /\ Field!Inner(Length, gamma, VErrors) = 0
         /\ tamper.msg = "u" => Field!Inner(Length, gamma, UErrors) = gamma[tamper.at] * tamper.err
         /\ tamper.msg = "v" => Field!Inner(Length, gamma, VErrors) = gamma[tamper.at] * tamper.err
<1>1. /\ UErrors \in [0 .. Length -> Int] /\ VErrors \in [0 .. Length -> Int]
      /\ Carried \in [0 .. Length -> Int] /\ gamma \in [0 .. Length -> Int]
      /\ Length \in Nat /\ J = 0 .. Length
      /\ \A j \in J : HiddenErrors(j) \in [0 .. (KVole - 1) -> Int]
  BY ErrorRows, RowTypes, Ranges
<1>2. ASSUME tamper.msg # "derand" \/ tamper.err = 0
      PROVE  (\A j \in J : Carried[j] = 0) /\ Field!Inner(Length, gamma, Carried) = 0
  <2>1. ASSUME NEW j \in J
        PROVE  Carried[j] = 0
    <3>1. /\ HiddenErrors(j) \in [0 .. (KVole - 1) -> Int] /\ KVole - 1 \in Nat
          /\ lambda \in [0 .. (KVole - 1) -> Int]
      BY <1>1, RowTypes, Ranges
    <3>2. \A i \in 0 .. (KVole - 1) : HiddenErrors(j)[i] = 0
      <4> TAKE i \in 0 .. (KVole - 1)
      <4>1. D(i, j) = 0 /\ i \in I /\ hi[i] \in Int
        BY <1>2, NoShiftError, RowTypes, Ranges
      <4> QED
        BY <4>1 DEF HiddenErrors
    <3>3. Field!Inner(KVole - 1, lambda, HiddenErrors(j)) = 0
      BY <3>1, <3>2, Field!InnerZero
    <3> QED
      BY <3>3 DEF Carried
  <2> QED
    BY <1>1, <2>1, Field!InnerZero
<1>3. ASSUME tamper.msg # "u" \/ tamper.err = 0
      PROVE  (\A j \in J : UErrors[j] = 0) /\ Field!Inner(Length, gamma, UErrors) = 0
  <2>1. \A j \in J : UErrors[j] = 0
    BY <1>3, ErrTypes DEF UErrors
  <2> QED
    BY <1>1, <2>1, Field!InnerZero
<1>4. ASSUME tamper.msg # "v" \/ tamper.err = 0
      PROVE  (\A j \in J : VErrors[j] = 0) /\ Field!Inner(Length, gamma, VErrors) = 0
  <2>1. \A j \in J : VErrors[j] = 0
    BY <1>4, ErrTypes DEF VErrors
  <2> QED
    BY <1>1, <2>1, Field!InnerZero
<1>5. ASSUME tamper.msg = "u"
      PROVE  Field!Inner(Length, gamma, UErrors) = gamma[tamper.at] * tamper.err
  <2>1. tamper.at \in J
    BY <1>5, TamperTypes
  <2>2. UErrors[tamper.at] = tamper.err /\ \A j \in J : j # tamper.at => UErrors[j] = 0
    BY <1>5, <2>1, ErrTypes DEF UErrors
  <2>3. Field!Inner(Length, gamma, UErrors) = gamma[tamper.at] * UErrors[tamper.at]
    BY <1>1, <2>1, <2>2, Field!InnerSingle
  <2> QED
    BY <2>2, <2>3
<1>6. ASSUME tamper.msg = "v"
      PROVE  Field!Inner(Length, gamma, VErrors) = gamma[tamper.at] * tamper.err
  <2>1. tamper.at \in J
    BY <1>6, TamperTypes
  <2>2. VErrors[tamper.at] = tamper.err /\ \A j \in J : j # tamper.at => VErrors[j] = 0
    BY <1>6, <2>1, ErrTypes DEF VErrors
  <2>3. Field!Inner(Length, gamma, VErrors) = gamma[tamper.at] * VErrors[tamper.at]
    BY <1>1, <2>1, <2>2, Field!InnerSingle
  <2> QED
    BY <2>2, <2>3
<1> QED
  BY <1>2, <1>3, <1>4, <1>5, <1>6

\* Without an error the values are delivered and bound.
LEMMA DeliveredRight ==
  ASSUME Inv, rpc = "done", tamper.err = 0
  PROVE  Bound /\ \A j \in J : Correct(j)
<1>1. Given /\ gamma \in Gammas /\ lambda \in Lambdas
  BY Delivered DEF Inv
<1>2. \A j \in J : UErrors[j] = 0 /\ VErrors[j] = 0 /\ Carried[j] = 0
  BY <1>1, FinalErrors
<1>3. /\ Field!Inner(Length, gamma, UErrors) = 0 /\ Field!Inner(Length, gamma, VErrors) = 0
      /\ Field!Inner(Length, gamma, Carried) = 0 /\ Err("cv", 0) = 0
  BY <1>1, FinalErrors, ErrTypes
<1>4. /\ input.u \in [0 .. Length -> Int] /\ input.v \in [0 .. Length -> Int]
      /\ h \in Int /\ gamma \in [0 .. Length -> Int] /\ Length \in Nat /\ J = 0 .. Length
  BY <1>1, RowTypes, Ranges
<1>5. Field!Inner(Length, gamma, input.u) \in Int /\ Field!Inner(Length, gamma, input.v) \in Int
  BY <1>4, Field!InnerInt
<1>6. ASSUME NEW j \in J
      PROVE  Correct(j)
  <2> DEFINE x == input.u[j]
             y == h * input.v[j]
  <2>1. x \in Int /\ y \in Int /\ h * 0 = 0
    BY <1>4, SMT
  <2>2. result.o[j] = Mod(x + y + 0 + 0 + 0)
    BY <1>2, <2>1, Delivered
  <2> HIDE DEF x, y
  <2>3. x + y + 0 + 0 + 0 = x + y
    BY <2>1
  <2>4. result.o[j] = Mod(x + y)
    BY <2>2, <2>3
  <2> QED
    BY <2>4 DEF Correct, x, y
<1>7. Bound
  <2> DEFINE x == Field!Inner(Length, gamma, input.u)
             y == Field!Inner(Length, gamma, input.v)
  <2>1. result.cv = Mod(y + 0 + 0)
    BY <1>3, Delivered
  <2>2. result.cu = Mod(x + 0 + 0 - h * 0)
    BY <1>3, Delivered
  <2> HIDE DEF x, y
  <2>3. x \in Int /\ y \in Int
    BY <1>5 DEF x, y
  <2>4. y + 0 + 0 = y /\ x + 0 + 0 - h * 0 = x
    BY <1>4, <2>3
  <2>5. result.cv = Mod(y) /\ result.cu = Mod(x)
    BY <2>1, <2>2, <2>4
  <2> QED
    BY <2>5, Products DEF Bound, x, y
<1> QED
  BY <1>6, <1>7

----------------------------------------------------------------------------
(* The properties.                                                         *)

\* What is lost to a residue is a multiple of P.
LEMMA ModCancel ==
  ASSUME NEW x \in Int, NEW y \in Int, Mod(x + y) = Mod(x)
  PROVE  Mod(y) = 0
<1> DEFINE z == x + y
<1>1. z \in Int /\ Mod(z) = Mod(x)
  OBVIOUS
<1>2. PICK k \in Int : z = x + k * P
  <2> HIDE DEF z
  <2> QED
    BY <1>1, ModDiffer
<1>3. y = 0 + k * P /\ 0 \in Int
  BY <1>2, Ranges, SMT
<1>4. Mod(y) = Mod(0)
  BY <1>3, ModShift
<1> QED
  BY <1>4, ModSmall

\* One error is seen by its inner product with gamma, unless gamma is zero there.
LEMMA ErrorSeen ==
  ASSUME Given, gamma \in Gammas, tamper.msg \in {"u", "v"}, NEW x \in Int,
         Mod(x + gamma[tamper.at] * tamper.err) = Mod(x)
  PROVE  gamma[tamper.at] = 0 \/ tamper.err = 0
<1> DEFINE g == gamma[tamper.at]
           e == tamper.err
<1>1. g \in F /\ g \in Int /\ e \in F /\ e \in Int
  BY TamperTypes, GivenTypes, Ranges
<1> HIDE DEF g, e
<1>2. g * e \in Int
  BY <1>1, SMT
<1>3. Mod(g * e) = 0
  BY <1>2, ModCancel DEF g, e
<1>4. Mod(g) = 0 \/ Mod(e) = 0
  BY <1>1, <1>3, NoZeroDivisors
<1> QED
  BY <1>1, <1>4, ModSmall DEF g, e

\* The invariant implies UvBound.
LEMMA InvUvBound == Inv => UvBound
<1> SUFFICES ASSUME Inv, rpc = "done", tamper.msg \in {"u", "v"},
                    \E j \in J : ~ Correct(j), Bound
             PROVE  gamma[tamper.at] = 0
  BY DEF UvBound, Finished
<1>1. Given /\ gamma \in Gammas /\ lambda \in Lambdas
  BY Delivered DEF Inv
<1>2. tamper.err # 0
  BY DeliveredRight
<1> DEFINE x == Field!Inner(Length, gamma, input.u)
           y == Field!Inner(Length, gamma, input.v)
           e == gamma[tamper.at] * tamper.err
<1>3. Field!Inner(Length, gamma, Carried) = 0 /\ Err("cv", 0) = 0 /\ h \in Int
  BY <1>1, FinalErrors, ErrTypes, RowTypes
<1>4. x \in Int /\ y \in Int /\ e \in Int
  <2>1. gamma \in [0 .. Length -> Int] /\ input.u \in [0 .. Length -> Int]
        /\ input.v \in [0 .. Length -> Int] /\ Length \in Nat
    BY <1>1, RowTypes, Ranges
  <2>2. gamma[tamper.at] \in Int /\ tamper.err \in Int
    BY <1>1, <2>1, TamperTypes, Ranges
  <2>3. e \in Int
    BY <2>2, SMT
  <2> QED
    BY <2>1, <2>3, Field!InnerInt
<1>5. result.cu = Mod(x) /\ result.cv = Mod(y)
  BY Products DEF Bound
<1>6. CASE tamper.msg = "u"
  <2>1. Field!Inner(Length, gamma, UErrors) = e
    BY <1>1, <1>6, FinalErrors
  <2>2. result.cu = Mod(x + e + 0 - h * 0)
    BY <1>3, <2>1, Delivered
  <2> HIDE DEF x, y, e
  <2>3. x + e + 0 - h * 0 = x + e
    BY <1>3, <1>4
  <2>4. Mod(x + e) = Mod(x)
    BY <1>5, <2>2, <2>3
  <2> QED
    BY <1>1, <1>2, <1>4, <2>4, ErrorSeen DEF e
<1>7. CASE tamper.msg = "v"
  <2>1. Field!Inner(Length, gamma, VErrors) = e
    BY <1>1, <1>7, FinalErrors
  <2>2. result.cv = Mod(y + e + 0)
    BY <1>3, <2>1, Delivered
  <2> HIDE DEF x, y, e
  <2>3. y + e + 0 = y + e
    BY <1>4
  <2>4. Mod(y + e) = Mod(y)
    BY <1>5, <2>2, <2>3
  <2> QED
    BY <1>1, <1>2, <1>4, <2>4, ErrorSeen DEF e
<1> QED
  BY <1>6, <1>7

\* The invariant implies HonestCorrect.
LEMMA InvHonest == Inv => HonestCorrect
<1> SUFFICES ASSUME Inv, tamper.err = 0
             PROVE  rpc # "failed" /\ (rpc = "done" => Bound /\ \A j \in J : Correct(j))
  BY DEF HonestCorrect, Finished
<1>1. ASSUME rpc = "failed" PROVE FALSE
  <2>1. Given /\ oi = Corrected /\ gamma \in Gammas
        /\ \E i \in I : ~ CheckHolds(CheckMessage(gamma), i)
    BY <1>1 DEF Inv, Knows
  <2>2. Unseen
    BY DEF Unseen
  <2> QED
    BY <2>1, <2>2, CheckSees
<1> QED
  BY <1>1, DeliveredRight

\* The invariant implies ShiftChecked.
LEMMA InvShift == Inv => ShiftChecked
<1> SUFFICES ASSUME Inv, Passed
             PROVE  CASE tamper.msg = "derand" -> Mod(hi[tamper.at[1]] * gamma[tamper.at[2]] * tamper.err) = 0
                      [] tamper.msg = "cu" -> tamper.err = 0
                      [] tamper.msg = "cv" -> tamper.err = 0 \/ \A i \in I : hi[i] = 0
                      [] OTHER -> TRUE
  BY DEF ShiftChecked
<1>1. Given /\ oi = Corrected /\ gamma \in Gammas
      /\ \A i \in I : CheckHolds(CheckMessage(gamma), i)
  BY DEF Inv, Knows, Passed
<1>2. Unseen
  BY <1>1, CheckSees
<1>3. ASSUME tamper.err = 0, tamper.msg = "derand"
      PROVE  Mod(hi[tamper.at[1]] * gamma[tamper.at[2]] * tamper.err) = 0
  <2>1. PICK k \in I, l \in J : tamper.at = <<k, l>>
    BY <1>1, <1>3, TamperTypes
  <2> DEFINE a == hi[k]
             g == gamma[l]
             x == a * g
  <2>2. a \in Int /\ g \in Int
    BY <1>1, RowTypes
  <2> HIDE DEF a, g
  <2>3. x \in Int
    BY <2>2, SMT
  <2> HIDE DEF x
  <2>4. Mod(x * 0) = 0
    BY <2>3, ModSmall
  <2> QED
    BY <1>3, <2>1, <2>4 DEF x, a, g
<1> QED
  BY <1>2, <1>3 DEF Unseen

\* An error in u' or v' that spoils o spoils cu or cv as well, unless gamma is zero there
\* (VolePlus::receive's last lines): the proof's first two constraints see it.
THEOREM UvErrorsAreBound == Spec => []UvBound
<1> QED
  BY InvHolds, InvUvBound, PTL

\* Without an error receive never aborts, and ends with o = u + h*v and with gamma's inner
\* products with the sender's values, for every prime P, length and number of rows.
THEOREM HonestIsCorrect == Spec => []HonestCorrect
<1> QED
  BY InvHolds, InvHonest, PTL

\* The check passes an error in the differences, in cu or in cv only where hi or gamma
\* hides it.
THEOREM ShiftIsChecked == Spec => []ShiftChecked
<1> QED
  BY InvHolds, InvShift, PTL

----------------------------------------------------------------------------
(* The ideal functionality.                                                *)

\* A deviation is hidden, once gamma is drawn, exactly when there is one and it is unseen.
LEMMA HiddenUnseen ==
  ASSUME Inv
  PROVE  /\ rpc = "derand" => ~ Hidden
         /\ rpc # "derand" => (Hidden <=> tamper.err # 0 /\ Unseen)
         /\ Hidden \in BOOLEAN /\ (Hidden => tamper.err # 0)
<1>1. rpc # "derand" => gamma \in Gammas
  BY DEF Inv, Knows
<1>2. rpc = "derand" => gamma = NoValue
  BY DEF Inv, Knows
<1>3. ASSUME NEW g \in Gammas PROVE g # NoValue
  <2>1. g \in [J -> F] /\ 0 \in J
    BY GivenTypes, Ranges DEF Inv
  <2>2. DOMAIN g = J /\ DOMAIN NoValue = {}
    BY <2>1 DEF NoValue
  <2> QED
    BY <2>1, <2>2
<1>4. rpc # "derand" => gamma # NoValue
  BY <1>1, <1>3
<1> QED
  BY <1>2, <1>4 DEF Hidden, Unseen

\* The initial states are initial states of the ideal functionality.
LEMMA IdealInit == Init => Ideal!Init
<1> SUFFICES ASSUME Init PROVE Ideal!Init
  OBVIOUS
<1> QED
  BY DEF Init, Ideal!Init, Ideal!NoDelivery, NoResult, NoValue, Hidden

\* The two specifications of the delivery agree.
LEMMA SameDelivery ==
  \A o, cv : Ideal!Delivery(o, cv) = [o |-> o, cu |-> OutputCu(o, cv), cv |-> cv]
BY DEF Ideal!Delivery, Ideal!Inner, Ideal!J, Ideal!Sum, OutputCu, dot_product, Sum, Mod, J

\* What the ideal functionality sees, named.
Phase == CASE rpc = "done" -> "delivered" [] rpc = "failed" -> "refused" [] OTHER -> "waiting"
Corrupted == tamper.err # 0

\* A step that leaves the receiver where it was, and its gamma, is a stutter.
LEMMA IdealStutter ==
  ASSUME UNCHANGED <<setup, gamma, result>>, Phase' = Phase
  PROVE  UNCHANGED Ideal!vars
<1>1. UNCHANGED <<hi, input, h, tamper, gamma, result>>
  BY DEF setup
<1>2. Hidden' = Hidden
  BY <1>1 DEF Hidden
<1> QED
  BY <1>1, <1>2 DEF Ideal!vars, Phase

\* Every step of VOLE+ is one of the ideal functionality's, or a stutter.
LEMMA IdealStep == Inv /\ Inv' /\ [Next]_vars => [Ideal!Next]_(Ideal!vars)
<1> SUFFICES ASSUME Inv, Inv', [Next]_vars PROVE Ideal!Next \/ UNCHANGED Ideal!vars
  OBVIOUS
<1>1. CASE SenderDerand \/ SenderCheck \/ SenderReply \/ UNCHANGED vars
  <2>1. UNCHANGED <<setup, gamma, result, rpc>>
    BY <1>1 DEF SenderDerand, SenderCheck, SenderReply, vars, setup, receiver
  <2> QED
    BY <2>1, IdealStutter DEF Phase
<1>2. CASE ReceiverDerand
  <2>1. /\ UNCHANGED <<input, h, tamper, result>> /\ gamma' \in Gammas
        /\ rpc = "derand" /\ rpc' = "check"
    BY <1>2 DEF ReceiverDerand, setup
  <2>2. gamma = <<>> /\ Hidden' \in BOOLEAN /\ (Hidden' => Corrupted')
    BY <2>1, HiddenUnseen DEF Inv, Knows, NoValue, Hidden, Corrupted
  <2>3. Ideal!DrawGamma
    BY <2>1, <2>2 DEF Ideal!DrawGamma, Corrupted
  <2> QED
    BY <2>3 DEF Ideal!Next
<1>3. CASE ReceiverCheck
  <2>1. UNCHANGED <<setup, gamma, result>> /\ rpc = "check" /\ rpc' = "uv"
    BY <1>3 DEF ReceiverCheck
  <2> QED
    BY <2>1, IdealStutter DEF Phase
<1>4. CASE ReceiverCheckFails
  <2>1. /\ UNCHANGED <<hi, input, h, tamper, result, gamma>>
        /\ rpc = "check" /\ rpc' = "failed"
        /\ Head(s2r) = CheckMessage(gamma)
        /\ \E i \in I : ~ CheckHolds(Head(s2r), i)
    BY <1>4 DEF ReceiverCheckFails, setup, Inv, Stage, At
  <2>2. Given /\ oi = Corrected /\ gamma \in Gammas
    BY <2>1 DEF Inv, Knows
  <2>3. ~ Unseen
    BY <2>1, <2>2, CheckSees
  <2>4. Corrupted /\ ~ Hidden /\ gamma # <<>>
    <3>1. gamma # <<>>
      <4>1. gamma \in [J -> F] /\ 0 \in J
        BY <2>2, GivenTypes, Ranges
      <4> QED
        BY <4>1
    <3> QED
      BY <2>1, <2>3, <3>1, HiddenUnseen DEF Unseen, Corrupted
  <2>5. Hidden' = Hidden
    BY <2>1 DEF Hidden
  <2>6. Ideal!Refuse
    BY <2>1, <2>4, <2>5 DEF Ideal!Refuse, Corrupted
  <2> QED
    BY <2>6 DEF Ideal!Next
<1>5. CASE ReceiverFinish
  <2>1. /\ UNCHANGED <<hi, input, h, tamper, gamma, lambda>> /\ rpc = "uv" /\ rpc' = "done"
    BY <1>5 DEF ReceiverFinish, setup
  <2>2. /\ Given /\ oi = Corrected /\ gamma \in Gammas /\ lambda \in Lambdas
        /\ \A i \in I : CheckHolds(CheckMessage(gamma), i)
    BY <2>1 DEF Inv, Knows, Passed
  <2>3. Unseen
    BY <2>2, CheckSees
  <2>4. result' = Outputs(Final)
    BY <1>5, <2>1 DEF ReceiverFinish, Inv, Stage, At
  <2> DEFINE o == OutputO(Final)
             cv == OutputCv(Final)
  <2>5. result' = Ideal!Delivery(o, cv)
    <3>1. Outputs(Final) = [o |-> o, cu |-> OutputCu(o, cv), cv |-> cv]
      BY DEF Outputs
    <3> HIDE DEF o, cv
    <3> QED
      BY <2>4, <3>1, SameDelivery
  <2>6. Hidden' = Hidden
    BY <2>1 DEF Hidden
  <2>7. gamma # <<>>
    <3>1. gamma \in [J -> F] /\ 0 \in J
      BY <2>2, GivenTypes, Ranges
    <3> QED
      BY <3>1
  <2>8. CASE Corrupted
    <3>1. Hidden
      BY <2>1, <2>3, <2>8, HiddenUnseen DEF Corrupted
    <3>2. o \in [Ideal!J -> Ideal!F] /\ cv \in Ideal!F
      <4>1. J = Ideal!J /\ F = Ideal!F
        BY DEF J, F, Ideal!J, Ideal!F
      <4>2. \A j \in J : o[j] \in F
        <5>1. \A j \in J : o[j] = Mod(input.u[j] + h * input.v[j] + UErrors[j] + h * VErrors[j] + Carried[j])
          BY <2>2, OutputValue
        <5>2. \A j \in J : /\ input.u[j] \in Int /\ input.v[j] \in Int /\ h \in Int
                           /\ UErrors[j] \in Int /\ VErrors[j] \in Int /\ Carried[j] \in Int
          BY <2>2, RowTypes, ErrorRows, Ranges
        <5> HIDE DEF o
        <5>3. \A j \in J : input.u[j] + h * input.v[j] + UErrors[j] + h * VErrors[j] + Carried[j] \in Int
          BY <5>2, SMT
        <5> QED
          BY <5>1, <5>3, ModRange
      <4>3. o = [j \in J |-> o[j]]
        BY DEF OutputO
      <4>4. cv \in F
        <5>1. cv = Mod(Field!Inner(Length, gamma, input.v) + Field!Inner(Length, gamma, VErrors) + Err("cv", 0))
          <6>1. cv1 = CheckMessage(gamma).cv
            BY <2>1 DEF Inv, Knows, Passed
          <6> QED
            BY <2>2, <6>1, OutputCvValue
        <5>2. /\ gamma \in [0 .. Length -> Int] /\ input.v \in [0 .. Length -> Int]
              /\ VErrors \in [0 .. Length -> Int] /\ Length \in Nat
          BY <2>2, RowTypes, ErrorRows, Ranges
        <5>3. /\ Field!Inner(Length, gamma, input.v) \in Int /\ Field!Inner(Length, gamma, VErrors) \in Int
              /\ Err("cv", 0) \in Int
          BY <2>2, <5>2, Field!InnerInt, ErrTypes
        <5>4. Field!Inner(Length, gamma, input.v) + Field!Inner(Length, gamma, VErrors) + Err("cv", 0) \in Int
          BY <5>3
        <5> HIDE DEF cv
        <5> QED
          BY <5>1, <5>4, ModRange
      <4> HIDE DEF o, cv
      <4>5. o \in [J -> F]
        BY <4>2, <4>3
      <4> QED
        BY <4>1, <4>4, <4>5
    <3> HIDE DEF o, cv
    <3>3. Ideal!DeliverSpoiled
      BY <2>1, <2>5, <2>6, <3>1, <3>2 DEF Ideal!DeliverSpoiled
    <3> QED
      BY <3>3 DEF Ideal!Next
  <2>9. CASE ~ Corrupted
    <3>1. /\ rpc' = "done" /\ Inv' /\ UNCHANGED <<input, h, gamma, tamper>>
          /\ tamper'.err = 0
      BY <2>1, <2>9 DEF Corrupted
    <3>2. Bound' /\ \A j \in J : Correct(j)'
      <4>1. (Inv /\ rpc = "done" /\ tamper.err = 0 => Bound /\ \A j \in J : Correct(j))'
        BY DeliveredRight, PTL
      <4> QED
        BY <3>1, <4>1
    <3>3. result'.o = o /\ result'.cv = cv
      BY <2>4 DEF Outputs
    <3>4. o = Ideal!Wanted
      <4>1. \A j \in J : o[j] = Mod(input.u[j] + h * input.v[j])
        BY <3>1, <3>2, <3>3 DEF Correct, Mod
      <4>2. o = [j \in J |-> o[j]]
        BY DEF OutputO
      <4> HIDE DEF o
      <4> QED
        BY <4>1, <4>2 DEF Ideal!Wanted, Ideal!J, J, Mod
    <3>5. cv = Ideal!Inner(gamma, input.v)
      <4>1. cv = dot_product(gamma, input.v)
        BY <3>1, <3>2, <3>3 DEF Bound, dot_product
      <4> HIDE DEF cv
      <4> QED
        BY <4>1 DEF Ideal!Inner, Ideal!J, Ideal!Sum, dot_product, Sum, Mod, J
    <3> HIDE DEF o, cv
    <3>6. result' = Ideal!Delivery(Ideal!Wanted, Ideal!Inner(gamma, input.v))
      BY <2>5, <3>4, <3>5
    <3>7. Ideal!Deliver
      BY <2>1, <2>6, <2>7, <2>9, <3>6 DEF Ideal!Deliver, Corrupted
    <3> QED
      BY <3>7 DEF Ideal!Next
  <2> QED
    BY <2>8, <2>9
<1> QED
  BY <1>1, <1>2, <1>3, <1>4, <1>5 DEF Next

\* VOLE+ implements the ideal functionality, as far as safety goes: an honest sender's
\* values are delivered right, a deviation that the receiver's draws expose is refused,
\* every other one leaves cu tied to o and cv.
THEOREM ImplementsIdealSafely == Spec => Ideal!Init /\ [][Ideal!Next]_(Ideal!vars)
<1>1. Inv /\ [Next]_vars => Inv'
  BY InvStep
<1> QED
  BY IdealInit, InvInit, InvStep, IdealStep, PTL DEF Spec
=============================================================================
