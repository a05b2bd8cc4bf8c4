--------------------------------- MODULE ZKP ---------------------------------
(***************************************************************************)
(* PROPRF_ZKProver and PROPRF_ZKVerifier: the prover commits to the        *)
(* witness w by small-set VOLE correlations, every committed value is a    *)
(* polynomial u + w*X of the prover whose value at Delta the verifier      *)
(* holds, and the constraints C[1] to C[68] are folded into one polynomial *)
(* of degree 5 whose top coefficient vanishes when all of them hold.       *)
(* Field elements are residues modulo Prime; FeRegister looks at their limbs.  *)
(*                                                                         *)
(* The witness positions are those of the code for LEval values v and K    *)
(* values b: K_pos, v, b, ru, rv, y_0..y_8, a0, a1, c0, c1, five masks     *)
(* (of which four are used) and the element of the commitment check.       *)
(***************************************************************************)
EXTENDS Integers, Sequences, FiniteSetsExt

CONSTANTS Prime, HALF, K, SmallSetBits, KVole,
          Statements,  \* [w, gamma, mm, cu, cv, offsets, c] as the session passes them
          Us, Vs,      \* candidate correlations ui, vi
          Points,      \* candidate hi
          Masks,       \* what the prover draws for the five masks
          CheckGammas, Scalars, \* expansions of the two seeds
          Tampers      \* [msg, at, err]: an error in what the prover uses or sends

LEval == 2 * HALF
v_offset == 1
b_offset == v_offset + LEval
ru_pos == b_offset + K
rv_pos == ru_pos + 1
y_offset == ru_pos + 2
a0_pos == y_offset + 9
a1_pos == a0_pos + 1
c0_pos == a0_pos + 2
c1_pos == a0_pos + 3
mask_pos == a0_pos + 4
check_pos == mask_pos + 5
vole_len == 4 + LEval + K + 12 + 5 + 1

F == 0 .. (Prime - 1)
I == 0 .. (KVole - 1)
Pos == 0 .. (vole_len - 1)
NumScalars == 14 + K   \* one for every constraint but the first, in the order they are drawn

ASSUME ZkAssumption ==
  /\ Prime \in Nat \ {0, 1} /\ \A d \in 2 .. (Prime - 1) : Prime % d # 0
  /\ HALF = 5 \* the products of c0 and c1 are written out for five factors
  /\ K \in Nat /\ SmallSetBits \in Nat /\ KVole \in Nat \ {0}
  /\ \A s \in Statements :
       /\ s.w \in [0 .. (mask_pos - 1) -> F] /\ s.cu \in F /\ s.cv \in F
       /\ \A i \in 0 .. (LEval - 1) : s.gamma[i] \in F /\ s.offsets[i] \in F
       /\ \A i \in 0 .. (K - 1) : s.mm[i] \in F /\ s.offsets[LEval + s.c[i]] \in F
  /\ Us \subseteq [I \X Pos -> F] /\ Vs \subseteq [I \X Pos -> F] /\ Points \subseteq [I -> F]
  /\ Masks \subseteq [0 .. 4 -> F] /\ CheckGammas \subseteq [0 .. (check_pos - 1) -> F]
  /\ Scalars \subseteq [1 .. NumScalars -> F]

\* An entry is left alone or changed by something that is not zero.
ASSUME TamperAssumption ==
  \A t \in Tampers :
    /\ t.msg \in {"none", "derand", "cu", "cv", "witness", "coef"}
    /\ t.err \in F /\ (t.err = 0 <=> t.msg = "none")
    /\ t.msg = "derand" => t.at \in I \X Pos
    /\ t.msg = "cu" => t.at \in I
    /\ t.msg = "cv" => t.at = 0
    /\ t.msg = "coef" => t.at \in 0 .. 4

Mod(n) == n % Prime
Times(a, b) == Mod(a * b)
Four(a, b, c, d) == Times(Times(Times(a, b), c), d)
Five(a, b, c, d, e) == Times(Four(a, b, c, d), e)

\* A loop that adds up t[0] to t[n].
Total(t, n) == LET acc[j \in 0 .. n] == IF j = 0 THEN t[0] ELSE acc[j - 1] + t[j] IN acc[n]

\* 1 << small_set_bits * i, as the byte and bit set in the multiplier.
Multiplier(i) == Mod(2^(i * SmallSetBits))

\* The small correlations packed into one.
Combine(x) == Mod(Total([i \in I |-> Multiplier(i) * x[i]], KVole - 1))
Column(mat, j) == [i \in I |-> mat[<<i, j>>]]
Row(mat, i) == [j \in Pos |-> mat[<<i, j>>]]

\* The commitment check folds every position with gamma; the check element enters as it is.
Weight(g, j) == IF j = check_pos THEN 1 ELSE g[j]
Checked(g, x) == Mod(Total([j \in Pos |-> Weight(g, j) * x[j]], check_pos))

----------------------------------------------------------------------------
(* The constraints of the paper, as the comments above the blocks state    *)
(* them; C[1] and C[2] with the sign of the blocks, which is the opposite  *)
(* one.  Number n is C[n+1]; both sides fold them in this order, all but   *)
(* the first with a scalar.                                                *)

Bs == 2 .. (1 + K)
Cs == (2 + K) .. (3 + K)
Ys == (4 + K) .. (11 + K)

Constraint(s, w, n) ==
  LET K_plus(i) == Mod(w[0] + s.offsets[i])
      y(i) == w[y_offset + i]
      c_(half) == LET from == v_offset + half * HALF
                  IN  w[c0_pos + half]
                        - Five(w[from], w[from + 1], w[from + 2], w[from + 3], w[from + 4])
      terms == [i \in 0 .. (LEval - 1) |-> Times(s.gamma[i], w[v_offset + i])]
  IN  Mod(CASE n = 0 -> (Total([i \in 0 .. (LEval - 1) |-> Times(terms[i], K_plus(i))], LEval - 1)
                            + w[ru_pos]) - s.cu
            [] n = 1 -> (Total(terms, LEval - 1) + w[rv_pos]) - s.cv
            [] n \in Bs -> s.mm[n - 2] - w[b_offset + (n - 2)] * K_plus(LEval + s.c[n - 2])
            [] n \in Cs -> c_(n - (2 + K))
            [] n \in Ys -> y(n - (3 + K)) - Five(y(n - (4 + K)), y(n - (4 + K)), y(n - (4 + K)),
                                                 y(n - (4 + K)), y(n - (4 + K)))
            [] n = 12 + K -> w[a0_pos] - Five(y(8), y(8), y(4), y(1), y(1))
            [] n = 13 + K -> y(1) * w[a0_pos] - Four(y(0), y(0), y(3), w[a1_pos])
            [] OTHER -> Four(w[c0_pos], w[c1_pos], y(0), w[a1_pos]) - 1)

\* A session hands over a witness that meets its statement.
ASSUME HonestAssumption ==
  \A s \in Statements : \A n \in 0 .. NumScalars : Constraint(s, s.w, n) = 0

----------------------------------------------------------------------------
(* poly<D>: coefficients 0 .. D.                                           *)

Degree(p) == Max(DOMAIN p)
Coef(p, i) == IF i \in DOMAIN p THEN p[i] ELSE 0
ScalarPoly(s) == [i \in {0} |-> s]
Zero(d) == [i \in 0 .. d |-> 0]
\* += and -= touch the coefficients the right operand has; the left one keeps its degree.
Plus(p, q) == [i \in DOMAIN p |-> Mod(p[i] + Coef(q, i))]
Minus(p, q) == [i \in DOMAIN p |-> Mod(p[i] - Coef(q, i))]
Mul(p, q) ==
  [n \in 0 .. (Degree(p) + Degree(q)) |->
     Mod(Total([i \in DOMAIN p |-> p[i] * Coef(q, n - i)], Degree(p)))]
\* Homogenise to degree d: the constraint is read off the top coefficient.
shift_up(d, p) == [i \in 0 .. d |-> Coef(p, i - (d - Degree(p)))]
\* A loop that adds row[0] to row[n], all of degree d.
AddUp(d, row, n) == [i \in 0 .. d |-> Mod(Total([m \in 0 .. n |-> row[m][i]], n))]

----------------------------------------------------------------------------
VARIABLES stmt, ui, vi, hi, masks, tamper, \* fixed for the run
          ppc, vpc, p2v, v2p,
          commitment, \* prover: the polynomials of the committed values
          oi, key, Delta, checkGamma, scalars, \* verifier: correlations, values at Delta, seeds
          good, valid
setup == <<stmt, ui, vi, hi, masks, tamper>>
verifier == <<vpc, oi, key, Delta, checkGamma, scalars, good, valid>>
zkVars == <<stmt, ui, vi, hi, masks, tamper, ppc, vpc, p2v, v2p, commitment,
          oi, key, Delta, checkGamma, scalars, good, valid>>

Err(msg, at) == IF tamper.msg = msg /\ tamper.at = at THEN tamper.err ELSE 0

ZkInit ==
  /\ stmt \in Statements /\ ui \in Us /\ vi \in Vs /\ hi \in Points
  /\ masks \in Masks /\ tamper \in Tampers
  /\ ppc = "commit" /\ vpc = "derand" /\ p2v = <<>> /\ v2p = <<>>
  /\ commitment = <<>>
  /\ oi = [ij \in I \X Pos |-> Mod(ui[ij] + hi[ij[1]] * vi[ij])]
  /\ key = <<>> /\ Delta = 0 /\ checkGamma = <<>> /\ scalars = <<>>
  /\ good = TRUE /\ valid = FALSE

\* What is committed to: the witness, the masks and, never assigned, the check element.
Committed(j) ==
  IF j < mask_pos THEN Mod(stmt.w[j] + Err("witness", j))
  ELSE IF j < check_pos THEN masks[j - mask_pos] ELSE 0

MacOf(u, j) == Combine(Column(u, j))

DerandMessage == [ij \in I \X Pos |-> Mod((Committed(ij[2]) - vi[ij]) + Err("derand", ij))]

\* PROPRF_ZKProver::commit_to_witness up to the send.
Commit ==
  /\ ppc = "commit" /\ ppc' = "checkSeed"
  /\ commitment' = [j \in Pos |-> [d \in {0, 1} |-> IF d = 1 THEN Committed(j) ELSE MacOf(ui, j)]]
  /\ p2v' = Append(p2v, DerandMessage)
  /\ UNCHANGED <<setup, verifier, v2p>>

\* cv and the cu_i for the verifier's seed.
CheckMessage(g) ==
  [cv |-> Mod(Checked(g, [j \in Pos |-> commitment[j][1]]) + Err("cv", 0)),
   cu |-> [i \in I |-> Mod(Checked(g, Row(ui, i)) + Err("cu", i))]]

\* The rest of it.
CommitCheck ==
  /\ ppc = "checkSeed" /\ ppc' = "proveSeed"
  /\ v2p # <<>> /\ v2p' = Tail(v2p)
  /\ p2v' = Append(p2v, CheckMessage(Head(v2p)))
  /\ UNCHANGED <<setup, verifier, commitment>>

----------------------------------------------------------------------------
(* PROPRF_ZKProver::prove, block by block.  st[j] is the polynomial of     *)
(* position j, s[n] the scalar drawn for the n-th fold.                    *)

\* K + offset: the offset goes to the coefficient of the value.
KPlus(st, off) == [d \in {0, 1} |-> Mod(st[0][d] + (IF d = 1 THEN off ELSE 0))]

\* Block 1: C[1] and C[2], the inner products with gamma.
GammaV(st, i) == Mul(ScalarPoly(stmt.gamma[i]), st[v_offset + i])
CheckU(st) ==
  Plus(AddUp(2, [i \in 0 .. (LEval - 1) |-> Mul(GammaV(st, i), KPlus(st, stmt.offsets[i]))], LEval - 1),
       shift_up(2, st[ru_pos]))
CheckV(st) == Plus(AddUp(1, [i \in 0 .. (LEval - 1) |-> GammaV(st, i)], LEval - 1), st[rv_pos])

\* Block 2: C[3] to C[55] less m_i, with the sign of the fold.
TermB(st, i) == Mul(st[b_offset + i], KPlus(st, stmt.offsets[LEval + stmt.c[i]]))

\* Block 3: c_half less the product of its five v.
ProductV(st, from) ==
  Mul(Mul(Mul(Mul(st[from], st[from + 1]), st[from + 2]), st[from + 3]), st[from + 4])
CheckC(st, half) ==
  Minus(shift_up(5, st[c0_pos + half]), ProductV(st, v_offset + half * HALF))

\* Block 4: y_i less the fifth power of y_(i-1).
FifthPower(y) == Mul(Mul(Mul(y, y), Mul(y, y)), y)
CheckY(st, i) == Minus(shift_up(5, st[y_offset + i]), FifthPower(st[y_offset + (i - 1)]))

\* Blocks 5, 6 and 7: a0, a1 and the inversion less 1.
y_(st, i) == st[y_offset + i]
CheckA0(st) == Minus(shift_up(5, st[a0_pos]),
                     Mul(Mul(Mul(y_(st, 8), y_(st, 8)), y_(st, 4)), Mul(y_(st, 1), y_(st, 1))))
CheckA1(st) == Minus(shift_up(4, Mul(y_(st, 1), st[a0_pos])),
                     Mul(Mul(Mul(y_(st, 0), y_(st, 0)), y_(st, 3)), st[a1_pos]))
CheckInv(st) == Mul(Mul(st[c0_pos], st[c1_pos]), Mul(y_(st, 0), st[a1_pos]))

\* The block of constraint n.
Block(st, n) ==
  CASE n = 0 -> CheckU(st)
    [] n = 1 -> CheckV(st)
    [] n \in Bs -> TermB(st, n - 2)
    [] n \in Cs -> CheckC(st, n - (2 + K))
    [] n \in Ys -> CheckY(st, n - (3 + K))
    [] n = 12 + K -> CheckA0(st)
    [] n = 13 + K -> CheckA1(st)
    [] OTHER -> CheckInv(st)

\* A summand of check_poly.  (At degree 5 shift_up changes nothing.)
Scaled(st, s, n) == shift_up(5, Mul(ScalarPoly(s[n]), Block(st, n)))
Fold(st, s, n) ==
  CASE n = 0 -> shift_up(5, Block(st, n))
    [] n \in Bs -> Minus(Zero(5), Scaled(st, s, n))
    [] OTHER -> Scaled(st, s, n)

\* Block 8: mask i is added at degrees i and i+1.
CheckPoly(st, s) ==
  Plus(Plus(Plus(Plus(AddUp(5, [n \in 0 .. NumScalars |-> Fold(st, s, n)], NumScalars),
                      st[mask_pos]),
                 shift_up(2, st[mask_pos + 1])),
            shift_up(3, st[mask_pos + 2])),
       shift_up(4, st[mask_pos + 3]))

\* Coefficients 0 to 4 go out; the verifier assumes the fifth is the public constant.
Coefs(check) == [d \in 0 .. 4 |-> Mod(check[d] + Err("coef", d))]
Prove ==
  /\ ppc = "proveSeed" /\ ppc' = "done"
  /\ v2p # <<>> /\ v2p' = Tail(v2p)
  /\ p2v' = Append(p2v, Coefs(CheckPoly(commitment, Head(v2p))))
  /\ UNCHANGED <<setup, verifier, commitment>>

----------------------------------------------------------------------------
(* PROPRF_ZKVerifier::commit_to_witness.                                   *)

Shifted(msg) == [ij \in I \X Pos |-> Mod(oi[ij] + hi[ij[1]] * msg[ij])]

ReceiveDerand ==
  /\ vpc = "derand" /\ vpc' = "check"
  /\ p2v # <<>> /\ p2v' = Tail(p2v)
  /\ oi' = Shifted(Head(p2v))
  /\ Delta' = Combine(hi)
  /\ key' = [j \in Pos |-> MacOf(Shifted(Head(p2v)), j)]
  /\ checkGamma' \in CheckGammas
  /\ v2p' = Append(v2p, checkGamma')
  /\ UNCHANGED <<setup, ppc, commitment, scalars, good, valid>>

\* Mutant of CommitmentHolds: the last correlation goes unchecked.
CommitmentHolds_first(msg, i) ==
  i = KVole - 1 \/
  Mod(Checked(checkGamma, Row(oi, i)) - (msg.cu[i] + hi[i] * msg.cv)) = 0

\* o_i folded with gamma is cu_i + h_i cv.
CommitmentHolds(msg, i) ==
  Mod(Checked(checkGamma, Row(oi, i)) - (msg.cu[i] + hi[i] * msg.cv)) = 0

\* After a failed check eval returns; otherwise, messages later, verify sends its seed.
ReceiveCheck ==
  /\ vpc = "check"
  /\ p2v # <<>> /\ p2v' = Tail(p2v)
  /\ IF \A i \in I : CommitmentHolds(Head(p2v), i)
     THEN /\ vpc' = "verify" /\ good' = TRUE
          /\ scalars' \in Scalars
          /\ v2p' = Append(v2p, scalars')
     ELSE /\ vpc' = "rejected" /\ good' = FALSE
          /\ UNCHANGED <<scalars, v2p>>
  /\ UNCHANGED <<setup, ppc, commitment, oi, key, Delta, checkGamma, valid>>

----------------------------------------------------------------------------
(* PROPRF_ZKVerifier::verify.                                              *)

Delta_two == Times(Delta, Delta)
Delta_three == Times(Delta, Delta_two)
Delta_four == Times(Delta_two, Delta_two)
Delta_five == Times(Delta_two, Delta_three)
q(pos, n) == key[pos + n]
KeyPlus(off) == Mod(key[0] + Delta * off)

\* The values of the blocks at Delta, the public constants in place.
gammav(i) == Times(stmt.gamma[i], q(v_offset, i))
u_check == Mod((Total([i \in 0 .. (LEval - 1) |-> Times(gammav(i), KeyPlus(stmt.offsets[i]))], LEval - 1)
                + Delta * key[ru_pos]) - Delta_two * stmt.cu)
v_check == Mod((Total([i \in 0 .. (LEval - 1) |-> gammav(i)], LEval - 1)
                + key[rv_pos]) - Delta * stmt.cv)
check_b(i) == Mod(stmt.mm[i] * Delta_two
                  - q(b_offset, i) * KeyPlus(stmt.offsets[LEval + stmt.c[i]]))
check_c(half) ==
  LET from == v_offset + half * HALF
  IN  Mod(key[c0_pos + half] * Delta_four
          - Five(key[from], key[from + 1], key[from + 2], key[from + 3], key[from + 4]))
check_y(i) ==
  LET y == q(y_offset, i - 1)
  IN  Mod(q(y_offset, i) * Delta_four - Times(Times(Times(y, y), Times(y, y)), y))
check_a0 == Mod(key[a0_pos] * Delta_four
                - Times(Times(Times(q(y_offset, 8), q(y_offset, 8)), q(y_offset, 4)),
                        Times(q(y_offset, 1), q(y_offset, 1))))
check_a1 == Mod(Times(Times(q(y_offset, 1), key[a0_pos]), Delta_three)
                - Five(q(y_offset, 0), q(y_offset, 0), q(y_offset, 3), key[a1_pos], Delta))
check_inv == Mod(Four(key[c0_pos], key[c1_pos], q(y_offset, 0), key[a1_pos]) - Delta_four)

\* Each lifted to degree 5.
VerifierBlock(n) ==
  CASE n = 0 -> u_check * Delta_three
    [] n = 1 -> v_check * Delta_four
    [] n \in Bs -> Delta_three * check_b(n - 2)
    [] n \in Cs -> check_c(n - (2 + K))
    [] n \in Ys -> check_y(n - (3 + K))
    [] n = 12 + K -> check_a0
    [] n = 13 + K -> check_a1
    [] OTHER -> check_inv * Delta
Scale(s, n) == IF n = 0 THEN 1 ELSE s[n]
VerifierFold(n) == Mod(Scale(scalars, n) * Mod(VerifierBlock(n)))

\* Mutant of VerifierMasks: the masks are not lifted to their degrees.
VerifierMasks_flat == key[mask_pos] + key[mask_pos + 1] + key[mask_pos + 2] + key[mask_pos + 3]
VerifierMasks == key[mask_pos] + Delta * key[mask_pos + 1] + Delta_two * key[mask_pos + 2]
                 + Delta_three * key[mask_pos + 3]

\* The accumulator check and the received polynomial at Delta, by Horner.
VerifierCheck ==
  Mod(Total([n \in 0 .. NumScalars |-> VerifierFold(n)], NumScalars) + VerifierMasks)

\* Mutant of Horner: evaluation starts one coefficient too low.
Horner_four(coefs) ==
  Mod(Delta * Mod(Delta * Mod(Delta * coefs[3] + coefs[2]) + coefs[1]) + coefs[0])
Horner(coefs) ==
  Mod(Delta * Mod(Delta * Mod(Delta * Mod(Delta * coefs[4] + coefs[3]) + coefs[2]) + coefs[1]) + coefs[0])

Verify ==
  /\ vpc = "verify" /\ vpc' = "done"
  /\ p2v # <<>> /\ p2v' = Tail(p2v)
  /\ valid' = (Horner(Head(p2v)) = VerifierCheck)
  /\ UNCHANGED <<setup, ppc, commitment, v2p, oi, key, Delta, checkGamma, scalars, good>>

ZkNext == Commit \/ CommitCheck \/ Prove \/ ReceiveDerand \/ ReceiveCheck \/ Verify
ZkSpec == ZkInit /\ [][ZkNext]_zkVars

----------------------------------------------------------------------------
(* What a wrong witness shows.                                             *)

\* The folded constraints of the values committed to.
Folded == Mod(Total([n \in 0 .. NumScalars |->
                       Scale(scalars, n) * Constraint(stmt, [j \in 0 .. (mask_pos - 1) |-> Committed(j)], n)],
                    NumScalars))

\* An error that changes nothing the verifier computes from the commitment: its point is
\* zero or gamma misses its position.
Unseen ==
  \/ tamper.msg \in {"none", "witness", "coef"}
  \/ /\ tamper.msg = "derand"
     /\ \/ hi[tamper.at[1]] = 0
        \/ tamper.at[2] # check_pos /\ checkGamma[tamper.at[2]] = 0
  \/ tamper.msg = "cv" /\ \A i \in I : hi[i] = 0

\* The power of Delta that goes with coefficient n.
DeltaPower(n) == <<1, Delta, Delta_two, Delta_three, Delta_four>>[n + 1]

\* The value at Delta of the prover's polynomial for position j.
AtDelta(j) == Mod(commitment[j][0] + Delta * commitment[j][1])

\* The difference of position j is wrong and gamma misses it.
Missed(j) == tamper.msg = "derand" /\ tamper.at[2] = j /\ j # check_pos /\ checkGamma[j] = 0

\* commit_to_witness binds the prover: after the check the verifier's key for every position
\* is the value at Delta of the polynomial the prover committed to, but for a position that
\* gamma misses; and the check fails for every error that is seen, and for no other.
CommitmentBinds ==
  /\ vpc \in {"verify", "done"} =>
       /\ Unseen
       /\ \A j \in Pos : key[j] = AtDelta(j) \/ Missed(j)
  /\ vpc = "rejected" => ~ Unseen

\* An untampered proof is accepted: commitment, folding, degrees and masks of the two
\* sides agree for every Delta, every scalar and every witness of the session.
HonestAccepted ==
  tamper.msg = "none" => /\ vpc # "rejected"
                         /\ vpc = "done" => valid

\* The verdict is exact: the prover's polynomials and the verifier's values differ by the
\* folded constraints at the top degree and by nothing else, so a wrong witness passes only
\* when the scalars cancel it or Delta is 0, and a wrong coefficient only when Delta is 0.
VerdictExact ==
  /\ HonestAccepted
  /\ vpc = "done" /\ tamper.msg \in {"witness", "coef"} =>
       (valid <=> Mod(IF tamper.msg = "witness" THEN Folded * Delta_five
                 ELSE tamper.err * DeltaPower(tamper.at)) = 0)
=============================================================================
