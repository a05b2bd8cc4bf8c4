------------------------------- MODULE VolePlus -------------------------------
(***************************************************************************)
(* VolePlus::send (the server) and VolePlus::receive (the client): from     *)
(* KVole small-set correlations oi = ui + hi*vi, all shifted to the same v, *)
(* to one correlation o = u + h*v for values u, v of the sender's choice    *)
(* and an h of the receiver's, plus the values cu and cv that bind u and v  *)
(* to the proof.  Vectors have Length entries and one more for the masks ru    *)
(* and rv.  Field elements are residues modulo P.                           *)
(*                                                                         *)
(* The receiver checks the shift: `tamper` adds an error to one entry of   *)
(* one sender message.                                                     *)
(***************************************************************************)
EXTENDS Integers, Sequences

CONSTANTS P, Length, KVole,
          Us, Vs,          \* candidate matrices ui, vi (functions of i and j)
          Points,          \* candidate vectors hi
          SenderValues,    \* candidate [u, v] with the masks ru, rv at index Length
          Hs,              \* candidate h
          Gammas, Lambdas, \* expansions of the two seeds
          Tampers          \* [msg, at, err] with msg "none", "derand", "cu", "cv", "u" or "v"

I == 0 .. (KVole - 1)
J == 0 .. Length
F == 0 .. (P - 1)

ASSUME VolePlusAssumption ==
  /\ P \in Nat \ {0, 1} /\ Length \in Nat \ {0} /\ KVole \in Nat \ {0}
  /\ Us \subseteq [I \X J -> F] /\ Vs \subseteq [I \X J -> F] /\ Points \subseteq [I -> F]
  /\ SenderValues \subseteq [u : [J -> F], v : [J -> F]] /\ Hs \subseteq F
  /\ Gammas \subseteq [J -> F] /\ Lambdas \subseteq [I -> F]
  /\ \A g \in Gammas : g[Length] = 1   \* expand_gamma
  /\ \A t \in Tampers :
       /\ t.msg \in {"none", "derand", "cu", "cv", "u", "v"} /\ t.err \in F
       /\ t.msg = "none" => t.err = 0
       /\ t.msg = "derand" => t.at \in (I \ {0}) \X J
       /\ t.msg = "cu" => t.at \in I
       /\ t.msg = "cv" => t.at = 0
       /\ t.msg \in {"u", "v"} => t.at \in J

\* P is 2^255 - 19 in the code.
ASSUME PrimeAssumption == P \in Nat /\ P > 1 /\ \A d \in 2 .. (P - 1) : P % d # 0

VARIABLES ui, vi, hi, input, h, tamper, \* fixed for the run
          spc, rpc,     \* where sender and receiver are
          s2r, r2s,     \* messages under way
          oi, gamma, lambda, cv1,       \* receiver's state
          sgamma,       \* sender's gamma
          result        \* what receive leaves in o, cu, cv
setup == <<ui, vi, hi, input, h, tamper>>
receiver == <<rpc, oi, gamma, lambda, cv1, result>>
vars == <<ui, vi, hi, input, h, tamper, spc, rpc, s2r, r2s, oi, gamma, lambda, cv1, sgamma, result>>

NoValue == <<>>
NoResult == [o |-> NoValue, cu |-> 0, cv |-> 0]
Mod(n) == n % P

\* The loops over j and i: sums of lazy products, reduced where used.
Sum(t, n) == LET acc[j \in 0 .. n] == IF j = 0 THEN t[0] ELSE acc[j - 1] + t[j] IN acc[n]

\* Mutant of dot_product: the loop starts at 1.
dot_product_late(g, w) == Mod(Sum([j \in J |-> IF j = 0 THEN 0 ELSE g[j] * w[j]], Length))
dot_product(g, w) == Mod(Sum([j \in J |-> g[j] * w[j]], Length))
Combine(lam, x) == Mod(Sum([i \in I |-> lam[i] * x[i]], KVole - 1))
Row(mat, i) == [j \in J |-> mat[<<i, j>>]]
Col(mat, j) == [i \in I |-> mat[<<i, j>>]]

\* The error of this run for an entry of a message.
Err(msg, at) == IF tamper.msg = msg /\ tamper.at = at THEN tamper.err ELSE 0

Init ==
  /\ ui \in Us /\ vi \in Vs /\ hi \in Points
  /\ input \in SenderValues /\ h \in Hs /\ tamper \in Tampers
  /\ oi = [ij \in I \X J |-> Mod(ui[ij] + hi[ij[1]] * vi[ij])]
  /\ spc = "derand" /\ rpc = "derand" /\ s2r = <<>> /\ r2s = <<>>
  /\ gamma = NoValue /\ lambda = NoValue /\ cv1 = 0 /\ sgamma = NoValue
  /\ result = NoResult

----------------------------------------------------------------------------
(* VolePlus::send.                                                         *)

\* v_0 - v_i for every i but the first.
DerandMessage == [ij \in (I \ {0}) \X J |-> Mod(vi[<<0, ij[2]>>] - vi[ij] + Err("derand", ij))]

SenderDerand ==
  /\ spc = "derand" /\ spc' = "gamma"
  /\ s2r' = Append(s2r, DerandMessage)
  /\ UNCHANGED <<setup, receiver, r2s, sgamma>>

\* <gamma, u_i> for every i and <gamma, v_0>.
CheckMessage(g) == [cu |-> [i \in I |-> Mod(dot_product(g, Row(ui, i)) + Err("cu", i))],
                    cv |-> Mod(dot_product(g, Row(vi, 0)) + Err("cv", 0))]

SenderCheck ==
  /\ spc = "gamma" /\ spc' = "lambda"
  /\ r2s # <<>> /\ r2s' = Tail(r2s)
  /\ sgamma' = Head(r2s)
  /\ s2r' = Append(s2r, CheckMessage(Head(r2s)))
  /\ UNCHANGED <<setup, receiver>>

\* u' = Delta' v_0 - sum lambda_i u_i + u and v' = v - v_0.
UvMessage(lam, delta) ==
  [u |-> [j \in J |-> Mod(delta * vi[<<0, j>>] - Combine(lam, Col(ui, j))
                          + input.u[j] + Err("u", j))],
   v |-> [j \in J |-> Mod(input.v[j] - vi[<<0, j>>] + Err("v", j))]]

SenderReply ==
  /\ spc = "lambda" /\ spc' = "done"
  /\ r2s # <<>> /\ r2s' = Tail(r2s)
  /\ s2r' = Append(s2r, UvMessage(Head(r2s).lambda, Head(r2s).delta))
  /\ UNCHANGED <<setup, receiver, sgamma>>

----------------------------------------------------------------------------
(* VolePlus::receive.                                                      *)

\* Mutant of Shifted: the first row of differences shifts every correlation.
Shifted_first(d) == [ij \in I \X J |-> Mod(oi[ij] + hi[ij[1]] * d[<<1, ij[2]>>])]

\* oi += hi * (v_0 - v_i) for every i but the first.
Shifted(d) == [ij \in I \X J |-> IF ij[1] = 0 THEN oi[ij] ELSE Mod(oi[ij] + hi[ij[1]] * d[ij])]

ReceiverDerand ==
  /\ rpc = "derand" /\ rpc' = "check"
  /\ s2r # <<>> /\ s2r' = Tail(s2r)
  /\ oi' = Shifted(Head(s2r))
  /\ gamma' \in Gammas
  /\ r2s' = Append(r2s, gamma')
  /\ UNCHANGED <<setup, spc, sgamma, lambda, cv1, result>>

\* cu_i - <gamma, o_i> + h_i * cv is zero.
CheckHolds(msg, i) == Mod(msg.cu[i] - dot_product(gamma, Row(oi, i)) + hi[i] * msg.cv) = 0

\* "receiver: Check failed! Abort.": receive returns, eval goes on.
ReceiverCheckFails ==
  /\ rpc = "check" /\ rpc' = "failed"
  /\ s2r # <<>> /\ s2r' = Tail(s2r)
  /\ \E i \in I : ~ CheckHolds(Head(s2r), i)
  /\ UNCHANGED <<setup, spc, sgamma, r2s, oi, gamma, lambda, cv1, result>>

\* Mutant of DeltaPrime: h is left out.
DeltaPrime_noH(lam) == Mod(0 - Combine(lam, hi))

\* Delta' = h - sum lambda_i h_i.
DeltaPrime(lam) == Mod(h - Combine(lam, hi))

\* Mutant of ReceiverCheck: only the first correlation is checked.
ReceiverCheck_first ==
  /\ rpc = "check" /\ rpc' = "uv"
  /\ s2r # <<>> /\ s2r' = Tail(s2r)
  /\ CheckHolds(Head(s2r), 0)
  /\ cv1' = Head(s2r).cv
  /\ lambda' \in Lambdas
  /\ r2s' = Append(r2s, [lambda |-> lambda', delta |-> DeltaPrime(lambda')])
  /\ UNCHANGED <<setup, spc, sgamma, oi, gamma, result>>

ReceiverCheck ==
  /\ rpc = "check" /\ rpc' = "uv"
  /\ s2r # <<>> /\ s2r' = Tail(s2r)
  /\ \A i \in I : CheckHolds(Head(s2r), i)
  /\ cv1' = Head(s2r).cv
  /\ lambda' \in Lambdas
  /\ r2s' = Append(r2s, [lambda |-> lambda', delta |-> DeltaPrime(lambda')])
  /\ UNCHANGED <<setup, spc, sgamma, oi, gamma, result>>

\* o = sum lambda_i o_i + u' + h v'.
OutputO(msg) ==
  [j \in J |-> Mod(Combine(lambda, Col(oi, j)) + msg.u[j] + h * msg.v[j])]

\* cv = <gamma, v'> + cv1 and cu = <gamma, o> - h cv.
OutputCv(msg) == Mod(dot_product(gamma, msg.v) + cv1)
OutputCu(o, cv) == Mod(dot_product(gamma, o) - h * cv)
Outputs(msg) == [o |-> OutputO(msg), cu |-> OutputCu(OutputO(msg), OutputCv(msg)), cv |-> OutputCv(msg)]

ReceiverFinish ==
  /\ rpc = "uv" /\ rpc' = "done"
  /\ s2r # <<>> /\ s2r' = Tail(s2r)
  /\ result' = Outputs(Head(s2r))
  /\ UNCHANGED <<setup, spc, sgamma, r2s, oi, gamma, lambda, cv1>>

Next ==
  \/ SenderDerand \/ SenderCheck \/ SenderReply
  \/ ReceiverDerand \/ ReceiverCheck \/ ReceiverCheckFails \/ ReceiverFinish

Spec == Init /\ [][Next]_vars
FairSpec == Spec /\ WF_vars(Next)

----------------------------------------------------------------------------
Passed == rpc \in {"uv", "done"}
Finished == rpc = "done"

\* What the proof's constraints C[1] and C[2] compare cu and cv with.
Bound == /\ result.cu = dot_product(gamma, input.u)
         /\ result.cv = dot_product(gamma, input.v)
Correct(j) == result.o[j] = Mod(input.u[j] + h * input.v[j])

\* Without an error receive always ends with o = u + h*v and with the inner
\* products of gamma with the sender's values, masks included: the lambdas, Delta'
\* and the v_0 that all rows were shifted to cancel.
HonestCorrect ==
  tamper.err = 0 => /\ rpc # "failed"
                    /\ Finished => Bound /\ \A j \in J : Correct(j)

\* A wrong difference gets through the check only where hi or gamma hides it, a
\* wrong cu never, a wrong cv only when no point can see it.
ShiftChecked ==
  Passed =>
    CASE tamper.msg = "derand" -> Mod(hi[tamper.at[1]] * gamma[tamper.at[2]] * tamper.err) = 0
      [] tamper.msg = "cu" -> tamper.err = 0
      [] tamper.msg = "cv" -> tamper.err = 0 \/ \A i \in I : hi[i] = 0
      [] OTHER -> TRUE

\* u' and v' come after the check; when they spoil o, then cu or cv is off as well,
\* so that the proof's first two constraints see it, unless gamma is zero there.
UvBound ==
  Finished /\ tamper.msg \in {"u", "v"} /\ (\E j \in J : ~ Correct(j)) =>
    ~ Bound \/ gamma[tamper.at] = 0

----------------------------------------------------------------------------
(* What the session takes from VOLE+.                                      *)

\* The deviations no check can see: those that gamma or the points cancel, and those
\* that come after the check.
Hidden ==
  /\ gamma # NoValue /\ tamper.err # 0
  /\ CASE tamper.msg = "derand" -> Mod(hi[tamper.at[1]] * gamma[tamper.at[2]] * tamper.err) = 0
       [] tamper.msg = "cv" -> \A i \in I : hi[i] = 0
       [] OTHER -> tamper.msg \in {"u", "v"}

Ideal == INSTANCE IdealVole
           WITH phase <- CASE rpc = "done" -> "delivered" [] rpc = "failed" -> "refused"
                           [] OTHER -> "waiting",
                out <- result,
                corrupted <- tamper.err # 0,
                hidden <- Hidden

\* VOLE+ implements the ideal functionality: an honest sender's values are delivered
\* right, a deviation the receiver's draws expose is refused, every other one leaves
\* cu tied to o and cv, and one of the three happens.
ImplementsIdeal == Ideal!Spec
=============================================================================
