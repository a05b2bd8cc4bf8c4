----------------------------- MODULE OPRFProofs -----------------------------
(***************************************************************************)
(* What an OPRF session proves to the client.                              *)
(*                                                                         *)
(* First what operator== of field25519 decides, by which the server        *)
(* refuses a key and chooses its offsets.                                  *)
(*                                                                         *)
(* Then the order of the messages, for every key, input, offsets, lengths  *)
(* and corrupted message, verbose or not: Script lists where the two       *)
(* coroutines can be relative to each other and which messages are then    *)
(* under way, row by row in the order of the session; every action leads   *)
(* from a row to a row, and Rest keeps the constants' types.               *)
(*                                                                         *)
(* Last the data: the algebra of the prime field (loops of squarings and   *)
(* products, inverses by Fermat's theorem, cancelling), that a witness     *)
(* formed by the server's code meets the constraints of ZKP.h whenever no  *)
(* zero was drawn and never when one was, the value of every message       *)
(* (Bodies), what the client has learnt (Knows) and what its verdict means *)
(* (Verdicts).  The invariant IInv gives the four properties of the        *)
(* client's output, and that the session implements IdealOPRF.             *)
(***************************************************************************)
EXTENDS OPRF, FiniteSetTheorems, TLAPS

----------------------------------------------------------------------------
(* What operator== decides, for every number of limbs, radix, C and word   *)
(* size: on reduced elements it holds only of a pair that is P apart limb  *)
(* by limb, so never of an element and itself.                             *)

\* A value below the modulus is its own remainder.
LEMMA ModSmall ==
  ASSUME NEW x \in Int, NEW m \in Nat, x >= 0, x < m
  PROVE  x % m = x
BY SMT

\* Solving z = a + 2p - b for z = p.
LEMMA SolveLimb ==
  ASSUME NEW a \in Int, NEW b \in Int, NEW p \in Int
  PROVE  (b = a + p) <=> (a + 2 * p - b = p)
BY SMT

\* Limb by limb the lazy difference of reduced elements is x + 2P - y: nothing
\* wraps around.
LEMMA SubLimb ==
  ASSUME NEW x \in Fe, NEW y \in Fe, IsReduced(x), IsReduced(y), NEW i \in Limb
  PROVE  /\ sub_lazy(x, y)[i] = x[i] + 2 * PLimb(i) - y[i]
         /\ x[i] + 2 * PLimb(i) - y[i] >= PLimb(i) - (RADIX - 1)
         /\ i = 0 => x[i] + 2 * PLimb(i) - y[i] > 0
<1> DEFINE top == IF i = LIMBS - 1 THEN TOP ELSE RADIX
<1>1. x[i] \in 0 .. (top - 1) /\ y[i] \in 0 .. (top - 1)
  BY DEF IsReduced
<1>2. LIMBS \in Nat /\ LIMBS >= 2 /\ TOP \in Nat /\ TOP >= 2 /\ RADIX = 2 * TOP /\ C \in Nat
      /\ C >= 1 /\ C <= TOP - 1 /\ WORD \in Nat /\ WORD > 4 * RADIX /\ i \in Int
  BY LimbAssumption DEF Limb
<1>3. PLimb(i) = IF i = 0 THEN RADIX - C ELSE IF i = LIMBS - 1 THEN TOP - 1 ELSE RADIX - 1
  BY DEF PLimb
<1>4. /\ x[i] + 2 * PLimb(i) - y[i] \in Int
      /\ x[i] + 2 * PLimb(i) - y[i] >= 0
      /\ x[i] + 2 * PLimb(i) - y[i] < WORD
      /\ i = 0 => x[i] + 2 * PLimb(i) - y[i] > 0
      /\ x[i] + 2 * PLimb(i) - y[i] >= PLimb(i) - (RADIX - 1)
  BY <1>1, <1>2, <1>3
<1>5. (x[i] + 2 * PLimb(i) - y[i]) % WORD = x[i] + 2 * PLimb(i) - y[i]
  BY <1>2, <1>4, ModSmall
<1> QED
  BY <1>4, <1>5 DEF sub_lazy

\* operator== on reduced elements: true exactly when y is x + P limb by limb.
\* The two then stand for the same residue, but one of them is not canonical.
THEOREM EqualOnlyAcrossP ==
  ASSUME NEW x \in Fe, NEW y \in Fe, IsReduced(x), IsReduced(y)
  PROVE  Equal(x, y) <=> \A i \in Limb : y[i] = x[i] + PLimb(i)
<1> DEFINE z == sub_lazy(x, y)
<1>1. \A i \in Limb : /\ z[i] = x[i] + 2 * PLimb(i) - y[i]
                      /\ i = 0 => z[i] > 0
  BY SubLimb
<1>2. \A i \in Limb : x[i] \in Int /\ y[i] \in Int /\ PLimb(i) \in Int
  BY LimbAssumption DEF Fe, Limb, PLimb
<1>3. /\ 0 \in Limb /\ 1 .. (LIMBS - 1) \subseteq Limb
      /\ \A i \in Limb : i = 0 \/ i \in 1 .. (LIMBS - 1)
  BY LimbAssumption DEF Limb
<1>4. (\A i \in Limb : y[i] = x[i] + PLimb(i)) <=> (\A i \in Limb : z[i] = PLimb(i))
  <2>1. ASSUME NEW i \in Limb
        PROVE  y[i] = x[i] + PLimb(i) <=> z[i] = PLimb(i)
    <3> HIDE DEF z
    <3>1. z[i] = x[i] + 2 * PLimb(i) - y[i] /\ x[i] \in Int /\ y[i] \in Int /\ PLimb(i) \in Int
      BY <1>1, <1>2
    <3>2. (y[i] = x[i] + PLimb(i)) <=> (x[i] + 2 * PLimb(i) - y[i] = PLimb(i))
      BY <1>2, SolveLimb
    <3> QED
      BY <3>1, <3>2
  <2> HIDE DEF z
  <2> QED
    BY <2>1
<1> HIDE DEF z
<1>5. Equal(x, y) <=> iszero(freeze(z))
  BY DEF Equal, z
<1>6. CASE AtLeastP(z)
  <2>1. iszero(freeze(z)) <=> \A i \in Limb : z[i] - PLimb(i) = 0
    BY <1>6 DEF freeze, iszero
  <2>2. \A i \in Limb : z[i] \in Int
    BY <1>1, <1>2
  <2>3. (\A i \in Limb : z[i] - PLimb(i) = 0) <=> (\A i \in Limb : z[i] = PLimb(i))
    BY <2>2, <1>2
  <2> QED
    BY <2>1, <2>3, <1>4, <1>5
<1>7. CASE ~ AtLeastP(z)
  <2>1. ~ iszero(freeze(z))
    BY <1>7, <1>1, <1>3 DEF freeze, iszero
  <2>2. ~ (\A i \in Limb : z[i] = PLimb(i))
    <3>1. PLimb(0) >= PLimb(0)
      BY <1>2, <1>3
    <3> QED
      BY <1>7, <1>3, <3>1 DEF AtLeastP
  <2> QED
    BY <2>1, <2>2, <1>4, <1>5
<1> QED
  BY <1>6, <1>7

\* operator== never finds a reduced element equal to itself: the collision
\* loop of the OPRF constructor and the key check of blindedEval compare with
\* it and cannot fire on canonical elements.
THEOREM EqualNeverReflexive ==
  ASSUME NEW x \in Fe, IsReduced(x)
  PROVE  ~ Equal(x, x)
<1>1. 0 \in Limb /\ x[0] \in Int /\ PLimb(0) \in Int /\ PLimb(0) > 0
  BY LimbAssumption DEF Limb, Fe, PLimb
<1> QED
  BY <1>1, EqualOnlyAcrossP

----------------------------------------------------------------------------
(* The order of the messages.                                              *)

None(q) == q = <<>>
One(q, a) == q = <<Msg(a, q[1].body)>>
Two(q, a, b) == q = <<Msg(a, q[1].body), Msg(b, q[2].body)>>

At(c, s) == cpc = c /\ spc = s

\* Base OT to PPRF; a refused key leaves the server done and the client waiting.
Setup ==
  \/ At("baseOt", "baseOt") /\ None(c2s) /\ None(s2c)
  \/ At("baseOt", "ctxt") /\ None(c2s) /\ One(s2c, "pk")
  \/ At("otExt", "ctxt") /\ One(c2s, "ctxt") /\ None(s2c)
  \/ At("otExt", "otExt") /\ None(c2s) /\ None(s2c)
  \/ At("pprf", "ctxt") /\ Two(c2s, "ctxt", "extU") /\ None(s2c)
  \/ At("pprf", "otExt") /\ One(c2s, "extU") /\ None(s2c)
  \/ (At("pprf", "witness") \/ At("pprf", "done")) /\ None(c2s) /\ One(s2c, "sums")
  \/ (At("zkDerand", "witness") \/ At("zkDerand", "done")) /\ None(c2s) /\ None(s2c)

\* The commitment to the witness.
Commit ==
  \/ At("pprf", "zkSeed") /\ None(c2s) /\ Two(s2c, "sums", "derand")
  \/ At("zkDerand", "zkSeed") /\ None(c2s) /\ One(s2c, "derand")
  \/ At("zkCheck", "zkSeed") /\ One(c2s, "seed") /\ None(s2c)
  \/ At("zkCheck", "vpDerand") /\ None(c2s) /\ One(s2c, "cuv")
  \/ At("zkCheck", "gamma") /\ None(c2s) /\ Two(s2c, "cuv", "vpDerand")

\* VOLE+; the row with recvE and lambda is the failed check.
Vole ==
  \/ At("vpDerand", "vpDerand") /\ None(c2s) /\ None(s2c)
  \/ At("vpDerand", "gamma") /\ None(c2s) /\ One(s2c, "vpDerand")
  \/ At("vpCheck", "gamma") /\ One(c2s, "gamma") /\ None(s2c)
  \/ At("vpCheck", "lambda") /\ None(c2s) /\ One(s2c, "check")
  \/ At("recvE", "lambda") /\ None(c2s) /\ None(s2c)
  \/ At("vpFinish", "lambda") /\ One(c2s, "lambda") /\ None(s2c)
  \/ At("vpFinish", "sendE") /\ None(c2s) /\ One(s2c, "uv")
  \/ At("vpFinish", "recvC") /\ None(c2s) /\ Two(s2c, "uv", "e")

\* Symbols, challenge, answers and proof.
Prove ==
  \/ At("recvE", "sendE") /\ None(c2s) /\ None(s2c)
  \/ At("recvE", "recvC") /\ None(c2s) /\ One(s2c, "e")
  \/ At("challenge", "recvC") /\ None(c2s) /\ None(s2c)
  \/ At("recvM", "recvC") /\ One(c2s, "c") /\ None(s2c)
  \/ At("recvM", "zkProve") /\ None(c2s) /\ One(s2c, "m")
  \/ At("seed", "zkProve") /\ None(c2s) /\ None(s2c)
  \/ At("verify", "zkProve") /\ One(c2s, "zkSeed") /\ None(s2c)
  \/ (At("verify", "flush") \/ At("verify", "done")) /\ None(c2s) /\ One(s2c, "coefs")
  \/ (At("done", "flush") \/ At("done", "done")) /\ None(c2s) /\ None(s2c)

\* The client gave up; the server goes on to its next receive.
Aborted ==
  \/ At("aborted", "gamma") /\ None(c2s) /\ One(s2c, "vpDerand")
  \/ /\ \E s \in {"vpDerand", "recvC", "zkProve", "flush", "done"} : At("aborted", s)
     /\ None(c2s) /\ None(s2c)

Script == Setup \/ Commit \/ Vole \/ Prove \/ Aborted

----------------------------------------------------------------------------
(* Sending to and receiving from a queue of at most two messages.          *)

\* A message sent to an empty queue is alone in it.
LEMMA SendNone ==
  ASSUME NEW q, NEW a, NEW x, None(q)
  PROVE  One(Append(q, Msg(a, x)), a)
<1> DEFINE m == Msg(a, x)
<1>1. Append(<<>>, m) = <<m>>
  OBVIOUS
<1>2. m.body = x
  BY DEF Msg
<1> QED
  BY <1>1, <1>2 DEF None, One

\* A message sent after another waits behind it.
LEMMA SendOne ==
  ASSUME NEW q, NEW k, NEW a, NEW x, One(q, k)
  PROVE  Two(Append(q, Msg(a, x)), k, a)
<1> DEFINE m == Msg(k, q[1].body)
           n == Msg(a, x)
<1>1. q = <<m>>
  BY DEF One
<1>3. n.body = x /\ m.body = q[1].body
  BY DEF Msg
<1>2. Append(<<m>>, n) = <<m, n>>
  <2> HIDE DEF m, n
  <2>1. <<m>> \in Seq({m, n}) /\ Len(<<m>>) = 1 /\ n \in {m, n}
    OBVIOUS
  <2>2. /\ Append(<<m>>, n) \in Seq({m, n})
        /\ Len(Append(<<m>>, n)) = 2
        /\ Append(<<m>>, n)[1] = m
        /\ Append(<<m>>, n)[2] = n
    BY <2>1
  <2>3. \A t \in Seq({m, n}) : Len(t) = 2 /\ t[1] = m /\ t[2] = n => t = <<m, n>>
    OBVIOUS
  <2> QED
    BY <2>2, <2>3
<1>4. Append(q, n)[1] = m /\ Append(q, n)[2] = n
  <2> HIDE DEF m, n
  <2> QED
    BY <1>1, <1>2
<1>5. Append(q, n) = <<Msg(k, m.body), Msg(a, n.body)>>
  BY <1>1, <1>2, <1>3
<1> QED
  BY <1>4, <1>5 DEF Two

\* Receiving the only message empties the queue.
LEMMA TakeOne ==
  ASSUME NEW q, NEW a, One(q, a)
  PROVE  q /= <<>> /\ Len(q) = 1 /\ Head(q).kind = a /\ None(Tail(q))
<1> DEFINE m == Msg(a, q[1].body)
<1>1. q = <<m>>
  BY DEF One
<1>2. <<m>> /= <<>> /\ Len(<<m>>) = 1 /\ Head(<<m>>) = m /\ Tail(<<m>>) = <<>>
  OBVIOUS
<1>3. m.kind = a
  BY DEF Msg
<1> QED
  BY <1>1, <1>2, <1>3 DEF None

\* Receiving the first of two messages leaves the second.
LEMMA TakeTwo ==
  ASSUME NEW q, NEW a, NEW b, Two(q, a, b)
  PROVE  q /= <<>> /\ Len(q) = 2 /\ Head(q).kind = a /\ One(Tail(q), b)
<1> DEFINE m == Msg(a, q[1].body)
           n == Msg(b, q[2].body)
<1>1. q = <<m, n>>
  BY DEF Two
<1>2. <<m, n>> /= <<>> /\ Len(<<m, n>>) = 2 /\ Head(<<m, n>>) = m /\ Tail(<<m, n>>) = <<n>>
  OBVIOUS
<1>3. m.kind = a /\ n.body = q[2].body
  BY DEF Msg
<1>4. <<n>>[1] = n /\ n = Msg(b, n.body)
  <2>1. n = Msg(b, n.body)
    BY <1>3
  <2> HIDE DEF n
  <2> QED
    BY <2>1
<1>5. One(<<n>>, b)
  <2> HIDE DEF n
  <2> QED
    BY <1>4 DEF One
<1> HIDE DEF m, n
<1> QED
  BY <1>1, <1>2, <1>3, <1>5

----------------------------------------------------------------------------
\* Every step of a coroutine, whichever side takes it, leads from a row of the
\* script to a row of the script.
LEMMA ScriptStep ==
  ASSUME Script, [Next]_vars
  PROVE  Script'
<1>1. CASE ServerBaseOt
  BY <1>1, SendNone, SendOne
  DEF ServerBaseOt, ServerLocal, ToClient, Script, Setup, Commit, Vole, Prove, Aborted, At, None
<1>2. CASE ServerCtxt
  BY <1>2, TakeOne, TakeTwo
  DEF ServerCtxt, ServerLocal, FromClient, Script, Setup, Commit, Vole, Prove, Aborted, At, None
<1>3. CASE ServerOtExt
  BY <1>3, TakeOne, TakeTwo, SendNone, SendOne
  DEF ServerOtExt, ServerLocal, FromClient, ToClient, Script, Setup, Commit, Vole, Prove, Aborted, At, None
<1>4. CASE ServerReject
  BY <1>4
  DEF ServerReject, ServerLocal, Script, Setup, Commit, Vole, Prove, Aborted, At, None
<1>5. CASE ServerCommit
  BY <1>5, SendNone, SendOne
  DEF ServerCommit, ServerLocal, ToClient, Script, Setup, Commit, Vole, Prove, Aborted, At, None
<1>6. CASE ServerCommitReply
  BY <1>6, TakeOne, TakeTwo, SendNone, SendOne
  DEF ServerCommitReply, ServerLocal, FromClient, ToClient, Script, Setup, Commit, Vole, Prove, Aborted, At, None
<1>7. CASE ServerVpDerand
  BY <1>7, SendNone, SendOne
  DEF ServerVpDerand, ServerLocal, ToClient, Script, Setup, Commit, Vole, Prove, Aborted, At, None
<1>8. CASE ServerVpCheck
  BY <1>8, TakeOne, TakeTwo, SendNone, SendOne
  DEF ServerVpCheck, ServerLocal, FromClient, ToClient, Script, Setup, Commit, Vole, Prove, Aborted, At, None
<1>9. CASE ServerVpReply
  BY <1>9, TakeOne, TakeTwo, SendNone, SendOne
  DEF ServerVpReply, ServerLocal, FromClient, ToClient, Script, Setup, Commit, Vole, Prove, Aborted, At, None
<1>10. CASE ServerSendE
  BY <1>10, SendNone, SendOne
  DEF ServerSendE, ServerLocal, ToClient, Script, Setup, Commit, Vole, Prove, Aborted, At, None
<1>11. CASE ServerSendM
  BY <1>11, TakeOne, TakeTwo, SendNone, SendOne
  DEF ServerSendM, ServerLocal, FromClient, ToClient, Script, Setup, Commit, Vole, Prove, Aborted, At, None
<1>12. CASE ServerProve
  BY <1>12, TakeOne, TakeTwo, SendNone, SendOne
  DEF ServerProve, ServerLocal, FromClient, ToClient, Script, Setup, Commit, Vole, Prove, Aborted, At, None
<1>13. CASE ServerReturn
  BY <1>13
  DEF ServerReturn, ServerLocal, Script, Setup, Commit, Vole, Prove, Aborted, At, None
<1>14. CASE ClientBaseOt
  BY <1>14, TakeOne, TakeTwo, SendNone, SendOne
  DEF ClientBaseOt, ClientLocal, FromServer, ToServer, Script, Setup, Commit, Vole, Prove, Aborted, At, None
<1>15. CASE ClientOtExt
  BY <1>15, SendNone, SendOne
  DEF ClientOtExt, ClientLocal, ToServer, Script, Setup, Commit, Vole, Prove, Aborted, At, None
<1>16. CASE ClientExpand
  BY <1>16, TakeOne, TakeTwo
  DEF ClientExpand, ClientLocal, FromServer, Script, Setup, Commit, Vole, Prove, Aborted, At, None
<1>17. CASE ClientCommitDerand
  BY <1>17, TakeOne, TakeTwo, SendNone, SendOne
  DEF ClientCommitDerand, ClientLocal, FromServer, ToServer, Script, Setup, Commit, Vole, Prove, Aborted, At, None
<1>18. CASE ClientCommitCheck
  BY <1>18, TakeOne, TakeTwo
  DEF ClientCommitCheck, ClientLocal, FromServer, Script, Setup, Commit, Vole, Prove, Aborted, At, None
<1>19. CASE ClientVpDerand
  BY <1>19, TakeOne, TakeTwo, SendNone, SendOne
  DEF ClientVpDerand, ClientLocal, FromServer, ToServer, Script, Setup, Commit, Vole, Prove, Aborted, At, None
<1>20. CASE ClientVpCheck
  BY <1>20, TakeOne, TakeTwo, SendNone, SendOne
  DEF ClientVpCheck, ClientLocal, FromServer, ToServer, Script, Setup, Commit, Vole, Prove, Aborted, At, None
<1>21. CASE ClientVpCheckFails
  BY <1>21, TakeOne, TakeTwo
  DEF ClientVpCheckFails, ClientLocal, FromServer, Script, Setup, Commit, Vole, Prove, Aborted, At, None
<1>22. CASE ClientVpFinish
  BY <1>22, TakeOne, TakeTwo
  DEF ClientVpFinish, ClientLocal, FromServer, Script, Setup, Commit, Vole, Prove, Aborted, At, None
<1>23. CASE ClientRecvE
  BY <1>23, TakeOne, TakeTwo
  DEF ClientRecvE, ClientLocal, FromServer, Script, Setup, Commit, Vole, Prove, Aborted, At, None
<1>24. CASE ClientChallenge
  <2>1. PICK c : ToServer("c", c)
    BY <1>24 DEF ClientChallenge
  <2>2. At("challenge", "recvC") /\ None(c2s) /\ None(s2c)
    BY <1>24 DEF ClientChallenge, Script, Setup, Commit, Vole, Prove, Aborted, At
  <2>3. One(c2s', "c")
    BY <2>1, <2>2, SendNone DEF ToServer
  <2>4. At("recvM", "recvC")' /\ None(s2c)'
    BY <1>24, <2>2 DEF ClientChallenge, ClientLocal, At, None
  <2> QED
    BY <2>3, <2>4 DEF Script, Prove
<1>25. CASE ClientRecvM
  BY <1>25, TakeOne, TakeTwo
  DEF ClientRecvM, ClientLocal, FromServer, Script, Setup, Commit, Vole, Prove, Aborted, At, None
<1>26. CASE ClientSendSeed
  BY <1>26, SendNone, SendOne
  DEF ClientSendSeed, ClientLocal, ToServer, Script, Setup, Commit, Vole, Prove, Aborted, At, None
<1>27. CASE ClientVerify
  BY <1>27, TakeOne, TakeTwo
  DEF ClientVerify, ClientLocal, FromServer, Script, Setup, Commit, Vole, Prove, Aborted, At, None
<1>28. CASE Report
  BY <1>28 DEF Report, Script, Setup, Commit, Vole, Prove, Aborted, At, None, One, Two
<1>29. CASE UNCHANGED vars
  BY <1>29 DEF vars, Script, Setup, Commit, Vole, Prove, Aborted, At, None, One, Two
<1> QED
  BY <1>1, <1>2, <1>3, <1>4, <1>5, <1>6, <1>7, <1>8, <1>9, <1>10, <1>11, <1>12, <1>13, <1>14, <1>15, <1>16, <1>17, <1>18, <1>19, <1>20, <1>21, <1>22, <1>23, <1>24, <1>25, <1>26, <1>27, <1>28, <1>29 DEF Next, ClientStep, ServerStep

\* The script is an invariant: the two coroutines stay in step.
THEOREM ScriptInvariant == Spec => []Script
<1>1. Init => Script
  BY DEF Init, Script, Setup, At, None
<1>2. Script /\ [Next]_vars => Script'
  BY ScriptStep
<1> QED
  BY <1>1, <1>2, PTL DEF Spec

\* Bytes never wait in both directions at once.
THEOREM HalfDuplexHolds == Spec => []HalfDuplex
<1>1. Script => HalfDuplex
  BY DEF Script, Setup, Commit, Vole, Prove, Aborted, HalfDuplex, None
<1> QED
  BY <1>1, ScriptInvariant, PTL

\* No receive of either coroutine is filled from the bytes of another message.
THEOREM FramesAlwaysMatch == Spec => []FramesMatch
<1>1. Script => FramesMatch
  BY TakeOne, TakeTwo
  DEF Script, Setup, Commit, Vole, Prove, Aborted, At, None, FramesMatch,
      ClientExpects, ServerExpects
<1> QED
  BY <1>1, ScriptInvariant, PTL

----------------------------------------------------------------------------
\* The state after a failed VOLE+ check: eval waits for e, the server for lambda.
VpFailed == cpc = "recvE" /\ spc = "lambda"

\* No step ever leaves that state: VolePlus::receive returned without telling
\* anyone, and neither receive can be served.
THEOREM VpFailureIsFinal == Spec => [][~ VpFailed]_vars
<1>1. Script /\ [Next]_vars => [~ VpFailed]_vars
  <2> SUFFICES ASSUME Script, Next, VpFailed
               PROVE  FALSE
    BY DEF vars
  <2>1. None(c2s) /\ None(s2c)
    BY DEF VpFailed, Script, Setup, Commit, Vole, Prove, Aborted, At
  <2>2. ~ ServerStep
    BY <2>1 DEF VpFailed, None, ServerStep, FromClient,
      ServerBaseOt, ServerCtxt, ServerOtExt, ServerReject, ServerCommit, ServerCommitReply,
      ServerVpDerand, ServerVpCheck, ServerVpReply, ServerSendE, ServerSendM, ServerProve,
      ServerReturn
  <2>3. ~ ClientStep
    BY <2>1 DEF VpFailed, None, ClientStep, FromServer,
      ClientBaseOt, ClientOtExt, ClientExpand, ClientCommitDerand, ClientCommitCheck,
      ClientVpDerand, ClientVpCheck, ClientVpCheckFails, ClientVpFinish, ClientRecvE,
      ClientChallenge, ClientRecvM, ClientSendSeed, ClientVerify
  <2> QED
    BY <2>2, <2>3 DEF VpFailed, Next, Report
<1> QED
  BY <1>1, ScriptInvariant, PTL DEF Spec

\* The server after an abort of the client before verify.
Deserted == cpc = "aborted" /\ spc \in {"vpDerand", "gamma", "recvC", "zkProve"}

\* A deserted server stays deserted and main never reports: the join waits for
\* a coroutine whose receive nobody serves.
THEOREM DesertedForEver == Spec => [][Deserted => Deserted' /\ UNCHANGED report]_vars
<1>1. Script /\ [Next]_vars => [Deserted => Deserted' /\ UNCHANGED report]_vars
  <2> SUFFICES ASSUME Script, Next, Deserted
               PROVE  Deserted' /\ UNCHANGED report
    BY DEF vars
  <2>1. None(c2s)
    BY DEF Deserted, Script, Setup, Commit, Vole, Prove, Aborted, At
  <2>2. CASE ServerStep
    BY <2>1, <2>2 DEF Deserted, None, ServerStep, ServerLocal, FromClient,
      ServerBaseOt, ServerCtxt, ServerOtExt, ServerReject, ServerCommit, ServerCommitReply,
      ServerVpDerand, ServerVpCheck, ServerVpReply, ServerSendE, ServerSendM, ServerProve,
      ServerReturn
  <2>3. ~ ClientStep
    BY DEF Deserted, ClientStep,
      ClientBaseOt, ClientOtExt, ClientExpand, ClientCommitDerand, ClientCommitCheck,
      ClientVpDerand, ClientVpCheck, ClientVpCheckFails, ClientVpFinish, ClientRecvE,
      ClientChallenge, ClientRecvM, ClientSendSeed, ClientVerify
  <2> QED
    BY <2>2, <2>3 DEF Deserted, Next, Report
<1> QED
  BY <1>1, ScriptInvariant, PTL DEF Spec

----------------------------------------------------------------------------
\* What the script says nothing about: the session's inputs, the report and
\* the witness.
Rest == /\ key \in Keys /\ h \in Inputs /\ offsets \in OffsetChoices
        /\ verbose \in BOOLEAN /\ fault \in Faults
        /\ report \in {"none", "successful", "failed"}
        /\ wit = NoWitness \/ DOMAIN wit.e = Indices

\* No step changes the session's inputs, and witness and report keep their form.
LEMMA RestStep ==
  ASSUME Rest, [Next]_vars
  PROVE  Rest'
<1>1. CASE ServerCommit
  <2>1. PICK v, b : wit' = Witness(v, b)
    BY <1>1 DEF ServerCommit
  <2>2. wit'.e = [i \in 0 .. (LenCom - 1) |-> Symbol(key + l(i))]
    BY <2>1 DEF Witness
  <2>3. DOMAIN wit'.e = Indices
    BY <2>2 DEF Indices
  <2> QED
    BY <1>1, <2>3 DEF Rest, ServerCommit, ServerLocal, Indices
<1>2. CASE ServerStep /\ ~ ServerCommit
  BY <1>2 DEF Rest, ServerStep, ServerLocal, Indices, NoWitness,
      ServerBaseOt, ServerCtxt, ServerOtExt, ServerReject, ServerCommitReply,
      ServerVpDerand, ServerVpCheck, ServerVpReply, ServerSendE, ServerSendM, ServerProve,
      ServerReturn
<1>3. CASE ClientStep
  BY <1>3 DEF Rest, ClientStep, ClientLocal, Indices, NoWitness,
      ClientBaseOt, ClientOtExt, ClientExpand, ClientCommitDerand, ClientCommitCheck,
      ClientVpDerand, ClientVpCheck, ClientVpCheckFails, ClientVpFinish, ClientRecvE,
      ClientChallenge, ClientRecvM, ClientSendSeed, ClientVerify
<1>4. CASE Report
  BY <1>4 DEF Rest, Report, Indices, NoWitness
<1>5. CASE UNCHANGED vars
  BY <1>5 DEF Rest, vars, Indices, NoWitness
<1> QED
  BY <1>1, <1>2, <1>3, <1>4, <1>5 DEF Next

\* A queue of at most two messages of the given kinds.
Short(q, kinds) == Len(q) <= 2 /\ \A i \in 1 .. Len(q) : q[i].kind \in kinds

\* The rows' queues are short and of their kinds.
LEMMA ShortQueues ==
  ASSUME NEW q, NEW kinds
  PROVE  /\ None(q) => Short(q, kinds)
         /\ \A a \in kinds : One(q, a) => Short(q, kinds)
         /\ \A a, b \in kinds : Two(q, a, b) => Short(q, kinds)
<1>1. None(q) => Short(q, kinds)
  BY DEF None, Short
<1>2. ASSUME NEW a \in kinds, One(q, a)
      PROVE  Short(q, kinds)
  <2> DEFINE m == Msg(a, q[1].body)
  <2>1. q = <<m>> /\ m.kind \in kinds
    BY <1>2 DEF One, Msg
  <2> HIDE DEF m
  <2> QED
    BY <2>1 DEF Short
<1>3. ASSUME NEW a \in kinds, NEW b \in kinds, Two(q, a, b)
      PROVE  Short(q, kinds)
  <2> DEFINE m == Msg(a, q[1].body)
             n == Msg(b, q[2].body)
  <2>1. q = <<m, n>> /\ m.kind \in kinds /\ n.kind \in kinds
    BY <1>3 DEF Two, Msg
  <2> HIDE DEF m, n
  <2>2. Len(q) = 2 /\ q[1] = m /\ q[2] = n
    BY <2>1
  <2> QED
    BY <2>1, <2>2 DEF Short
<1> QED
  BY <1>1, <1>2, <1>3

\* Type correctness of the session; at most two messages wait in a direction.
THEOREM TypeCorrect == Spec => []TypeOK
<1>1. Init => Rest
  BY DEF Init, Rest
<1>2. Rest /\ [Next]_vars => Rest'
  BY RestStep
<1>3. Script => Short(c2s, ClientKind) /\ Short(s2c, ServerKind)
  <2>1. /\ \A k \in {"ctxt", "extU", "seed", "gamma", "lambda", "c", "zkSeed"} : k \in ClientKind
        /\ \A k \in {"pk", "sums", "derand", "cuv", "vpDerand", "check", "uv", "e", "m", "coefs"} :
             k \in ServerKind
    BY DEF ClientKind, ServerKind
  <2> QED
    BY <2>1, ShortQueues DEF Script, Setup, Commit, Vole, Prove, Aborted
<1>4. Script => cpc \in ClientPc /\ spc \in ServerPc
  BY DEF Script, Setup, Commit, Vole, Prove, Aborted, At, ClientPc, ServerPc
<1>5. Script /\ Rest => TypeOK
  BY <1>3, <1>4 DEF Rest, Short, TypeOK
<1> QED
  BY <1>1, <1>2, <1>5, ScriptInvariant, PTL DEF Spec

----------------------------------------------------------------------------
(* The data.                                                               *)

Field == INSTANCE FieldLemmas WITH M <- P

\* The field, a residue and a product.
F == 0 .. (P - 1)
Red(x) == x % P
Times(x, y) == (x * y) % P

----------------------------------------------------------------------------
(* The field.                                                              *)

\* Residues are field elements, and field elements are their own residues.
LEMMA RedFacts ==
  /\ P \in Nat \ {0} /\ P > 1 /\ P \in Int /\ 0 \in F /\ 1 \in F /\ F \subseteq Int
  /\ \A x \in Int : Red(x) \in F
  /\ \A x \in F : Red(x) = x
<1>1. P \in Nat \ {0} /\ P > 1 /\ P \in Int
  BY PrimeAssumption
<1>2. /\ \A x \in Int : Red(x) \in F
      /\ \A x \in F : Red(x) = x
  BY <1>1, Field!ResRange, Field!ResSmall DEF Red, F, Field!Res
<1> QED
  BY <1>1, <1>2 DEF F

\* An operand of a product or a sum may be reduced.
LEMMA RedReduce ==
  ASSUME NEW x \in Int, NEW y \in Int
  PROVE  /\ Red(Red(x) * y) = Red(x * y) /\ Red(x * Red(y)) = Red(x * y)
         /\ Red(Red(x) + y) = Red(x + y) /\ Red(x + Red(y)) = Red(x + y)
BY RedFacts, Field!ResReduce DEF Red, Field!Res

\* A product is a residue and does not change when an operand is reduced or both are swapped.
LEMMA TimesRed ==
  ASSUME NEW x \in Int, NEW y \in Int
  PROVE  /\ Times(x, y) \in F /\ Times(x, y) \in Int
         /\ Times(x, y) = Red(x * y)
         /\ Times(x, y) = Times(y, x)
         /\ Times(Red(x), y) = Times(x, y)
         /\ Times(x, Red(y)) = Times(x, y)
<1>1. x * y \in Int /\ y * x = x * y
  BY SMT
<1>2. Times(x, y) = Red(x * y) /\ Times(y, x) = Red(y * x)
  BY DEF Times, Red
<1>3. Times(Red(x), y) = Red(Red(x) * y) /\ Times(x, Red(y)) = Red(x * Red(y))
  BY DEF Times, Red
<1>4. Red(x * y) \in F /\ Red(x * y) \in Int
  <2> DEFINE z == x * y
  <2>1. z \in Int
    BY <1>1
  <2> HIDE DEF z
  <2> QED
    BY <2>1, RedFacts DEF z
<1> QED
  BY <1>1, <1>2, <1>3, <1>4, RedReduce

\* Products in the field are associative.
LEMMA TimesAssoc ==
  ASSUME NEW x \in Int, NEW y \in Int, NEW z \in Int
  PROVE  Times(Times(x, y), z) = Times(x, Times(y, z))
<1> DEFINE p == x * y
           q == y * z
<1>1. p \in Int /\ q \in Int /\ p * z = x * q
  BY SMT
<1>2. Times(x, y) = Red(p) /\ Times(y, z) = Red(q)
  BY TimesRed
<1> HIDE DEF p, q
<1>3. Times(Red(p), z) = Times(p, z) /\ Times(x, Red(q)) = Times(x, q)
  BY <1>1, TimesRed
<1>4. Times(p, z) = Times(x, q)
  BY <1>1 DEF Times
<1> QED
  BY <1>2, <1>3, <1>4

\* The field has a one and a zero.
LEMMA TimesUnits ==
  ASSUME NEW x \in F
  PROVE  /\ Times(x, 1) = x /\ Times(1, x) = x /\ Times(x, 0) = 0 /\ Times(0, x) = 0
<1>1. x \in Int /\ x * 1 = x /\ 1 * x = x /\ x * 0 = 0 /\ 0 * x = 0
  BY RedFacts
<1> QED
  BY <1>1, RedFacts DEF Times, Red

\* There are no zero divisors.
LEMMA TimesZero ==
  ASSUME NEW x \in F, NEW y \in F, Times(x, y) = 0
  PROVE  x = 0 \/ y = 0
<1>1. x \in Int /\ y \in Int
  BY RedFacts
<1>2. Red(x) = 0 \/ Red(y) = 0
  BY <1>1, PrimeAssumption, Field!Euclid DEF Times, Red, Field!Res, Field!IsPrime
<1> QED
  BY <1>2, RedFacts

----------------------------------------------------------------------------
(* Powers.                                                                 *)

\* The loop of Pow has a value at every exponent.
LEMMA PowLoop ==
  ASSUME NEW x \in Int, NEW n \in Nat
  PROVE  \E pw \in [0 .. n -> F] :
           /\ pw[0] = 1
           /\ \A j \in 1 .. n : pw[j] = Times(Times(pw[j \div 2], pw[j \div 2]), IF j % 2 = 1 THEN x ELSE 1)
           /\ Pow(x, n) = pw[n]
<1> DEFINE Is(f) == f = [i \in 0 .. n |-> IF i = 0 THEN 1
                          ELSE (Squared[f[i \div 2]] * (IF i % 2 = 1 THEN x ELSE 1)) % P]
           pw == CHOOSE f : Is(f)
           half == [j \in 1 .. n |-> j \div 2]
           squaring == [jv \in (1 .. n) \X F |-> (Squared[jv[2]] * (IF jv[1] % 2 = 1 THEN x ELSE 1)) % P]
<1>1. \A v \in F : Squared[v] = Times(v, v) /\ Squared[v] \in Int
  <2>1. \A v \in F : v \in Int
    BY RedFacts
  <2>2. \A v \in F : Times(v, v) \in Int
    BY <2>1, TimesRed
  <2>3. \A v \in F : Squared[v] = Times(v, v)
    BY DEF Squared, Times, F
  <2> QED
    BY <2>2, <2>3
<1>2. Field!LooksBack(half, n)
  <2>1. \A j \in 1 .. n : j \div 2 \in 0 .. (j - 1)
    BY SMT
  <2> QED
    BY <2>1 DEF Field!LooksBack
<1>3. Field!Closed(squaring, n, F)
  <2>1. ASSUME NEW j \in 1 .. n, NEW v \in F
        PROVE  (Squared[v] * (IF j % 2 = 1 THEN x ELSE 1)) % P \in F
    <3>1. ASSUME NEW s, NEW c, s = Squared[v], c = IF j % 2 = 1 THEN x ELSE 1
          PROVE  (s * c) % P \in F
      <4>1. s \in Int /\ c \in Int
        BY <1>1, <3>1
      <4> QED
        BY <4>1, TimesRed DEF Times
    <3> QED
      BY <3>1
  <2>2. \A j \in 1 .. n : \A v \in F : squaring[<<j, v>>] \in F
    BY <2>1
  <2> HIDE DEF squaring
  <2> QED
    BY <2>2, Zenon DEF Field!Closed
<1>4. 1 \in F
  BY RedFacts
<1>5. PICK f \in [0 .. n -> F] : Field!Loop(f, n, 1, half, squaring)
  <2> HIDE DEF half, squaring
  <2> QED
    BY <1>2, <1>3, <1>4, Field!LoopExists
<1>6. f[0] = 1
  BY <1>5 DEF Field!Loop
<1>7. ASSUME NEW j \in 1 .. n
      PROVE  f[j] = (Squared[f[j \div 2]] * (IF j % 2 = 1 THEN x ELSE 1)) % P
  <2> DEFINE k == j \div 2
  <2>1. k \in 0 .. n /\ half[j] = k
    BY SMT
  <2>2. f[k] \in F
    BY <2>1
  <2>3. f[j] = squaring[<<j, f[k]>>]
    <3> HIDE DEF half, squaring, k
    <3> QED
      BY <1>5, <2>1 DEF Field!Loop
  <2> HIDE DEF k
  <2>4. squaring[<<j, f[k]>>] = (Squared[f[k]] * (IF j % 2 = 1 THEN x ELSE 1)) % P
    BY <2>2
  <2> QED
    BY <2>3, <2>4 DEF k
<1> HIDE DEF half, squaring
<1>8. Is(f)
  BY <1>5, <1>6, <1>7
<1>9. Is(pw) /\ Pow(x, n) = pw[n]
  <2>1. Is(pw)
    <3> HIDE DEF Is
    <3> QED
      BY <1>8
  <2>2. Pow(x, n) = pw[n]
    BY Zenon DEF Pow
  <2> HIDE DEF Is, pw
  <2> QED
    BY <2>1, <2>2
<1> HIDE DEF pw
<1>10. pw[0] = 1 /\ \A j \in 1 .. n : pw[j] = (Squared[pw[j \div 2]] * (IF j % 2 = 1 THEN x ELSE 1)) % P
  BY <1>9
<1>11. 0 .. n \subseteq {j \in 0 .. n : pw[j] = f[j]}
  <2> DEFINE T == {j \in 0 .. n : pw[j] = f[j]}
  <2>1. ASSUME NEW j \in 0 .. n, \A i \in 0 .. (j - 1) : i \in T
        PROVE  j \in T
    <3>1. CASE j = 0
      BY <3>1, <1>6, <1>10
    <3>2. CASE j # 0
      <4>1. j \in 1 .. n /\ j \div 2 \in 0 .. (j - 1)
        BY <3>2, SMT
      <4>2. pw[j \div 2] = f[j \div 2]
        BY <2>1, <4>1
      <4>3. pw[j] = f[j]
        BY <1>7, <1>10, <4>1, <4>2
      <4> QED
        BY <4>3
    <3> QED
      BY <3>1, <3>2
  <2> HIDE DEF T
  <2>2. 0 .. n \subseteq T
    BY <2>1, Field!StrongInduction
  <2> QED
    BY <2>2 DEF T
<1>12. f[n] = Pow(x, n)
  BY <1>9, <1>11
<1>13. ASSUME NEW j \in 1 .. n
       PROVE  f[j] = Times(Times(f[j \div 2], f[j \div 2]), IF j % 2 = 1 THEN x ELSE 1)
  <2>1. j \div 2 \in 0 .. n
    BY SMT
  <2>2. f[j \div 2] \in F
    BY <2>1
  <2>3. Squared[f[j \div 2]] = Times(f[j \div 2], f[j \div 2])
    BY <1>1, <2>2
  <2> QED
    BY <1>7, <2>3 DEF Times
<1> QED
  BY <1>6, <1>12, <1>13


\* What a loop of Pow does.
PowRuns(x, pw, n) ==
  /\ pw \in [0 .. n -> F]
  /\ pw[0] = 1
  /\ \A j \in 1 .. n : pw[j] = Times(Times(pw[j \div 2], pw[j \div 2]), IF j % 2 = 1 THEN x ELSE 1)

\* Two of them agree as far as the shorter one goes.
LEMMA PowAgree ==
  ASSUME NEW x, NEW n \in Nat, NEW k \in 0 .. n, NEW f, PowRuns(x, f, n), NEW g, PowRuns(x, g, k)
  PROVE  f[k] = g[k]
<1> DEFINE T == {j \in 0 .. k : f[j] = g[j]}
<1>1. ASSUME NEW j \in 0 .. k, \A i \in 0 .. (j - 1) : i \in T
      PROVE  j \in T
  <2>1. CASE j = 0
    BY <2>1 DEF PowRuns
  <2>2. CASE j # 0
    <3>1. j \in 1 .. k /\ j \in 1 .. n /\ j \div 2 \in 0 .. (j - 1)
      BY <2>2, SMT
    <3>2. f[j \div 2] = g[j \div 2]
      BY <1>1, <3>1
    <3>3. f[j] = Times(Times(f[j \div 2], f[j \div 2]), IF j % 2 = 1 THEN x ELSE 1)
      BY <3>1 DEF PowRuns
    <3>4. g[j] = Times(Times(g[j \div 2], g[j \div 2]), IF j % 2 = 1 THEN x ELSE 1)
      BY <3>1 DEF PowRuns
    <3> QED
      BY <3>2, <3>3, <3>4
  <2> QED
    BY <2>1, <2>2
<1> HIDE DEF T
<1>2. 0 .. k \subseteq T
  BY <1>1, Field!StrongInduction, SMTT(30)
<1> QED
  BY <1>2 DEF T

\* Square and multiply: the exponent's half, squared, and a factor when it is odd.
LEMMA PowStep ==
  ASSUME NEW x \in Int
  PROVE  /\ Pow(x, 0) = 1
         /\ \A n \in Nat : Pow(x, n) \in F
         /\ \A n \in Nat \ {0} :
              Pow(x, n) = Times(Times(Pow(x, n \div 2), Pow(x, n \div 2)), IF n % 2 = 1 THEN x ELSE 1)
<1>1. ASSUME NEW n \in Nat
      PROVE  \E pw : PowRuns(x, pw, n) /\ Pow(x, n) = pw[n]
  BY PowLoop DEF PowRuns
<1>2. Pow(x, 0) = 1
  <2>1. PICK pw : PowRuns(x, pw, 0) /\ Pow(x, 0) = pw[0]
    BY <1>1
  <2> QED
    BY <2>1 DEF PowRuns
<1>3. ASSUME NEW n \in Nat
      PROVE  Pow(x, n) \in F
  <2>1. PICK pw : PowRuns(x, pw, n) /\ Pow(x, n) = pw[n]
    BY <1>1
  <2> QED
    BY <2>1 DEF PowRuns
<1>4. ASSUME NEW n \in Nat \ {0}
      PROVE  Pow(x, n) = Times(Times(Pow(x, n \div 2), Pow(x, n \div 2)), IF n % 2 = 1 THEN x ELSE 1)
  <2> DEFINE k == n \div 2
  <2>1. k \in Nat /\ k \in 0 .. n /\ n \in 1 .. n /\ n \in Nat
    BY SMT
  <2>2. PICK f : PowRuns(x, f, n) /\ Pow(x, n) = f[n]
    BY <1>1, <2>1
  <2>3. f[n] = Times(Times(f[k], f[k]), IF n % 2 = 1 THEN x ELSE 1)
    BY <2>1, <2>2 DEF PowRuns
  <2> HIDE DEF k
  <2>4. PICK g : PowRuns(x, g, k) /\ Pow(x, k) = g[k]
    BY <1>1, <2>1
  <2>5. f[k] = g[k]
    BY <2>1, <2>2, <2>4, PowAgree
  <2> QED
    BY <2>2, <2>3, <2>4, <2>5 DEF k
<1> QED
  BY <1>2, <1>3, <1>4

\* Factors of a product can be regrouped.
LEMMA TimesSwap ==
  ASSUME NEW a \in F, NEW b \in F, NEW c \in F, NEW d \in F
  PROVE  Times(Times(a, b), Times(c, d)) = Times(Times(a, c), Times(b, d))
<1>1. \A x, y \in F : Times(x, y) \in F /\ Times(x, y) = Times(y, x)
  BY RedFacts, TimesRed
<1>2. \A x, y, z \in F : Times(Times(x, y), z) = Times(x, Times(y, z))
  BY RedFacts, TimesAssoc
<1> QED
  BY <1>1, <1>2

\* The next power is one factor more.
LEMMA PowSucc ==
  ASSUME NEW x \in F, NEW n \in Nat
  PROVE  Pow(x, n + 1) = Times(Pow(x, n), x)
<1> DEFINE T == {j \in 0 .. n : Pow(x, j + 1) = Times(Pow(x, j), x)}
<1>1. ASSUME NEW j \in 0 .. n, \A i \in 0 .. (j - 1) : i \in T
      PROVE  Pow(x, j + 1) = Times(Pow(x, j), x)
  <2> DEFINE m == j \div 2
  <2>0. x \in Int /\ 1 \in F /\ m \in Nat /\ j \in Nat /\ j + 1 \in Nat \ {0} /\ m + 1 \in Nat
    BY RedFacts, SMT
  <2>1. \A k \in Nat : Pow(x, k) \in F
    BY <2>0, PowStep
  <2>2. CASE j % 2 = 0
    <3>1. (j + 1) % 2 = 1 /\ (j + 1) \div 2 = m
      BY <2>2, SMT
    <3>2. Pow(x, j + 1) = Times(Times(Pow(x, m), Pow(x, m)), x)
      <4> HIDE DEF m
      <4> QED
        BY <2>0, <3>1, PowStep
    <3>3. Pow(x, j) = Times(Pow(x, m), Pow(x, m))
      <4>1. CASE j = 0
        <5>1. m = 0
          BY <4>1
        <5>2. Pow(x, 0) = 1 /\ Times(1, 1) = 1
          BY <2>0, PowStep, TimesUnits
        <5> QED
          BY <4>1, <5>1, <5>2
      <4>2. CASE j # 0
        <5>1. Pow(x, j) = Times(Times(Pow(x, m), Pow(x, m)), 1)
          BY <2>0, <2>2, <4>2, PowStep
        <5>2. Times(Pow(x, m), Pow(x, m)) \in F
          <6> HIDE DEF m
          <6> QED
            BY <2>0, <2>1, RedFacts, TimesRed
        <5> QED
          BY <5>1, <5>2, TimesUnits
      <4> QED
        BY <4>1, <4>2
    <3> QED
      BY <3>2, <3>3
  <2>3. CASE j % 2 # 0
    <3>1. j % 2 = 1 /\ (j + 1) % 2 = 0 /\ (j + 1) \div 2 = m + 1 /\ m \in 0 .. (j - 1) /\ j # 0
      BY <2>3, SMT
    <3> DEFINE p == Pow(x, m)
    <3>2. p \in F
      <4> HIDE DEF m
      <4> QED
        BY <2>0, <2>1
    <3>3. Pow(x, m + 1) = Times(p, x)
      BY <1>1, <3>1
    <3>4. Pow(x, j) = Times(Times(p, p), x)
      BY <2>0, <3>1, PowStep
    <3>5. Pow(x, j + 1) = Times(Times(Times(p, x), Times(p, x)), 1)
      <4>1. Pow(x, j + 1) = Times(Times(Pow(x, m + 1), Pow(x, m + 1)), 1)
        <5> DEFINE e == j + 1
        <5>1. e \in Nat \ {0} /\ e % 2 = 0 /\ e \div 2 = m + 1
          BY <2>0, <3>1
        <5> HIDE DEF e, m, p
        <5>2. Pow(x, e) = Times(Times(Pow(x, e \div 2), Pow(x, e \div 2)), IF e % 2 = 1 THEN x ELSE 1)
          BY <2>0, <5>1, PowStep
        <5> QED
          BY <5>1, <5>2 DEF e
      <4> QED
        BY <4>1, <3>3
    <3> HIDE DEF p, m
    <3>6. \A y, z \in F : Times(y, z) \in F /\ Times(y, z) = Times(z, y)
      BY RedFacts, TimesRed
    <3>7. \A y, z, w \in F : Times(Times(y, z), w) = Times(y, Times(z, w))
      BY RedFacts, TimesAssoc
    <3>8. Times(Times(Times(p, x), Times(p, x)), 1) = Times(Times(p, x), Times(p, x))
      BY <3>2, <3>6, TimesUnits
    <3>9. Times(Times(p, x), Times(p, x)) = Times(Times(p, p), Times(x, x))
      BY <3>2, TimesSwap
    <3>10. Times(Times(Times(p, p), x), x) = Times(Times(p, p), Times(x, x))
      BY <3>2, <3>6, <3>7
    <3> QED
      BY <3>4, <3>5, <3>8, <3>9, <3>10
  <2> QED
    BY <2>2, <2>3
<1>2. \A j \in 0 .. n : (\A i \in 0 .. (j - 1) : i \in T) => j \in T
  BY <1>1
<1> HIDE DEF T
<1>3. 0 .. n \subseteq T
  BY <1>2, Field!StrongInduction
<1> QED
  BY <1>3 DEF T

\* Powers of a power, of a product, of one and of zero.
LEMMA PowSum ==
  ASSUME NEW x \in F, NEW a \in Nat, NEW b \in Nat
  PROVE  Pow(x, a + b) = Times(Pow(x, a), Pow(x, b))
<1> DEFINE T == {j \in 0 .. b : Pow(x, a + j) = Times(Pow(x, a), Pow(x, j))}
<1>0. x \in Int /\ \A k \in Nat : Pow(x, k) \in F /\ Pow(x, k) \in Int
  BY RedFacts, PowStep
<1>1. 0 \in T
  <2>1. Pow(x, 0) = 1 /\ a + 0 = a /\ Times(Pow(x, a), 1) = Pow(x, a)
    BY <1>0, PowStep, TimesUnits
  <2> QED
    BY <2>1
<1>2. ASSUME NEW j \in 1 .. b, j - 1 \in T
      PROVE  j \in T
  <2> DEFINE i == j - 1
             k == a + i
  <2>1. i \in Nat /\ k \in Nat /\ j = i + 1 /\ a + j = k + 1 /\ Pow(x, a + i) = Times(Pow(x, a), Pow(x, i))
    BY <1>2
  <2>2. Pow(x, k) = Times(Pow(x, a), Pow(x, i))
    BY <2>1
  <2> HIDE DEF i, k
  <2>3. Pow(x, i + 1) = Times(Pow(x, i), x) /\ Pow(x, k + 1) = Times(Pow(x, k), x)
    BY <2>1, PowSucc
  <2>4. Times(Times(Pow(x, a), Pow(x, i)), x) = Times(Pow(x, a), Times(Pow(x, i), x))
    BY <1>0, <2>1, TimesAssoc
  <2>5. Pow(x, a + j) = Times(Pow(x, a), Pow(x, j))
    BY <2>1, <2>2, <2>3, <2>4
  <2> QED
    BY <2>5
<1> HIDE DEF T
<1>3. 0 .. b \subseteq T
  BY <1>1, <1>2, Field!LoopInduction
<1> QED
  BY <1>3 DEF T

\* A power of a power is the power of the product of the exponents.
LEMMA PowProduct ==
  ASSUME NEW x \in F, NEW a \in Nat, NEW b \in Nat
  PROVE  Pow(x, a * b) = Pow(Pow(x, a), b)
<1> DEFINE y == Pow(x, a)
           T == {j \in 0 .. b : Pow(x, a * j) = Pow(y, j)}
<1>0. x \in Int /\ (\A k \in Nat : Pow(x, k) \in F) /\ y \in F /\ y \in Int
  BY RedFacts, PowStep
<1>1. 0 \in T
  <2>1. Pow(x, 0) = 1 /\ a * 0 = 0
    BY <1>0, PowStep
  <2>2. Pow(y, 0) = 1
    <3> HIDE DEF y
    <3> QED
      BY <1>0, PowStep
  <2> HIDE DEF y
  <2> QED
    BY <2>1, <2>2
<1>2. ASSUME NEW j \in 1 .. b, j - 1 \in T
      PROVE  j \in T
  <2> DEFINE i == j - 1
             k == a * i
  <2>1. i \in Nat /\ j = i + 1
    OBVIOUS
  <2>2. k \in Nat /\ a * j = k + a
    <3>1. a * (i + 1) = a * i + a /\ a * i \in Nat
      <4> HIDE DEF i
      <4> QED
        BY <2>1, SMT
    <3> QED
      BY <2>1, <3>1
  <2>3. Pow(x, k) = Pow(y, i)
    BY <1>2
  <2> HIDE DEF i, k
  <2>4. Pow(x, k + a) = Times(Pow(x, k), y)
    BY <2>2, PowSum
  <2> HIDE DEF y
  <2>5. Pow(y, i + 1) = Times(Pow(y, i), y)
    BY <1>0, <2>1, PowSucc
  <2>6. Pow(x, a * j) = Pow(y, j)
    BY <2>1, <2>2, <2>3, <2>4, <2>5
  <2> QED
    BY <2>6
<1> HIDE DEF T
<1>3. 0 .. b \subseteq T
  BY <1>1, <1>2, Field!LoopInduction
<1> QED
  BY <1>3 DEF T

\* A power of a product is the product of the powers.
LEMMA PowTimes ==
  ASSUME NEW x \in F, NEW y \in F, NEW n \in Nat
  PROVE  Pow(Times(x, y), n) = Times(Pow(x, n), Pow(y, n))
<1> DEFINE z == Times(x, y)
           T == {j \in 0 .. n : Pow(z, j) = Times(Pow(x, j), Pow(y, j))}
<1>0. x \in Int /\ y \in Int /\ z \in F /\ z \in Int
  BY RedFacts, TimesRed
<1>4. z = Times(x, y)
  OBVIOUS
<1> HIDE DEF z
<1>5. \A k \in Nat : Pow(x, k) \in F /\ Pow(y, k) \in F /\ Pow(z, k) \in F
  BY <1>0, PowStep
<1>1. 0 \in T
  <2>1. Pow(x, 0) = 1 /\ Pow(y, 0) = 1 /\ Pow(z, 0) = 1 /\ Times(1, 1) = 1
    BY <1>0, PowStep, TimesUnits, RedFacts
  <2> QED
    BY <2>1
<1>2. ASSUME NEW j \in 1 .. n, j - 1 \in T
      PROVE  j \in T
  <2> DEFINE i == j - 1
  <2>1. i \in Nat /\ j = i + 1 /\ Pow(z, i) = Times(Pow(x, i), Pow(y, i))
    BY <1>2
  <2> HIDE DEF i
  <2>2. /\ Pow(x, i + 1) = Times(Pow(x, i), x) /\ Pow(y, i + 1) = Times(Pow(y, i), y)
        /\ Pow(z, i + 1) = Times(Pow(z, i), z)
    BY <1>0, <2>1, PowSucc
  <2>3. Times(Times(Pow(x, i), Pow(y, i)), Times(x, y)) = Times(Times(Pow(x, i), x), Times(Pow(y, i), y))
    BY <1>5, <2>1, TimesSwap
  <2>4. Pow(z, j) = Times(Pow(x, j), Pow(y, j))
    BY <1>4, <2>1, <2>2, <2>3
  <2> QED
    BY <2>4
<1> HIDE DEF T
<1>3. 0 .. n \subseteq T
  BY <1>1, <1>2, Field!LoopInduction
<1> QED
  BY <1>3, <1>4 DEF T

\* Every power of one is one.
LEMMA PowOne ==
  ASSUME NEW n \in Nat
  PROVE  Pow(1, n) = 1
<1> DEFINE T == {j \in 0 .. n : Pow(1, j) = 1}
<1>0. 1 \in Int /\ 1 \in F /\ Times(1, 1) = 1
  BY RedFacts, TimesUnits
<1>1. 0 \in T
  BY <1>0, PowStep
<1>2. ASSUME NEW j \in 1 .. n, j - 1 \in T
      PROVE  j \in T
  <2> DEFINE i == j - 1
  <2>1. i \in Nat /\ j = i + 1 /\ Pow(1, i) = 1
    BY <1>2
  <2> HIDE DEF i
  <2>2. Pow(1, i + 1) = Times(Pow(1, i), 1)
    BY <1>0, <2>1, PowSucc
  <2> QED
    BY <1>0, <2>1, <2>2
<1> HIDE DEF T
<1>3. 0 .. n \subseteq T
  BY <1>1, <1>2, Field!LoopInduction
<1> QED
  BY <1>3 DEF T

\* A power of a nonzero value is not zero, a positive power of zero is.
LEMMA PowNonzero ==
  ASSUME NEW x \in F, NEW n \in Nat
  PROVE  /\ x # 0 => Pow(x, n) # 0
         /\ x = 0 /\ n > 0 => Pow(x, n) = 0
<1>0. x \in Int /\ 0 \in F /\ 1 \in F
  BY RedFacts
<1>1. ASSUME x # 0
      PROVE  Pow(x, n) # 0
  <2> DEFINE T == {j \in 0 .. n : Pow(x, j) # 0}
  <2>1. 0 \in T
    BY <1>0, PowStep
  <2>2. ASSUME NEW j \in 1 .. n, j - 1 \in T
        PROVE  j \in T
    <3> DEFINE i == j - 1
    <3>1. i \in Nat /\ j = i + 1 /\ Pow(x, i) # 0
      BY <2>2
    <3> HIDE DEF i
    <3>2. Pow(x, i + 1) = Times(Pow(x, i), x) /\ Pow(x, i) \in F
      BY <1>0, <3>1, PowSucc, PowStep
    <3>3. Pow(x, j) # 0
      BY <1>1, <3>1, <3>2, TimesZero
    <3> QED
      BY <3>3
  <2> HIDE DEF T
  <2>3. 0 .. n \subseteq T
    BY <2>1, <2>2, Field!LoopInduction
  <2> QED
    BY <2>3 DEF T
<1>2. ASSUME x = 0, n > 0
      PROVE  Pow(x, n) = 0
  <2> DEFINE i == n - 1
  <2>1. i \in Nat /\ n = i + 1
    BY <1>2
  <2> HIDE DEF i
  <2>2. Pow(x, i + 1) = Times(Pow(x, i), x) /\ Pow(x, i) \in F
    BY <1>0, <2>1, PowSucc, PowStep
  <2>3. Times(Pow(x, i), 0) = 0
    BY <2>2, TimesUnits
  <2> QED
    BY <1>2, <2>1, <2>2, <2>3
<1> QED
  BY <1>1, <1>2

----------------------------------------------------------------------------
(* Products.                                                               *)

\* The first n values are field elements.
Row(f, n) == \A i \in 0 .. (n - 1) : f[i] \in F

\* What the loop of Prod does.
ProdRuns(f, pr, n) ==
  /\ pr \in [0 .. n -> F]
  /\ pr[0] = 1
  /\ \A j \in 1 .. n : pr[j] = Times(pr[j - 1], f[j - 1])

\* The loop of Prod runs as its recursive definition says.
LEMMA ProdLoop ==
  ASSUME NEW n \in Nat, NEW f, Row(f, n)
  PROVE  \E pr : ProdRuns(f, pr, n) /\ Prod(f, n) = pr[n]
<1> DEFINE Is(g) == g = [i \in 0 .. n |-> IF i = 0 THEN 1 ELSE (g[i - 1] * f[i - 1]) % P]
           pr == CHOOSE g : Is(g)
           before == [j \in 1 .. n |-> j - 1]
           times == [jv \in (1 .. n) \X F |-> (jv[2] * f[jv[1] - 1]) % P]
<1>1. Field!LooksBack(before, n)
  <2>1. \A j \in 1 .. n : j - 1 \in 0 .. (j - 1)
    BY SMT
  <2> QED
    BY <2>1 DEF Field!LooksBack
<1>2. Field!Closed(times, n, F)
  <2>1. ASSUME NEW j \in 1 .. n, NEW v \in F
        PROVE  (v * f[j - 1]) % P \in F
    <3>0. j - 1 \in 0 .. (n - 1)
      OBVIOUS
    <3>1. v \in Int /\ f[j - 1] \in Int
      BY <3>0, RedFacts DEF Row
    <3> DEFINE w == f[j - 1]
    <3>2. w \in Int
      BY <3>1
    <3> HIDE DEF w
    <3>3. Times(v, w) \in F
      BY <3>1, <3>2, TimesRed
    <3> QED
      BY <3>3 DEF Times, w
  <2>2. \A j \in 1 .. n : \A v \in F : times[<<j, v>>] \in F
    BY <2>1
  <2> HIDE DEF times
  <2> QED
    BY <2>2, Zenon DEF Field!Closed
<1>3. 1 \in F
  BY RedFacts
<1>4. PICK g \in [0 .. n -> F] : Field!Loop(g, n, 1, before, times)
  <2> HIDE DEF before, times
  <2> QED
    BY <1>1, <1>2, <1>3, Field!LoopExists
<1>5. g[0] = 1
  BY <1>4 DEF Field!Loop
<1>6. ASSUME NEW j \in 1 .. n
      PROVE  g[j] = (g[j - 1] * f[j - 1]) % P
  <2> DEFINE k == j - 1
  <2>1. k \in 0 .. n /\ before[j] = k
    BY SMT
  <2>2. g[k] \in F
    BY <2>1
  <2>3. g[j] = times[<<j, g[k]>>]
    <3> HIDE DEF before, times, k
    <3> QED
      BY <1>4, <2>1 DEF Field!Loop
  <2>4. times[<<j, g[k]>>] = (g[k] * f[j - 1]) % P
    BY <2>2
  <2> QED
    BY <2>3, <2>4
<1> HIDE DEF before, times
<1>7. Is(g)
  BY <1>4, <1>5, <1>6
<1>8. Is(pr) /\ Prod(f, n) = pr[n]
  <2>1. Is(pr)
    <3> HIDE DEF Is
    <3> QED
      BY <1>7
  <2>2. Prod(f, n) = pr[n]
    BY Zenon DEF Prod
  <2> HIDE DEF Is, pr
  <2> QED
    BY <2>1, <2>2
<1> HIDE DEF pr
<1>9. pr[0] = 1 /\ \A j \in 1 .. n : pr[j] = (pr[j - 1] * f[j - 1]) % P
  BY <1>8
<1>10. 0 .. n \subseteq {j \in 0 .. n : pr[j] = g[j]}
  <2> DEFINE T == {j \in 0 .. n : pr[j] = g[j]}
  <2>1. 0 \in T
    BY <1>5, <1>9
  <2>2. ASSUME NEW j \in 1 .. n, j - 1 \in T
        PROVE  j \in T
    BY <2>2, <1>6, <1>9
  <2> HIDE DEF T
  <2>3. 0 .. n \subseteq T
    BY <2>1, <2>2, Field!LoopInduction
  <2> QED
    BY <2>3 DEF T
<1>11. Prod(f, n) = g[n]
  BY <1>8, <1>10
<1>12. ProdRuns(f, g, n)
  <2> HIDE DEF Is
  <2> QED
    BY <1>4, <1>5, <1>6 DEF ProdRuns, Times
<1> QED
  BY <1>11, <1>12

\* Two of them agree as far as the shorter one goes.
LEMMA ProdAgree ==
  ASSUME NEW f, NEW n \in Nat, NEW k \in 0 .. n, NEW a, ProdRuns(f, a, n), NEW b, ProdRuns(f, b, k)
  PROVE  a[k] = b[k]
<1> DEFINE T == {j \in 0 .. k : a[j] = b[j]}
<1>1. 0 \in T
  BY DEF ProdRuns
<1>2. ASSUME NEW j \in 1 .. k, j - 1 \in T
      PROVE  j \in T
  <2>1. a[j] = Times(a[j - 1], f[j - 1]) /\ b[j] = Times(b[j - 1], f[j - 1])
    BY DEF ProdRuns
  <2> QED
    BY <1>2, <2>1
<1> HIDE DEF T
<1>3. 0 .. k \subseteq T
  BY <1>1, <1>2, Field!LoopInduction
<1> QED
  BY <1>3 DEF T

\* One more value is one more factor.
LEMMA ProdStep ==
  ASSUME NEW n \in Nat, NEW f, Row(f, n)
  PROVE  /\ Prod(f, n) \in F
         /\ n = 0 => Prod(f, n) = 1
         /\ n > 0 => Row(f, n - 1) /\ Prod(f, n) = Times(Prod(f, n - 1), f[n - 1])
<1>1. PICK a : ProdRuns(f, a, n) /\ Prod(f, n) = a[n]
  BY ProdLoop
<1>2. ASSUME n > 0
      PROVE  Row(f, n - 1) /\ Prod(f, n) = Times(Prod(f, n - 1), f[n - 1])
  <2> DEFINE k == n - 1
  <2>1. k \in Nat /\ k \in 0 .. n /\ n \in 1 .. n
    BY <1>2
  <2>2. Row(f, k)
    BY <2>1 DEF Row
  <2> HIDE DEF k
  <2>3. PICK b : ProdRuns(f, b, k) /\ Prod(f, k) = b[k]
    BY <2>1, <2>2, ProdLoop
  <2>4. a[k] = b[k]
    BY <1>1, <2>1, <2>3, ProdAgree
  <2>5. a[n] = Times(a[k], f[k])
    BY <1>1, <2>1 DEF ProdRuns, k
  <2> QED
    BY <1>1, <2>2, <2>3, <2>4, <2>5 DEF k
<1> QED
  BY <1>1, <1>2 DEF ProdRuns

\* A product with a zero in it is zero; a product of roots of unity is one.
LEMMA ProdFacts ==
  ASSUME NEW n \in Nat, NEW f, Row(f, n)
  PROVE  /\ (\A i \in 0 .. (n - 1) : f[i] # 0) => Prod(f, n) # 0
         /\ (\E i \in 0 .. (n - 1) : f[i] = 0) => Prod(f, n) = 0
         /\ (\A i \in 0 .. (n - 1) : Pow(f[i], D) = 1) => Pow(Prod(f, n), D) = 1
<1> DEFINE T == {j \in 0 .. n :
                   /\ (\A i \in 0 .. (j - 1) : f[i] # 0) => Prod(f, j) # 0
                   /\ (\E i \in 0 .. (j - 1) : f[i] = 0) => Prod(f, j) = 0
                   /\ (\A i \in 0 .. (j - 1) : Pow(f[i], D) = 1) => Pow(Prod(f, j), D) = 1}
<1>0. D \in Nat /\ 0 \in F /\ 1 \in F
  BY RedFacts, PrimeAssumption
<1>1. 0 \in T
  <2>1. Prod(f, 0) = 1
    BY ProdStep DEF Row
  <2>2. Pow(1, D) = 1
    BY <1>0, PowOne
  <2>3. 0 .. (0 - 1) = {}
    OBVIOUS
  <2> QED
    BY <2>1, <2>2, <2>3
<1>2. ASSUME NEW j \in 1 .. n, j - 1 \in T
      PROVE  j \in T
  <2> DEFINE k == j - 1
             p == Prod(f, k)
             q == f[k]
  <2>1. k \in Nat /\ k \in 0 .. (n - 1) /\ Row(f, j) /\ Row(f, k) /\ j \in Nat /\ j > 0
    BY DEF Row
  <2>2. Prod(f, j) = Times(p, q)
    BY <2>1, ProdStep
  <2>3. p \in F /\ q \in F
    <3>1. p \in F
      <4> HIDE DEF k
      <4> QED
        BY <2>1, ProdStep
    <3>2. q \in F
      <4> HIDE DEF k
      <4> QED
        BY <2>1 DEF Row
    <3> QED
      BY <3>1, <3>2
  <2>4. /\ (\A i \in 0 .. (k - 1) : f[i] # 0) => p # 0
        /\ (\E i \in 0 .. (k - 1) : f[i] = 0) => p = 0
        /\ (\A i \in 0 .. (k - 1) : Pow(f[i], D) = 1) => Pow(p, D) = 1
    BY <1>2
  <2>5. 0 .. (j - 1) = (0 .. (k - 1)) \cup {k}
    OBVIOUS
  <2> HIDE DEF k, p, q
  <2>6. Pow(Times(p, q), D) = Times(Pow(p, D), Pow(q, D))
    BY <1>0, <2>3, PowTimes
  <2>7. /\ p = 0 => Times(p, q) = 0
        /\ q = 0 => Times(p, q) = 0
        /\ Times(p, q) = 0 => p = 0 \/ q = 0
        /\ Times(1, 1) = 1
    BY <1>0, <2>3, TimesUnits, TimesZero
  <2>8. /\ (\A i \in 0 .. (j - 1) : f[i] # 0) => Prod(f, j) # 0
        /\ (\E i \in 0 .. (j - 1) : f[i] = 0) => Prod(f, j) = 0
    BY <2>2, <2>4, <2>5, <2>7 DEF q
  <2>9. (\A i \in 0 .. (j - 1) : Pow(f[i], D) = 1) => Pow(Prod(f, j), D) = 1
    <3> SUFFICES ASSUME \A i \in 0 .. (j - 1) : Pow(f[i], D) = 1
                 PROVE  Pow(Prod(f, j), D) = 1
      OBVIOUS
    <3>1. Pow(p, D) = 1 /\ Pow(q, D) = 1
      BY <2>4, <2>5 DEF q
    <3> QED
      BY <2>2, <2>6, <2>7, <3>1
  <2> QED
    BY <2>8, <2>9
<1> HIDE DEF T
<1>3. 0 .. n \subseteq T
  BY <1>1, <1>2, Field!LoopInduction
<1> QED
  BY <1>3 DEF T

\* The product of a row is the product of its halves.
LEMMA ProdSplit ==
  ASSUME NEW v, Row(v, LenEval)
  PROVE  /\ Row(v, HALF) /\ Row(Upper(v), HALF)
         /\ Prod(v, LenEval) = Times(Prod(v, HALF), Prod(Upper(v), HALF))
<1> DEFINE u == Upper(v)
           T == {j \in 0 .. HALF : Prod(v, HALF + j) = Times(Prod(v, HALF), Prod(u, j))}
<1>0. HALF \in Nat /\ HALF > 0 /\ LenEval = HALF + HALF /\ 1 \in F
  BY OprfAssumption, RedFacts DEF LenEval
<1>1. \A j \in 0 .. HALF : Row(v, HALF + j) /\ HALF + j \in Nat
  BY <1>0 DEF Row
<1>2. \A i \in 0 .. (HALF - 1) : u[i] = v[HALF + i]
  BY DEF Upper
<1> HIDE DEF u
<1>3. \A j \in 0 .. HALF : Row(u, j)
  BY <1>0, <1>2 DEF Row
<1>4. Row(v, HALF)
  BY <1>0 DEF Row
<1>5. Prod(v, HALF) \in F
  BY <1>0, <1>4, ProdStep
<1>6. 0 \in T
  <2>1. Prod(u, 0) = 1 /\ HALF + 0 = HALF
    BY <1>0, <1>3, ProdStep
  <2>2. Times(Prod(v, HALF), 1) = Prod(v, HALF)
    BY <1>5, TimesUnits
  <2> QED
    BY <1>0, <2>1, <2>2
<1>7. ASSUME NEW j \in 1 .. HALF, j - 1 \in T
      PROVE  j \in T
  <2> DEFINE k == j - 1
             m == HALF + k
             n == HALF + j
  <2>1. /\ k \in 0 .. HALF /\ k \in 0 .. (HALF - 1) /\ k \in Nat /\ m \in Nat /\ n - 1 = m /\ n > 0
        /\ j \in Nat /\ j \in 0 .. HALF /\ k \in 0 .. (j - 1) /\ j - 1 = k /\ j > 0 /\ n \in Nat
    BY <1>0
  <2>2. Prod(v, m) = Times(Prod(v, HALF), Prod(u, k))
    BY <1>7
  <2>3. u[k] = v[m] /\ Row(v, n) /\ Row(u, j) /\ Row(u, k)
    BY <1>1, <1>2, <1>3, <2>1
  <2> HIDE DEF k, m, n
  <2>4. Prod(v, n) = Times(Prod(v, m), v[m])
    BY <2>1, <2>3, ProdStep
  <2>5. Prod(u, j) = Times(Prod(u, k), u[k]) /\ Prod(u, k) \in F
    BY <2>1, <2>3, ProdStep
  <2>6. u[k] \in F /\ u[k] \in Int /\ Prod(u, k) \in Int /\ Prod(v, HALF) \in Int
    <3>1. u[k] \in F
      BY <2>1, <2>3 DEF Row
    <3> QED
      BY <1>5, <2>5, <3>1, RedFacts
  <2>7. Times(Times(Prod(v, HALF), Prod(u, k)), u[k]) = Times(Prod(v, HALF), Times(Prod(u, k), u[k]))
    BY <2>6, TimesAssoc
  <2>8. Prod(v, n) = Times(Prod(v, HALF), Prod(u, j))
    BY <2>2, <2>3, <2>4, <2>5, <2>7
  <2> QED
    BY <2>1, <2>8 DEF n
<1> HIDE DEF T
<1>8. 0 .. HALF \subseteq T
  BY <1>0, <1>6, <1>7, Field!LoopInduction
<1>9. HALF \in T
  BY <1>0, <1>8
<1> QED
  BY <1>0, <1>3, <1>4, <1>9 DEF T, u

----------------------------------------------------------------------------
(* Inverses, symbols and powers of EPS.                                    *)

\* Every nonzero value has an inverse, so a nonzero factor can be cancelled.
LEMMA InverseRight ==
  ASSUME NEW x \in F, x # 0
  PROVE  Inv[x] \in F /\ Times(x, Inv[x]) = 1
<1> DEFINE n == P - 2
<1>0. x \in Int /\ n \in Nat /\ n + 1 = P - 1 /\ x \in 1 .. (P - 1)
  BY RedFacts DEF F
<1>1. Inv[x] = Pow(x, n)
  BY DEF Inv, F
<1> HIDE DEF n
<1>2. Pow(x, n) \in F /\ Pow(x, n + 1) = Times(Pow(x, n), x)
  BY <1>0, PowStep, PowSucc
<1>3. Pow(x, n + 1) = 1
  BY <1>0, FermatAssumption
<1> DEFINE y == Pow(x, n)
<1>4. y \in F /\ y \in Int /\ Times(y, x) = 1
  BY <1>2, <1>3, RedFacts
<1> HIDE DEF y
<1>5. Times(x, y) = 1
  BY <1>0, <1>4, TimesRed
<1> QED
  BY <1>1, <1>4, <1>5 DEF y

\* A nonzero factor can be cancelled.
LEMMA TimesCancel ==
  ASSUME NEW a \in F, a # 0, NEW x \in F, NEW y \in F, Times(a, x) = Times(a, y)
  PROVE  x = y
<1> DEFINE b == Inv[a]
<1>1. b \in F /\ Times(a, b) = 1
  BY InverseRight
<1> HIDE DEF b
<1>2. a \in Int /\ b \in Int /\ x \in Int /\ y \in Int
  BY <1>1, RedFacts
<1>3. Times(b, a) = 1
  BY <1>1, <1>2, TimesRed
<1>4. Times(Times(b, a), x) = Times(b, Times(a, x)) /\ Times(Times(b, a), y) = Times(b, Times(a, y))
  BY <1>2, TimesAssoc
<1> QED
  BY <1>3, <1>4, TimesUnits

\* EPS is a positive number.
LEMMA EpsNat == EPS \in Nat /\ EPS > 0
BY SMTT(60) DEF EPS

\* A nonzero EPS-th power is a root of unity of order D: Fermat's theorem, and EPS * D
\* is a multiple of P - 1.
LEMMA EpsPower ==
  ASSUME NEW z \in EpsPowers
  PROVE  z \in F /\ (z # 0 => Pow(z, D) = 1)
<1> DEFINE n == EPS
<1>1. n \in Nat /\ n > 0
  BY SMTT(60) DEF EPS
<1>2. PICK r \in Randomness : z = Pow(r % P, n)
  BY DEF EpsPowers
<1> DEFINE g == r % P
<1>3. g \in F /\ z = Pow(g, n)
  BY <1>2, RedFacts, OprfAssumption DEF Red
<1> DEFINE m == P - 1
           q == (n * D) \div m
<1>4. m \in Nat \ {0} /\ D \in Nat /\ (n * D) % m = 0
  <2>1. m \in Nat \ {0} /\ D \in Nat
    BY RedFacts, PrimeAssumption
  <2>2. (n * D) % m = 0
    BY PrimeAssumption
  <2> QED
    BY <2>1, <2>2
<1> HIDE DEF n, g, m
<1>5. q \in Nat /\ n * D = m * q
  <2> DEFINE p == n * D
  <2>1. p \in Nat /\ p % m = 0
    BY <1>1, <1>4, SMT
  <2> HIDE DEF p
  <2>2. p \div m \in Nat /\ p = m * (p \div m)
    BY <1>4, <2>1, SMT
  <2> QED
    BY <2>2 DEF p
<1> HIDE DEF q
<1>6. z \in F
  BY <1>1, <1>3, PowStep, RedFacts
<1>7. ASSUME z # 0
      PROVE  Pow(z, D) = 1
  <2>1. g # 0
    BY <1>1, <1>3, <1>7, PowNonzero
  <2>2. Pow(g, m) = 1
    BY <1>3, <2>1, FermatAssumption DEF F, m
  <2>3. Pow(z, D) = Pow(g, n * D)
    BY <1>1, <1>3, <1>4, PowProduct
  <2>4. Pow(g, m * q) = Pow(Pow(g, m), q)
    BY <1>3, <1>4, <1>5, PowProduct
  <2>5. Pow(1, q) = 1
    BY <1>5, PowOne
  <2> QED
    BY <1>5, <2>2, <2>3, <2>4, <2>5
<1> QED
  BY <1>6, <1>7

\* A symbol is zero for zero only, and does not see a factor that is a root of unity.
LEMMA SymbolFacts ==
  /\ \A x \in Int : Symbol(x) = 0 <=> Red(x) = 0
  /\ \A x \in Int : Symbol(Red(x)) = Symbol(x)
  /\ \A z \in F, x \in Int : Pow(z, D) = 1 => Symbol(Times(z, x)) = Symbol(x)
<1> DEFINE R == RADIX^SYMBOL_BYTES
<1>0. R \in Nat \ {0} /\ D \in Nat /\ D > 0 /\ 0 \in F
  BY SymbolAssumption, PrimeAssumption, RedFacts
<1> HIDE DEF R
<1>1. \A x \in F : SymbolOf[x] = Pow(x, D) % R
  BY DEF SymbolOf, F, R
<1>2. \A x \in Int : Red(x) \in F /\ Symbol(x) = SymbolOf[Red(x)] /\ Red(Red(x)) = Red(x)
  BY RedFacts DEF Symbol, Red
<1>3. SymbolOf[0] = 0
  <2>1. Pow(0, D) = 0
    BY <1>0, PowNonzero
  <2>2. 0 % R = 0
    BY <1>0, SMT
  <2> QED
    BY <1>0, <1>1, <2>1, <2>2
<1>4. \A x \in F : x # 0 => SymbolOf[x] # 0
  BY SymbolAssumption DEF F
<1>5. ASSUME NEW z \in F, NEW x \in Int, Pow(z, D) = 1
      PROVE  Symbol(Times(z, x)) = Symbol(x)
  <2> DEFINE y == Red(x)
             t == Times(z, x)
  <2>1. y \in F /\ Symbol(x) = SymbolOf[y]
    BY <1>2
  <2>2. z \in Int /\ t = Times(z, y) /\ t \in F /\ t \in Int
    BY RedFacts, TimesRed
  <2> HIDE DEF y, t
  <2>3. Symbol(t) = SymbolOf[t]
    BY <1>2, <2>2, RedFacts
  <2>4. Pow(t, D) = Times(Pow(z, D), Pow(y, D)) /\ Pow(y, D) \in F
    BY <1>0, <2>1, <2>2, PowTimes, PowStep, RedFacts
  <2>5. Times(1, Pow(y, D)) = Pow(y, D)
    BY <2>4, TimesUnits
  <2>6. SymbolOf[t] = SymbolOf[y]
    BY <1>1, <1>5, <2>1, <2>2, <2>4, <2>5
  <2> QED
    BY <2>1, <2>3, <2>6 DEF t
<1>6. \A x \in Int : Symbol(x) = 0 <=> Red(x) = 0
  BY <1>2, <1>3, <1>4
<1>7. \A x \in Int : Symbol(Red(x)) = Symbol(x)
  BY <1>2, RedFacts
<1> QED
  BY <1>5, <1>6, <1>7

----------------------------------------------------------------------------
(* The witness.                                                            *)

\* The equations of a witness.
Formed(w, v, b) ==
  /\ w # NoWitness
  /\ w.v = v /\ w.b = b
  /\ w.e = [i \in 0 .. (LenCom - 1) |-> Symbol(key + l(i))]
  /\ w.c0 = Prod(v, HALF) /\ w.c1 = Prod(Upper(v), HALF)
  /\ w.y \in [0 .. 8 -> F]
  /\ w.y[0] = Pow(Prod(v, LenEval), Y)
  /\ \A i \in 1 .. 8 : w.y[i] = Fifth[w.y[i - 1]]
  /\ w.a0 = (w.y[8] * w.y[8] * w.y[4] * w.y[1] * w.y[1]) % P
  /\ w.a1 = (w.y[1] * w.a0 * Inv[(w.y[0] * w.y[0] * w.y[3]) % P]) % P

\* A witness has the values its equations name: the recursion that computes the chain
\* of fifth powers has a value at every index.
LEMMA WitnessForm ==
  ASSUME NEW v, NEW b, Row(v, LenEval)
  PROVE  Formed(Witness(v, b), v, b)
<1> DEFINE a == PowY[Prod(v, LenEval)]
           Is(f) == f = [i \in 0 .. 8 |-> IF i = 0 THEN a ELSE Fifth[f[i - 1]]]
           y == CHOOSE f : Is(f)
           before == [j \in 1 .. 8 |-> j - 1]
           fifth == [jv \in (1 .. 8) \X F |-> Fifth[jv[2]]]
<1>0. LenEval \in Nat /\ Y \in Nat
  BY OprfAssumption, PrimeAssumption DEF LenEval
<1>1. a = Pow(Prod(v, LenEval), Y) /\ a \in F
  <2>1. Prod(v, LenEval) \in F
    BY <1>0, ProdStep
  <2>2. a = Pow(Prod(v, LenEval), Y)
    BY <2>1 DEF PowY, F
  <2> QED
    BY <1>0, <2>1, <2>2, PowStep, RedFacts
<1>2. \A x \in F : Fifth[x] = Pow(x, 5) /\ Fifth[x] \in F
  <2>1. \A x \in F : Fifth[x] = Pow(x, 5)
    BY DEF Fifth, F
  <2> QED
    BY <2>1, PowStep, RedFacts
<1>3. Field!LooksBack(before, 8)
  <2>1. \A j \in 1 .. 8 : j - 1 \in 0 .. (j - 1)
    BY SMT
  <2> QED
    BY <2>1 DEF Field!LooksBack
<1>4. Field!Closed(fifth, 8, F)
  <2>1. \A j \in 1 .. 8 : \A x \in F : fifth[<<j, x>>] \in F
    BY <1>2
  <2> HIDE DEF fifth
  <2> QED
    BY <2>1, Zenon DEF Field!Closed
<1>5. PICK g \in [0 .. 8 -> F] : Field!Loop(g, 8, a, before, fifth)
  <2> HIDE DEF before, fifth, a
  <2> QED
    BY <1>1, <1>3, <1>4, Field!LoopExists
<1>6. g[0] = a /\ \A j \in 1 .. 8 : g[j] = Fifth[g[j - 1]]
  <2> HIDE DEF a
  <2>1. g[0] = a
    BY <1>5 DEF Field!Loop
  <2>2. ASSUME NEW j \in 1 .. 8
        PROVE  g[j] = Fifth[g[j - 1]]
    <3> DEFINE k == j - 1
    <3>1. k \in 0 .. 8 /\ before[j] = k
      BY SMT
    <3>2. g[k] \in F
      BY <3>1
    <3>3. g[j] = fifth[<<j, g[k]>>]
      <4> HIDE DEF before, fifth, k
      <4> QED
        BY <1>5, <3>1 DEF Field!Loop
    <3> QED
      BY <3>2, <3>3
  <2> QED
    BY <2>1, <2>2
<1> HIDE DEF before, fifth
<1>7. Is(g)
  <2> HIDE DEF a
  <2> QED
    BY <1>5, <1>6
<1>8. Is(y)
  <2> HIDE DEF Is
  <2> QED
    BY <1>7
<1> DEFINE w == Witness(v, b)
           a0 == (y[8] * y[8] * y[4] * y[1] * y[1]) % P
<1>9. w = [v |-> v, b |-> b, y |-> y, a0 |-> a0,
           a1 |-> (y[1] * a0 * Inv[(a * a * y[3]) % P]) % P,
           c0 |-> Prod(v, HALF),
           c1 |-> Prod(Upper(v), HALF),
           e |-> [i \in 0 .. (LenCom - 1) |-> Symbol(key + l(i))]]
  BY Zenon DEF Witness
<1> HIDE DEF w, y, a
<1>10. y = g
  <2> DEFINE T == {j \in 0 .. 8 : y[j] = g[j]}
  <2>0. y[0] = a /\ (\A j \in 1 .. 8 : y[j] = Fifth[y[j - 1]]) /\ y = [i \in 0 .. 8 |-> y[i]]
    BY <1>8
  <2>1. 0 \in T
    BY <1>6, <2>0
  <2>2. ASSUME NEW j \in 1 .. 8, j - 1 \in T
        PROVE  j \in T
    BY <2>0, <2>2, <1>6
  <2> HIDE DEF T
  <2>3. 0 .. 8 \subseteq T
    BY <2>1, <2>2, Field!LoopInduction
  <2> HIDE DEF Is
  <2>4. \A j \in 0 .. 8 : y[j] = g[j]
    BY <2>3 DEF T
  <2> QED
    BY <2>0, <2>4, <1>5
<1>11. /\ w.v = v /\ w.b = b /\ w.y = y /\ w.a0 = a0
       /\ w.a1 = (y[1] * a0 * Inv[(a * a * y[3]) % P]) % P
       /\ w.e = [i \in 0 .. (LenCom - 1) |-> Symbol(key + l(i))]
       /\ w.c0 = Prod(v, HALF) /\ w.c1 = Prod(Upper(v), HALF)
  BY <1>9
<1>12. w # NoWitness
  <2>1. "b" \in DOMAIN w /\ "b" \notin DOMAIN NoWitness
    BY <1>9 DEF NoWitness
  <2> QED
    BY <2>1
<1> HIDE DEF Is
<1> QED
  BY <1>1, <1>5, <1>6, <1>10, <1>11, <1>12 DEF w, Formed

\* A product reduced at its end is the product of the field.
LEMMA TimesChain ==
  ASSUME NEW p \in Int, NEW q \in F, NEW x \in F, p % P = q
  PROVE  p * x \in Int /\ (p * x) % P = Times(q, x)
<1>1. x \in Int /\ Red(p) = q
  BY RedFacts DEF Red
<1>2. p * x \in Int
  BY <1>1
<1>3. Times(p, x) = Times(Red(p), x)
  BY <1>1, TimesRed
<1> QED
  BY <1>1, <1>2, <1>3 DEF Times

\* So the products of ZKP.h, of two to five factors, are products of the field.
LEMMA ChainFacts ==
  ASSUME NEW x \in F, NEW y \in F
  PROVE  /\ x * y \in Int /\ (x * y) % P = Times(x, y)
         /\ \A z \in F : x * y * z \in Int /\ (x * y * z) % P = Times(Times(x, y), z)
         /\ \A z, u \in F : x * y * z * u \in Int /\ (x * y * z * u) % P = Times(Times(Times(x, y), z), u)
         /\ \A z, u, t \in F : (x * y * z * u * t) % P = Times(Times(Times(Times(x, y), z), u), t)
<1> DEFINE p == x * y
           xy == Times(x, y)
<1>0. \A i, j \in F : Times(i, j) \in F
  BY RedFacts, TimesRed
<1>1. p \in Int /\ p % P = xy /\ xy \in F
  BY <1>0, RedFacts DEF Times
<1> HIDE DEF p, xy
<1>2. ASSUME NEW z \in F
      PROVE  p * z \in Int /\ (p * z) % P = Times(xy, z) /\ Times(xy, z) \in F
  BY <1>0, <1>1, TimesChain
<1>3. ASSUME NEW z \in F, NEW u \in F
      PROVE  /\ p * z * u \in Int /\ (p * z * u) % P = Times(Times(xy, z), u)
             /\ Times(Times(xy, z), u) \in F
  <2> DEFINE q == p * z
             w == Times(xy, z)
  <2>1. q \in Int /\ q % P = w /\ w \in F
    BY <1>2
  <2> HIDE DEF q, w
  <2>2. q * u \in Int /\ (q * u) % P = Times(w, u) /\ Times(w, u) \in F
    BY <1>0, <2>1, TimesChain
  <2> QED
    BY <2>2 DEF q, w
<1>4. ASSUME NEW z \in F, NEW u \in F, NEW t \in F
      PROVE  (p * z * u * t) % P = Times(Times(Times(xy, z), u), t)
  <2> DEFINE q == p * z * u
             w == Times(Times(xy, z), u)
  <2>1. q \in Int /\ q % P = w /\ w \in F
    BY <1>3
  <2> HIDE DEF q, w
  <2>2. (q * t) % P = Times(w, t)
    BY <2>1, TimesChain
  <2> QED
    BY <2>2 DEF q, w
<1>5. \A z \in F : p * z \in Int /\ (p * z) % P = Times(xy, z)
  BY <1>2
<1>6. \A z, u \in F : p * z * u \in Int /\ (p * z * u) % P = Times(Times(xy, z), u)
  BY <1>3
<1>7. \A z, u, t \in F : (p * z * u * t) % P = Times(Times(Times(xy, z), u), t)
  BY <1>4
<1> QED
  BY <1>1, <1>5, <1>6, <1>7 DEF p, xy

\* A product of two,
LEMMA Chain2 == ASSUME NEW x \in F, NEW y \in F PROVE (x * y) % P = Times(x, y)
BY ChainFacts

\* of three,
LEMMA Chain3 == ASSUME NEW x \in F, NEW y \in F, NEW z \in F
                PROVE  (x * y * z) % P = Times(Times(x, y), z)
BY ChainFacts
\* A product of four as one operator.
Product4(x, y, z, u) == (x * y * z * u) % P

\* and of four.
LEMMA Chain4 == ASSUME NEW x \in F, NEW y \in F, NEW z \in F, NEW u \in F
                PROVE  Product4(x, y, z, u) = Times(Times(Times(x, y), z), u)
BY ChainFacts DEF Product4

\* The chain of fifth powers: y1 * a0 is a power of y0 of exponent EPS + 126, and a * a * y3 the 127th.
LEMMA FifthPowers ==
  ASSUME NEW y \in [0 .. 8 -> F], \A i \in 1 .. 8 : y[i] = Fifth[y[i - 1]]
  PROVE  LET a0 == (y[8] * y[8] * y[4] * y[1] * y[1]) % P
         IN  /\ a0 \in F
             /\ Times(y[1], a0) = Pow(y[0], EPS + 126)
             /\ (y[0] * y[0] * y[3]) % P = Pow(y[0], 127)
<1> DEFINE a == y[0]
           a0 == (y[8] * y[8] * y[4] * y[1] * y[1]) % P
<1>1. a \in F
  OBVIOUS
<1>2. \A i \in 0 .. 8 : y[i] \in F
  OBVIOUS
<1>3. ASSUME NEW i \in 1 .. 8, NEW n \in Nat, y[i - 1] = Pow(a, n)
      PROVE  y[i] = Pow(a, n * 5)
  <2> DEFINE x == y[i - 1]
  <2>1. x \in F /\ y[i] = Fifth[x]
    <3>1. i - 1 \in 0 .. 8
      OBVIOUS
    <3> QED
      BY <3>1
  <2>2. x = Pow(a, n)
    BY <1>3
  <2> HIDE DEF x, a
  <2>3. Fifth[x] = Pow(x, 5)
    BY <2>1 DEF Fifth, F
  <2>4. Pow(a, n * 5) = Pow(Pow(a, n), 5)
    BY <1>1, PowProduct
  <2> QED
    BY <2>1, <2>2, <2>3, <2>4
<1>4. y[0] = Pow(a, 1)
  <2> HIDE DEF a
  <2>1. Pow(a, 0 + 1) = Times(Pow(a, 0), a) /\ Pow(a, 0) = 1 /\ Times(1, a) = a
    BY <1>1, PowSucc, PowStep, TimesUnits, RedFacts
  <2> QED
    BY <2>1 DEF a
<1>5. y[1] = Pow(a, 5)
  <2> HIDE DEF a
  <2> QED
    BY <1>3, <1>4
<1>6. y[2] = Pow(a, 25)
  <2> HIDE DEF a
  <2> QED
    BY <1>3, <1>5
<1>7. y[3] = Pow(a, 125)
  <2> HIDE DEF a
  <2> QED
    BY <1>3, <1>6
<1>8. y[4] = Pow(a, 625)
  <2> HIDE DEF a
  <2> QED
    BY <1>3, <1>7
<1>9. y[5] = Pow(a, 3125)
  <2> HIDE DEF a
  <2> QED
    BY <1>3, <1>8, SMTT(60)
<1>10. y[6] = Pow(a, 15625)
  <2> HIDE DEF a
  <2> QED
    BY <1>3, <1>9, SMTT(60)
<1>11. y[7] = Pow(a, 78125)
  <2> HIDE DEF a
  <2> QED
    BY <1>3, <1>10, SMTT(60)
<1>12. y[8] = Pow(a, 390625)
  <2> HIDE DEF a
  <2> QED
    BY <1>3, <1>11, SMTT(60)
<1> HIDE DEF a
<1>13. \A i, j \in Nat : Times(Pow(a, i), Pow(a, j)) = Pow(a, i + j) /\ Pow(a, i + j) \in F
  <2>1. \A i, j \in Nat : Pow(a, i + j) = Times(Pow(a, i), Pow(a, j))
    BY <1>1, PowSum, SMTT(60)
  <2>2. \A k \in Nat : Pow(a, k) \in F
    BY <1>1, RedFacts, PowStep, SMTT(60)
  <2>3. \A i, j \in Nat : i + j \in Nat
    OBVIOUS
  <2> QED
    BY <2>1, <2>2, <2>3, Zenon
<1>14. a0 = Pow(a, 781885) /\ Pow(a, 781885) \in F
  <2>1. a0 = Times(Times(Times(Times(y[8], y[8]), y[4]), y[1]), y[1])
    <3>1. y[8] \in F /\ y[4] \in F /\ y[1] \in F
      BY <1>2, SMTT(60)
    <3> QED
      BY <3>1, ChainFacts, SMTT(60)
  <2>2. Times(y[8], y[8]) = Pow(a, 781250)
    BY <1>12, <1>13, SMTT(60)
  <2>3. Times(Pow(a, 781250), y[4]) = Pow(a, 781875)
    BY <1>8, <1>13, SMTT(60)
  <2> DEFINE Next5(n) == Times(Pow(a, n), y[1]) = Pow(a, n + 5) /\ Pow(a, n + 5) \in F
  <2>4. \A n \in Nat : Next5(n)
    BY <1>5, <1>13, Zenon
  <2> HIDE DEF Next5
  <2>5. Next5(781875) /\ Next5(781880)
    BY <2>4, SMTT(60)
  <2>6. Times(Pow(a, 781875), y[1]) = Pow(a, 781880)
    BY <2>5, SMTT(60) DEF Next5
  <2>7. Times(Pow(a, 781880), y[1]) = Pow(a, 781885) /\ Pow(a, 781885) \in F
    BY <2>5, SMTT(60) DEF Next5
  <2> HIDE DEF a0
  <2> QED
    BY <2>1, <2>2, <2>3, <2>6, <2>7, SMTT(60)
<1> HIDE DEF a0
<1>15. Times(y[1], a0) = Pow(a, EPS + 126)
  <2>1. Times(y[1], a0) = Pow(a, 781890)
    BY <1>5, <1>13, <1>14, SMTT(60)
  <2>2. EPS + 126 = 781890
    BY SMTT(60) DEF EPS
  <2> QED
    BY <2>1, <2>2, SMTT(60)
<1>16. (y[0] * y[0] * y[3]) % P = Pow(a, 127)
  <2>1. y[0] \in F /\ y[3] \in F
    BY <1>2
  <2>2. (y[0] * y[0] * y[3]) % P = Times(Times(y[0], y[0]), y[3])
    BY <2>1, ChainFacts
  <2>3. Times(y[0], y[0]) = Pow(a, 2)
    BY <1>4, <1>13
  <2>4. Times(Pow(a, 2), y[3]) = Pow(a, 127)
    BY <1>7, <1>13
  <2> QED
    BY <2>2, <2>3, <2>4
<1> QED
  BY <1>14, <1>15, <1>16 DEF a0, a

\* The rows the server draws from.
LEMMA DrawnRow ==
  ASSUME NEW v \in [0 .. (LenEval - 1) -> EpsPowers]
  PROVE  Row(v, LenEval) /\ LenEval \in Nat
<1>1. \A i \in 0 .. (LenEval - 1) : v[i] \in F
  BY EpsPower
<1> QED
  BY <1>1, OprfAssumption DEF Row, LenEval

\* An honest witness without a zero satisfies the constraints of the proof: the product of
\* v times its Y-th power to EPS is the product to Y * EPS + 1, a multiple of D, and the
\* product is a root of unity of order D.
LEMMA WitnessRight ==
  ASSUME NEW v \in [0 .. (LenEval - 1) -> EpsPowers], \A i \in 0 .. (LenEval - 1) : v[i] # 0,
         NEW b, NEW w, Formed(w, v, b), NEW m, NEW c,
         \A i \in 0 .. (K - 1) : m[i] = (b[i] * (key + l(c[i]))) % P
  PROVE  Constraints(w, m, c)
<1> DEFINE V == Prod(v, LenEval)
           a0 == (w.y[8] * w.y[8] * w.y[4] * w.y[1] * w.y[1]) % P
           den == (w.y[0] * w.y[0] * w.y[3]) % P
<1>0. Row(v, LenEval) /\ LenEval \in Nat
  BY DrawnRow
<1>1. /\ w.v = v /\ w.b = b
      /\ w.c0 = Prod(v, HALF) /\ w.c1 = Prod(Upper(v), HALF)
      /\ w.y \in [0 .. 8 -> F] /\ w.y[0] = Pow(V, Y)
      /\ \A i \in 1 .. 8 : w.y[i] = Fifth[w.y[i - 1]]
      /\ w.a0 = a0
      /\ w.a1 = (w.y[1] * w.a0 * Inv[den]) % P
  BY DEF Formed
<1> DEFINE y == w.y
           a == y[0]
<1>2. a \in F /\ y[1] \in F /\ y[3] \in F
  BY <1>1
<1>3. a0 \in F /\ Times(y[1], a0) = Pow(a, EPS + 126) /\ den = Pow(a, 127)
  BY <1>1, FifthPowers
<1>4. V \in F /\ V # 0 /\ Pow(V, D) = 1
  <2>1. \A i \in 0 .. (LenEval - 1) : Pow(v[i], D) = 1
    BY EpsPower
  <2> QED
    BY <1>0, <2>1, ProdStep, ProdFacts
<1>5. Row(v, HALF) /\ Row(Upper(v), HALF) /\ V = Times(w.c0, w.c1)
  BY <1>0, <1>1, ProdSplit
<1>6. w.c0 \in F /\ w.c1 \in F
  BY <1>1, <1>5, ProdStep, OprfAssumption
<1> DEFINE a1 == w.a1
<1>7. a1 = Times(Times(y[1], a0), Inv[den])
  <2>1. a # 0
    BY <1>1, <1>4, PowNonzero, PrimeAssumption
  <2>2. den \in F /\ den # 0
    <3> HIDE DEF a, den
    <3> QED
      BY <1>2, <1>3, <2>1, PowNonzero, PowStep, RedFacts
  <2>3. Inv[den] \in F
    <3> HIDE DEF den
    <3> QED
      BY <2>2, InverseRight
  <2> DEFINE n == Inv[den]
  <2>4. n \in F /\ a1 = (y[1] * a0 * n) % P
    BY <1>1, <2>3
  <2> HIDE DEF n, a0, den, a1, y
  <2>5. (y[1] * a0 * n) % P = Times(Times(y[1], a0), n)
    BY <1>2, <1>3, <2>4, Chain3, ZenonT(20)
  <2> QED
    BY <2>4, <2>5 DEF n
<1>8. /\ (w.y[0] * w.y[0] * w.y[3] * w.a1) % P = Times(den, a1)
      /\ a1 \in F /\ den \in F /\ den # 0 /\ Inv[den] \in F /\ Times(den, Inv[den]) = 1
  <2>1. a # 0
    BY <1>1, <1>4, PowNonzero, PrimeAssumption
  <2>2. den \in F /\ den # 0
    <3> HIDE DEF a, den
    <3> QED
      BY <1>2, <1>3, <2>1, PowNonzero, PowStep, RedFacts
  <2>3. Inv[den] \in F /\ Times(den, Inv[den]) = 1
    <3> HIDE DEF den
    <3> QED
      BY <2>2, InverseRight
  <2>4. a1 \in F
    <3>1. \A i, j \in F : Times(i, j) \in F
      BY RedFacts, TimesRed
    <3> HIDE DEF a0, den, a1
    <3> QED
      BY <1>2, <1>3, <1>7, <2>3, <3>1
  <2>5. (w.y[0] * w.y[0] * w.y[3] * w.a1) % P = Times(Times(Times(a, a), y[3]), a1)
    <3>1. Product4(a, a, y[3], a1) = Times(Times(Times(a, a), y[3]), a1)
      <4> HIDE DEF a, a1
      <4> QED
        BY <1>2, <2>4, Chain4
    <3> QED
      BY <3>1, Zenon DEF Product4
  <2>6. den = Times(Times(a, a), y[3])
    BY <1>2, Chain3, ZenonT(20)
  <2> HIDE DEF den, a1
  <2> QED
    BY <2>2, <2>3, <2>4, <2>5, <2>6
<1> HIDE DEF a0, den, a1, y, a, V
<1>9. Times(den, a1) = Times(y[1], a0)
  <2> DEFINE n == Inv[den]
             t == Times(y[1], a0)
  <2>1. n \in F /\ Times(den, n) = 1 /\ a1 = Times(t, n)
    BY <1>7, <1>8
  <2>2. t \in F
    BY <1>2, <1>3, RedFacts, TimesRed
  <2> HIDE DEF n, t
  <2>3. den \in Int /\ n \in Int /\ t \in Int
    BY <1>8, <2>1, <2>2, RedFacts
  <2>4. Times(t, n) = Times(n, t) /\ Times(Times(den, n), t) = Times(den, Times(n, t)) /\ Times(1, t) = t
    <3>1. Times(t, n) = Times(n, t)
      BY <2>3, TimesRed
    <3>2. Times(Times(den, n), t) = Times(den, Times(n, t))
      BY <2>3, TimesAssoc
    <3> QED
      BY <2>2, <3>1, <3>2, TimesUnits
  <2> QED
    BY <2>1, <2>4 DEF t
<1>10. (w.y[1] * w.a0) % P = (w.y[0] * w.y[0] * w.y[3] * w.a1) % P
  <2>1. (w.y[1] * w.a0) % P = Times(y[1], a0)
    BY <1>1 DEF Times, y
  <2> QED
    BY <1>8, <1>9, <2>1
<1>11. Times(a, a1) = Pow(a, EPS)
  <2>1. Times(a, Times(y[1], a0)) = Pow(a, EPS + 127)
    <3>0. EPS + 126 \in Nat /\ (EPS + 126) + 1 = EPS + 127
      BY EpsNat
    <3>1. Pow(a, (EPS + 126) + 1) = Times(Pow(a, EPS + 126), a) /\ Pow(a, EPS + 126) \in F
      BY <1>2, <3>0, PowSucc, PowStep, RedFacts
    <3>2. Times(Pow(a, EPS + 126), a) = Times(a, Pow(a, EPS + 126))
      <4> DEFINE p == Pow(a, EPS + 126)
      <4>1. a \in Int /\ p \in Int
        BY <1>2, <3>1, RedFacts
      <4> HIDE DEF p
      <4>2. Times(p, a) = Times(a, p)
        BY <4>1, TimesRed
      <4> QED
        BY <4>2 DEF p
    <3> QED
      BY <1>3, <3>0, <3>1, <3>2
  <2>2. Times(den, Pow(a, EPS)) = Pow(a, 127 + EPS) /\ Pow(a, EPS) \in F
    <3>1. 127 \in Nat /\ EPS \in Nat /\ a \in Int
      BY <1>2, EpsNat, RedFacts
    <3>2. Pow(a, 127 + EPS) = Times(Pow(a, 127), Pow(a, EPS))
      BY <1>2, <3>1, PowSum
    <3>3. Pow(a, EPS) \in F
      BY <3>1, PowStep
    <3> QED
      BY <1>3, <3>2, <3>3
  <2>3. Times(a, Times(den, a1)) = Times(den, Times(a, a1)) /\ Times(a, a1) \in F
    <3>1. a \in Int /\ den \in Int /\ a1 \in Int
      BY <1>2, <1>8, RedFacts
    <3>2. /\ Times(Times(a, den), a1) = Times(a, Times(den, a1))
          /\ Times(Times(den, a), a1) = Times(den, Times(a, a1))
      BY <3>1, TimesAssoc
    <3>3. Times(a, den) = Times(den, a) /\ Times(a, a1) \in F
      BY <3>1, TimesRed
    <3> QED
      BY <3>2, <3>3
  <2>4. Times(den, Times(a, a1)) = Times(den, Pow(a, EPS))
    <3>1. EPS + 127 = 127 + EPS
      BY EpsNat
    <3> QED
      BY <1>9, <2>1, <2>2, <2>3, <3>1
  <2> QED
    BY <1>8, <2>2, <2>3, <2>4, TimesCancel
<1>12. (w.c0 * w.c1 * w.y[0] * w.a1) % P = 1
  <2>1. (w.c0 * w.c1 * w.y[0] * w.a1) % P = Times(Times(Times(w.c0, w.c1), w.y[0]), w.a1)
    <3> DEFINE c0 == w.c0
               c1 == w.c1
    <3>1. c0 \in F /\ c1 \in F /\ a \in F /\ a1 \in F
      BY <1>2, <1>6, <1>8
    <3> HIDE DEF c0, c1
    <3>2. Product4(c0, c1, a, a1) = Times(Times(Times(c0, c1), a), a1)
      BY <3>1, Chain4
    <3> QED
      BY <3>2, Zenon DEF Product4, c0, c1, a, a1, y
  <2>2. Times(Times(V, a), a1) = Times(V, Times(a, a1))
    <3>1. V \in Int /\ a \in Int /\ a1 \in Int
      BY <1>2, <1>4, <1>8, RedFacts
    <3> QED
      BY <3>1, TimesAssoc
  <2> DEFINE n == Y * EPS
  <2>3. a = Pow(V, Y)
    BY <1>1 DEF a, y
  <2>4. Y \in Nat /\ n \in Nat /\ D \in Nat \ {0} /\ (n + 1) % D = 0 /\ EPS \in Nat
    BY PrimeAssumption, EpsNat
  <2>5. Pow(a, EPS) = Pow(V, n)
    BY <1>4, <2>3, <2>4, PowProduct
  <2>6. Times(V, Pow(V, n)) = Pow(V, n + 1)
    <3> HIDE DEF n
    <3>1. Pow(V, n + 1) = Times(Pow(V, n), V) /\ Pow(V, n) \in F
      BY <1>4, <2>4, PowSucc, PowStep, RedFacts
    <3>2. V \in Int /\ Pow(V, n) \in Int
      BY <1>4, <3>1, RedFacts
    <3> QED
      BY <3>1, <3>2, TimesRed
  <2> DEFINE q == (n + 1) \div D
  <2>7. q \in Nat /\ n + 1 = D * q
    <3> DEFINE k == n + 1
    <3>1. k \in Nat /\ k % D = 0
      BY <2>4
    <3> HIDE DEF k
    <3>2. k \div D \in Nat /\ k = D * (k \div D)
      BY <2>4, <3>1, SMT
    <3> QED
      BY <3>2 DEF k
  <2> HIDE DEF n, q
  <2>8. Pow(V, n + 1) = 1
    <3>1. Pow(V, D * q) = Pow(Pow(V, D), q) /\ Pow(1, q) = 1
      BY <1>4, <2>4, <2>7, PowProduct, PowOne
    <3> QED
      BY <1>4, <2>7, <3>1
  <2>9. Times(Times(Times(w.c0, w.c1), w.y[0]), w.a1) = Times(Times(V, a), a1)
    BY <1>5 DEF a, a1, y
  <2> QED
    BY <1>11, <2>1, <2>2, <2>4, <2>5, <2>6, <2>8, <2>9
<1> QED
  BY <1>1, <1>10, <1>12 DEF Constraints, a0

\* A witness that satisfies them was drawn without a zero.
LEMMA NoZeroDrawn ==
  ASSUME NEW v \in [0 .. (LenEval - 1) -> EpsPowers], NEW b, NEW w, Formed(w, v, b),
         NEW m, NEW c, Constraints(w, m, c)
  PROVE  \A i \in 0 .. (LenEval - 1) : v[i] # 0
<1> SUFFICES ASSUME \E i \in 0 .. (LenEval - 1) : v[i] = 0
             PROVE  FALSE
  OBVIOUS
<1> DEFINE c0 == w.c0
           c1 == w.c1
           a == w.y[0]
           a1 == w.a1
<1>0. Row(v, LenEval) /\ LenEval \in Nat
  BY DrawnRow
<1>1. /\ c0 = Prod(v, HALF) /\ c1 = Prod(Upper(v), HALF) /\ a \in F
      /\ a1 = (w.y[1] * w.a0 * Inv[(a * a * w.y[3]) % P]) % P
  BY DEF Formed
<1>2. Row(v, HALF) /\ Row(Upper(v), HALF) /\ Prod(v, LenEval) = Times(c0, c1)
  BY <1>0, <1>1, ProdSplit
<1>3. c0 \in F /\ c1 \in F
  BY <1>1, <1>2, ProdStep, OprfAssumption
<1>4. Times(c0, c1) = 0
  BY <1>0, <1>2, ProdFacts
<1>5. (c0 * c1 * a * a1) % P = 1
  BY DEF Constraints
<1>6. a1 \in Int
  <2>1. w.y[1] \in F /\ w.y[3] \in F /\ w.a0 \in F
    <3>1. w.y[1] \in F /\ w.y[3] \in F
      BY DEF Formed
    <3>2. w.a0 \in F
      BY FifthPowers DEF Formed
    <3> QED
      BY <3>1, <3>2
  <2> DEFINE den == (a * a * w.y[3]) % P
  <2>2. den \in F
    <3>1. den = Times(Times(a, a), w.y[3])
      BY <1>1, <2>1, Chain3, ZenonT(20)
    <3> HIDE DEF den, a
    <3> QED
      BY <1>1, <2>1, <3>1, RedFacts, TimesRed
  <2>3. Inv[den] \in F
    <3> HIDE DEF den
    <3>1. Inv[den] = Pow(den, P - 2)
      BY <2>2 DEF Inv, F
    <3>2. P - 2 \in Nat
      BY PrimeAssumption
    <3> QED
      BY <2>2, <3>1, <3>2, PowStep, RedFacts
  <2> DEFINE n == Inv[den]
             y1 == w.y[1]
             a0 == w.a0
  <2>4. n \in F /\ a1 = (y1 * a0 * n) % P /\ y1 \in F /\ a0 \in F
    BY <1>1, <2>1, <2>3
  <2> HIDE DEF n, y1, a0, a1
  <2>5. a1 = Times(Times(y1, a0), n)
    BY <2>4, Chain3, ZenonT(20)
  <2> QED
    BY <2>4, <2>5, RedFacts, TimesRed
<1> HIDE DEF c0, c1, a, a1
<1>7. (c0 * c1 * a * a1) % P = 0
  <2> DEFINE p == c0 * c1
  <2>1. p \in Int /\ Red(p) = 0
    BY <1>3, <1>4, RedFacts DEF Times, Red
  <2> DEFINE q == a * a1
  <2>2. q \in Int /\ c0 * c1 * a * a1 = p * q
    BY <1>1, <1>3, <1>6, RedFacts, SMT
  <2> HIDE DEF p, q
  <2>3. Times(p, q) = Times(Red(p), q) /\ Times(0, q) = Red(0 * q)
    BY <2>1, <2>2, TimesRed DEF Times, Red
  <2>4. 0 * q = 0 /\ Red(0) = 0
    BY <2>2, RedFacts
  <2> QED
    BY <2>1, <2>2, <2>3, <2>4 DEF Times
<1> QED
  BY <1>5, <1>7

----------------------------------------------------------------------------
(* What the messages of a session are worth.                               *)

\* Keys, inputs and offsets are numbers.
LEMMA SessionValues ==
  ASSUME Rest
  PROVE  /\ key \in Int /\ h \in Int
         /\ \A i \in 0 .. (LenEval - 1) : lPrime(i) \in Int
         /\ \A i \in Indices : l(i) \in Int
<1> DEFINE top == RADIX^(LIMBS - 1) * TOP - 1
<1>1. /\ Keys \subseteq 0 .. top /\ Inputs \subseteq 0 .. top
      /\ OffsetChoices \subseteq [0 .. (LenEval + LenCom - 1) -> 0 .. top]
  BY OprfAssumption
<1> HIDE DEF top
<1>2. 0 .. top \subseteq Int
  OBVIOUS
<1>3. key \in Int /\ h \in Int
  BY <1>1, <1>2 DEF Rest
<1>4. \A i \in 0 .. (LenEval + LenCom - 1) : offsets[i] \in Int
  <2>1. offsets \in [0 .. (LenEval + LenCom - 1) -> 0 .. top]
    BY <1>1 DEF Rest
  <2> QED
    BY <2>1, <1>2
<1>5. LenEval \in Nat /\ LenCom \in Nat
  BY OprfAssumption DEF LenEval
<1>6. \A i \in 0 .. (LenEval - 1) : lPrime(i) \in Int
  BY <1>4, <1>5 DEF lPrime
<1>7. \A i \in Indices : l(i) \in Int
  BY <1>4, <1>5 DEF l, Indices
<1> QED
  BY <1>3, <1>6, <1>7

\* An answer has the symbol of what it answers for, unless its factor is zero.
LEMMA AnswerSymbol ==
  ASSUME NEW b \in EpsPowers, NEW x \in Int
  PROVE  /\ b # 0 => Symbol((b * x) % P) = Symbol(x)
         /\ b = 0 => Symbol((b * x) % P) = 0
         /\ (b * x) % P \in F
<1>1. b \in F /\ (b # 0 => Pow(b, D) = 1)
  BY EpsPower
<1> DEFINE t == Times(b, x)
<1>2. (b * x) % P = t /\ t \in F /\ t \in Int
  BY <1>1, RedFacts, TimesRed DEF Times
<1>3. b = 0 => t = 0
  <2> SUFFICES ASSUME b = 0 PROVE t = 0
    OBVIOUS
  <2>1. t = Red(0 * x) /\ 0 * x = 0
    BY DEF Times, Red
  <2> QED
    BY <2>1, RedFacts
<1>4. Pow(b, D) = 1 => Symbol(t) = Symbol(x)
  BY <1>1, SymbolFacts
<1> HIDE DEF t
<1>5. t = 0 => Symbol(t) = 0
  BY <1>2, SymbolFacts, RedFacts
<1> QED
  BY <1>1, <1>2, <1>3, <1>4, <1>5

\* What VOLE+ delivers for a nonzero v has the symbol of K + l' + h.
LEMMA DeliveredSymbol ==
  ASSUME NEW v \in EpsPowers, v # 0, NEW x \in Int, NEW y \in Int
  PROVE  Symbol((((x * v) % P) + y * v) % P) = Symbol(x + y)
<1>1. v \in F /\ v \in Int /\ Pow(v, D) = 1
  BY EpsPower, RedFacts
<1> DEFINE p == x * v
           q == y * v
           z == x + y
<1>2. p \in Int /\ q \in Int /\ z \in Int /\ p + q = v * z
  BY <1>1, SMT
<1> HIDE DEF p, q, z
<1>3. Red(Red(p) + q) = Red(p + q)
  BY <1>2, RedReduce
<1>4. Red(v * z) = Times(v, z) /\ Symbol(Times(v, z)) = Symbol(z)
  BY <1>1, <1>2, TimesRed, SymbolFacts
<1>5. Symbol(((p % P) + q) % P) = Symbol(z)
  BY <1>2, <1>3, <1>4 DEF Red
<1> QED
  BY <1>5 DEF p, q, z

\* A value off by one is another value of the field.
LEMMA OffByOne ==
  ASSUME NEW x \in F, NEW y \in Int
  PROVE  (((x + 1) % P) + y) % P # (x + y) % P
<1> DEFINE r == x + 1
           s == x + y
           t == r + y
<1>1. r \in Int /\ s \in Int /\ t \in Int /\ t = s + 1 /\ x \in Int
  BY RedFacts
<1> HIDE DEF r, s, t
<1>2. Red(Red(r) + y) = Red(r + y)
  BY <1>1, RedReduce
<1>3. Red(t) # Red(s)
  <2> SUFFICES ASSUME Red(t) = Red(s) PROVE FALSE
    OBVIOUS
  <2>1. Red(t - s) = Red(s - s)
    <3>1. Red(Red(t) - s) = Red(t - s) /\ Red(Red(s) - s) = Red(s - s)
      BY <1>1, RedFacts, Field!ResReduce DEF Red, Field!Res
    <3> QED
      BY <3>1
  <2>2. t - s = 1 /\ s - s = 0
    BY <1>1
  <2> QED
    BY <2>1, <2>2, RedFacts
<1>4. ((r % P) + y) % P # s % P
  BY <1>2, <1>3 DEF Red, t
<1> QED
  BY <1>4 DEF r, s

\* An answer off by the EPS-th power of 3 is another value, unless it is zero.
LEMMA OffByPower ==
  ASSUME NEW x \in F, (x * Pow(3, EPS)) % P = x
  PROVE  x = 0
<1> DEFINE g == Pow(3, EPS)
<1>1. g \in F /\ g # 1
  BY EpsNat, PowStep, SymbolAssumption
<1> HIDE DEF g
<1>2. Times(x, g) = x
  BY DEF Times, g
<1>3. Times(x, 1) = x
  BY TimesUnits
<1> QED
  BY <1>1, <1>2, <1>3, RedFacts, TimesCancel

\* The bodies of messages sent and received, in a queue of at most two.
LEMMA SentBody ==
  ASSUME NEW q, NEW a, NEW x
  PROVE  /\ None(q) => Append(q, Msg(a, x))[1].body = x
         /\ \A k : One(q, k) => /\ Append(q, Msg(a, x))[1] = q[1]
                                /\ Append(q, Msg(a, x))[2].body = x
<1> DEFINE n == Msg(a, x)
<1>1. n.body = x
  BY DEF Msg
<1> HIDE DEF n
<1>2. ASSUME None(q)
      PROVE  Append(q, n)[1] = n
  BY <1>2 DEF None
<1>3. ASSUME NEW k, One(q, k)
      PROVE  Append(q, n)[1] = q[1] /\ Append(q, n)[2] = n
  <2> DEFINE m == Msg(k, q[1].body)
  <2>1. q = <<m>>
    BY <1>3 DEF One
  <2> HIDE DEF m
  <2>2. q[1] = m /\ Append(q, n) = Append(<<m>>, n)
    BY <2>1
  <2>3. Append(<<m>>, n)[1] = m /\ Append(<<m>>, n)[2] = n
    OBVIOUS
  <2> QED
    BY <2>2, <2>3
<1> QED
  BY <1>1, <1>2, <1>3 DEF n

\* What a queue of one or two messages hands to its receiver.
LEMMA TakenBody ==
  ASSUME NEW q, NEW a
  PROVE  /\ One(q, a) => Head(q) = q[1]
         /\ \A b : Two(q, a, b) => Head(q) = q[1] /\ Tail(q)[1] = q[2]
<1>1. ASSUME One(q, a)
      PROVE  Head(q) = q[1]
  <2> DEFINE m == Msg(a, q[1].body)
  <2>1. q = <<m>>
    BY <1>1 DEF One
  <2> HIDE DEF m
  <2> QED
    BY <2>1
<1>2. ASSUME NEW b, Two(q, a, b)
      PROVE  Head(q) = q[1] /\ Tail(q)[1] = q[2]
  <2> DEFINE m == Msg(a, q[1].body)
             n == Msg(b, q[2].body)
  <2>1. q = <<m, n>>
    BY <1>2 DEF Two
  <2> HIDE DEF m, n
  <2>2. Tail(<<m, n>>) = <<n>> /\ Head(<<m, n>>) = m
    OBVIOUS
  <2>3. q[1] = m /\ q[2] = n /\ <<n>>[1] = n
    BY <2>1
  <2> QED
    BY <2>1, <2>2, <2>3
<1> QED
  BY <1>1, <1>2

----------------------------------------------------------------------------
(* What is known at each row of the script.                                *)

\* The witness is one the server can draw.
WitOk == /\ wit.v \in [0 .. (LenEval - 1) -> EpsPowers] /\ wit.b \in [0 .. (K - 1) -> EpsPowers]
         /\ Formed(wit, wit.v, wit.b)

\* What the server sends from it, the corruption included.
UvBody == LET u == UOf(wit.v)
          IN  [u |-> IF fault = "uv" THEN [u EXCEPT ![0] = (@ + 1) % P] ELSE u, v |-> wit.v]
Answers(c) == [i \in 0 .. (K - 1) |-> (wit.b[i] * (key + l(c[i]))) % P]
MBody(c) == IF fault = "m" THEN [Answers(c) EXCEPT ![0] = (@ * Pow(3, EPS)) % P] ELSE Answers(c)

\* What the client makes of it, and the challenge as the server reads it.
Delivered == [i \in 0 .. (LenEval - 1) |-> (UvBody.u[i] + h * UvBody.v[i]) % P]
Asked == [i \in 0 .. (K - 1) |-> cl.c[i] % RADIX]

\* A witness is there once the server waits for the commitment's seed.
Witnessed ==
  \/ spc \in {"zkSeed", "vpDerand", "gamma", "lambda", "sendE", "recvC", "zkProve", "flush"}
  \/ cpc \in {"zkCheck", "vpDerand", "vpCheck", "vpFinish", "recvE", "challenge", "recvM", "seed",
              "verify", "done", "aborted"}

\* The bodies of the messages under way.
Bodies ==
  /\ cpc = "zkCheck" /\ s2c # <<>> => s2c[1].body = (fault # "zk")
  /\ cpc = "vpCheck" /\ s2c # <<>> => s2c[1].body = (fault # "vp")
  /\ cpc = "vpFinish" /\ s2c # <<>> => s2c[1].body = UvBody
  /\ cpc = "vpFinish" /\ spc = "recvC" => s2c[2].body = SentE
  /\ cpc = "recvE" /\ spc = "recvC" => s2c[1].body = SentE
  /\ cpc = "recvM" /\ spc = "recvC" => c2s[1].body = Asked
  /\ cpc = "recvM" /\ spc = "zkProve" => s2c[1].body = MBody(Asked)
  /\ cpc = "verify" /\ s2c # <<>> => s2c[1].body = (fault # "proof")

\* The checks the client has passed and what it holds.
Opened == cpc \in {"vpDerand", "vpCheck", "vpFinish", "recvE", "challenge", "recvM", "seed", "verify", "done"}
GotVole == \/ cpc \in {"challenge", "recvM", "seed", "verify", "done"}
           \/ cpc = "recvE" /\ spc \in {"sendE", "recvC"}
GotE == cpc \in {"challenge", "recvM", "seed", "verify", "done"}
GotC == cpc \in {"recvM", "seed", "verify", "done"}
GotM == cpc \in {"seed", "verify", "done"}
Injective(c) == c \in [0 .. (K - 1) -> Indices] /\ IsInjective(c)
Knows ==
  /\ Opened => fault # "zk"
  /\ GotVole \/ cpc = "vpFinish" => fault # "vp"
  /\ GotVole => cl.o = Delivered
  /\ GotE => cl.e = SentE /\ \A i \in Indices : cl.e[i] # 0
  /\ GotC => Injective(cl.c)
  /\ ~ GotC /\ cpc # "aborted" => cl.c = <<>>
  /\ GotM => cl.m = MBody(Asked) /\ \A i \in 0 .. (K - 1) : Symbol(cl.m[i]) = cl.e[cl.c[i]]
  /\ DOMAIN cl = {"o", "e", "c", "m"}

\* The verdict of verify, and why an honest session fails.
Accepted ==
  /\ fault # "proof" /\ VoleConsistent /\ Constraints(wit, cl.m, Asked)
  /\ out = [e |-> cl.e, ePrime |-> [i \in 0 .. (LenEval - 1) |-> SymbolPrime(cl.o[i])], x |-> h]
Excused == (\E i \in Indices : (key + l(i)) % P = 0) \/ ZeroDrawn
Verdicts == /\ cpc = "done" => Accepted
            /\ cpc = "aborted" /\ fault = "none" => Excused

Data == (Witnessed => WitOk) /\ Bodies /\ Knows /\ Verdicts
IInv == Script /\ Rest /\ Data

\* Initially nothing is known.
LEMMA InitData == Init => IInv
<1> SUFFICES ASSUME Init PROVE IInv
  OBVIOUS
<1>1. Script
  BY DEF Init, Script, Setup, At, None
<1>2. Rest
  BY DEF Init, Rest
<1>3. Data
  BY DEF Init, Data, Witnessed, Bodies, Knows, Opened, GotVole, GotE, GotC, GotM, Verdicts
<1> QED
  BY <1>1, <1>2, <1>3 DEF IInv

\* A step that changes neither the session nor the witness changes nothing the server's
\* messages are made of.
LEMMA SameSession ==
  ASSUME UNCHANGED <<key, h, offsets, fault, wit>>
  PROVE  /\ WitOk' = WitOk /\ UvBody' = UvBody /\ Delivered' = Delivered /\ SentE' = SentE
         /\ \A c : MBody(c)' = MBody(c)
         /\ Excused' = Excused
         /\ (UNCHANGED cl => Asked' = Asked)
         /\ (UNCHANGED cl => VoleConsistent' = VoleConsistent)
         /\ (UNCHANGED cl => Constraints(wit, cl.m, Asked)' = Constraints(wit, cl.m, Asked))
         /\ (UNCHANGED cl /\ UNCHANGED out => Accepted' = Accepted)
BY DEF WitOk, Formed, UvBody, UOf, lPrime, l, Delivered, SentE, MBody, Answers, Excused, ZeroDrawn,
  Asked, VoleConsistent, Constraints, Accepted

\* An index fits the byte it is sent in.
LEMMA AskedSame ==
  ASSUME Injective(cl.c)
  PROVE  /\ \A i \in 0 .. (K - 1) : cl.c[i] \in Indices /\ Asked[i] = cl.c[i]
         /\ Asked = cl.c
<1>1. cl.c \in [0 .. (K - 1) -> Indices]
  BY DEF Injective
<1>2. \A j \in Indices : j % RADIX = j
  <2>1. RADIX \in Nat /\ LenCom <= RADIX /\ LenCom \in Nat
    BY LimbAssumption, OprfAssumption
  <2> QED
    BY <2>1, SMT DEF Indices
<1> QED
  BY <1>1, <1>2 DEF Asked

\* From data for 0 on, u' and v' deliver what the committed values say.
LEMMA HonestVole ==
  ASSUME fault # "uv", cl.o = Delivered
  PROVE  VoleConsistent
BY DEF VoleConsistent, Delivered, UvBody

\* The reasons of an honest abort, check by check.
LEMMA ZeroSymbol ==
  ASSUME Rest, WitOk, fault = "none", NEW i \in Indices, SentE[i] = 0
  PROVE  Excused
<1>1. SentE[i] = Symbol(key + l(i))
  BY DEF SentE, WitOk, Formed, Indices
<1>2. key + l(i) \in Int
  BY SessionValues
<1>3. Red(key + l(i)) = 0
  <2> DEFINE x == key + l(i)
  <2>1. x \in Int /\ Symbol(x) = 0
    BY <1>1, <1>2
  <2> HIDE DEF x
  <2> QED
    BY <2>1, SymbolFacts DEF x
<1> QED
  BY <1>3 DEF Red, Excused

\* An honest answer fails its symbol only if its b is zero,
LEMMA WrongAnswer ==
  ASSUME Rest, WitOk, fault = "none", Injective(cl.c), cl.e = SentE, NEW i \in 0 .. (K - 1),
         Symbol(MBody(Asked)[i]) # cl.e[cl.c[i]]
  PROVE  wit.b[i] = 0
<1> DEFINE j == cl.c[i]
           x == key + l(j)
<1>1. j \in Indices /\ Asked[i] = j
  BY AskedSame
<1>2. MBody(Asked)[i] = (wit.b[i] * x) % P
  BY <1>1 DEF MBody, Answers
<1>3. cl.e[j] = Symbol(x)
  BY <1>1 DEF SentE, WitOk, Formed, Indices
<1>4. x \in Int
  BY <1>1, SessionValues
<1> DEFINE b == wit.b[i]
<1>5. b \in EpsPowers
  BY DEF WitOk
<1> HIDE DEF x, b
<1>6. b # 0 => Symbol((b * x) % P) = Symbol(x)
  BY <1>4, <1>5, AnswerSymbol
<1> QED
  BY <1>2, <1>3, <1>6 DEF b

\* and an honest proof fails only if a v is zero.
LEMMA WrongProof ==
  ASSUME WitOk, fault = "none", cl.m = MBody(Asked), ~ Constraints(wit, cl.m, Asked)
  PROVE  \E i \in 0 .. (LenEval - 1) : wit.v[i] = 0
<1> SUFFICES ASSUME \A i \in 0 .. (LenEval - 1) : wit.v[i] # 0
             PROVE  FALSE
  OBVIOUS
<1>1. \A i \in 0 .. (K - 1) : cl.m[i] = (wit.b[i] * (key + l(Asked[i]))) % P
  BY DEF MBody, Answers
<1>2. Formed(wit, wit.v, wit.b) /\ wit.v \in [0 .. (LenEval - 1) -> EpsPowers]
  BY DEF WitOk
<1> DEFINE v == wit.v
           b == wit.b
           m == cl.m
           c == Asked
<1>3. /\ \A i \in 0 .. (K - 1) : m[i] = (b[i] * (key + l(c[i]))) % P
      /\ \A i \in 0 .. (LenEval - 1) : v[i] # 0
      /\ Formed(wit, v, b) /\ v \in [0 .. (LenEval - 1) -> EpsPowers]
      /\ ~ Constraints(wit, m, c)
  BY <1>1, <1>2
<1> HIDE DEF v, b, m, c
<1>4. Constraints(wit, m, c)
  BY <1>3, WitnessRight
<1> QED
  BY <1>3, <1>4

----------------------------------------------------------------------------
(* The steps.                                                              *)

\* The server's steps before the witness.
LEMMA EarlyServerStep ==
  ASSUME IInv, ServerBaseOt \/ ServerCtxt \/ ServerOtExt \/ ServerReject
  PROVE  Data'
<1>1. /\ cpc \in {"baseOt", "otExt", "pprf", "zkDerand"}
      /\ spc' \in {"ctxt", "otExt", "witness", "done"}
      /\ UNCHANGED <<cpc, cl>>
  BY DEF ServerBaseOt, ServerCtxt, ServerOtExt, ServerReject, ServerLocal,
     IInv, Script, Setup, Commit, Vole, Prove, Aborted, At
<1>2. ~ Witnessed' /\ Bodies' /\ Verdicts'
  BY <1>1 DEF Witnessed, Bodies, Verdicts
<1>3. Knows'
  BY <1>1 DEF Knows, Opened, GotVole, GotE, GotC, GotM, IInv, Data
<1> QED
  BY <1>2, <1>3 DEF Data

\* The witness.
LEMMA CommitStep ==
  ASSUME IInv, ServerCommit
  PROVE  Data'
<1>1. /\ cpc \in {"pprf", "zkDerand"}
      /\ UNCHANGED <<cpc, cl, key, offsets>>
  BY DEF ServerCommit, ServerLocal, IInv, Script, Setup, Commit, Vole, Prove, Aborted, At
<1>2. Bodies' /\ Verdicts'
  BY <1>1 DEF Bodies, Verdicts
<1>3. Knows'
  BY <1>1 DEF Knows, Opened, GotVole, GotE, GotC, GotM, IInv, Data
<1>4. WitOk'
  <2>1. PICK v \in [0 .. (LenEval - 1) -> EpsPowers], b \in [0 .. (K - 1) -> EpsPowers] :
          wit' = Witness(v, b)
    BY DEF ServerCommit
  <2>2. Formed(wit', v, b)
    BY <2>1, DrawnRow, WitnessForm
  <2>3. wit'.v = v /\ wit'.b = b
    BY <2>2 DEF Formed
  <2>4. Formed(wit, wit.v, wit.b)'
    BY <1>1, <2>2, <2>3 DEF Formed, l
  <2> QED
    BY <2>1, <2>3, <2>4 DEF WitOk
<1> QED
  BY <1>2, <1>3, <1>4 DEF Data

\* The server's other steps change nothing but its place and the queues.
LEMMA ServerSame ==
  ASSUME IInv, ServerStep, ~ ServerCommit
  PROVE  /\ UNCHANGED <<key, h, offsets, fault, wit, cpc, cl, out>>
         /\ (WitOk => WitOk') /\ (Verdicts => Verdicts')
<1>1. UNCHANGED <<key, h, offsets, fault, wit, cpc, cl, out>>
  BY DEF ServerStep, ServerLocal,
     ServerBaseOt, ServerCtxt, ServerOtExt, ServerReject, ServerCommitReply,
     ServerVpDerand, ServerVpCheck, ServerVpReply, ServerSendE, ServerSendM, ServerProve,
     ServerReturn
<1>2. Accepted' = Accepted /\ Excused' = Excused /\ WitOk' = WitOk
  BY <1>1, SameSession
<1> QED
  BY <1>1, <1>2 DEF Verdicts

\* The commitment's check value says whether the commitment is honest.
LEMMA ServerCommitReplyStep ==
  ASSUME IInv, ServerCommitReply
  PROVE  Data'
<1>1. /\ cpc = "zkCheck" /\ spc = "zkSeed" /\ spc' = "vpDerand" /\ None(s2c)
      /\ s2c' = Append(s2c, Msg("cuv", fault # "zk"))
  BY DEF ServerCommitReply, FromClient, ToClient, None, IInv, Script, Setup, Commit, Vole, Prove, Aborted, At
<1>2. /\ UNCHANGED <<key, h, offsets, fault, wit, cpc, cl, out>>
      /\ (WitOk => WitOk') /\ (Verdicts => Verdicts')
  BY ServerSame, <1>1 DEF ServerStep, ServerCommit
<1>3. s2c'[1].body = (fault # "zk")
  BY <1>1, SentBody
<1>4. Bodies'
  BY <1>1, <1>2, <1>3 DEF Bodies
<1>5. Knows'
  BY <1>1, <1>2 DEF Knows, Opened, GotVole, GotE, GotC, GotM, IInv, Data
<1> QED
  BY <1>1, <1>2, <1>4, <1>5 DEF Data, IInv, Witnessed

\* Derandomizing VOLE+ sends nothing the client keeps.
LEMMA ServerVpDerandStep ==
  ASSUME IInv, ServerVpDerand
  PROVE  Data'
<1>1. /\ cpc \in {"zkCheck", "vpDerand", "aborted"} /\ spc = "vpDerand" /\ spc' = "gamma"
      /\ s2c' = Append(s2c, Msg("vpDerand", fault # "vp"))
      /\ cpc = "zkCheck" => One(s2c, "cuv")
  BY DEF ServerVpDerand, ToClient, IInv, Script, Setup, Commit, Vole, Prove, Aborted, At
<1>2. /\ UNCHANGED <<key, h, offsets, fault, wit, cpc, cl, out>>
      /\ (WitOk => WitOk') /\ (Verdicts => Verdicts')
  BY ServerSame, <1>1 DEF ServerStep, ServerCommit
<1>3. cpc = "zkCheck" => s2c'[1] = s2c[1] /\ s2c # <<>>
  BY <1>1, SentBody, TakeOne
<1>4. Bodies'
  BY <1>1, <1>2, <1>3 DEF Bodies, IInv, Data
<1>5. Knows'
  BY <1>1, <1>2 DEF Knows, Opened, GotVole, GotE, GotC, GotM, IInv, Data
<1> QED
  BY <1>1, <1>2, <1>4, <1>5 DEF Data, IInv, Witnessed

\* VOLE+'s check value says whether it was honest.
LEMMA ServerVpCheckStep ==
  ASSUME IInv, ServerVpCheck
  PROVE  Data'
<1>1. /\ cpc = "vpCheck" /\ spc = "gamma" /\ spc' = "lambda" /\ None(s2c)
      /\ s2c' = Append(s2c, Msg("check", fault # "vp"))
  BY DEF ServerVpCheck, FromClient, ToClient, None, IInv, Script, Setup, Commit, Vole, Prove, Aborted, At
<1>2. /\ UNCHANGED <<key, h, offsets, fault, wit, cpc, cl, out>>
      /\ (WitOk => WitOk') /\ (Verdicts => Verdicts')
  BY ServerSame, <1>1 DEF ServerStep, ServerCommit
<1>3. s2c'[1].body = (fault # "vp")
  BY <1>1, SentBody
<1>4. Bodies'
  BY <1>1, <1>2, <1>3 DEF Bodies
<1>5. Knows'
  BY <1>1, <1>2 DEF Knows, Opened, GotVole, GotE, GotC, GotM, IInv, Data
<1> QED
  BY <1>1, <1>2, <1>4, <1>5 DEF Data, IInv, Witnessed

\* u' and v' are those of the witness.
LEMMA ServerVpReplyStep ==
  ASSUME IInv, ServerVpReply
  PROVE  Data'
<1>1. /\ cpc = "vpFinish" /\ spc = "lambda" /\ spc' = "sendE" /\ None(s2c)
      /\ s2c' = Append(s2c, Msg("uv", UvBody))
  BY DEF ServerVpReply, UvBody, FromClient, ToClient, None, IInv, Script, Setup, Commit, Vole, Prove, Aborted, At
<1>2. /\ UNCHANGED <<key, h, offsets, fault, wit, cpc, cl, out>>
      /\ (WitOk => WitOk') /\ (Verdicts => Verdicts')
  BY ServerSame, <1>1 DEF ServerStep, ServerCommit
<1>3. s2c'[1].body = UvBody /\ UvBody' = UvBody
  BY <1>1, <1>2, SentBody, SameSession
<1>4. Bodies'
  BY <1>1, <1>2, <1>3 DEF Bodies
<1>5. Knows'
  BY <1>1, <1>2 DEF Knows, Opened, GotVole, GotE, GotC, GotM, IInv, Data
<1> QED
  BY <1>1, <1>2, <1>4, <1>5 DEF Data, IInv, Witnessed

\* The symbols join what is on its way.
LEMMA ServerSendEStep ==
  ASSUME IInv, ServerSendE
  PROVE  Data'
<1>1. /\ spc = "sendE" /\ spc' = "recvC"
      /\ s2c' = Append(s2c, Msg("e", SentE))
      /\ \/ cpc = "vpFinish" /\ One(s2c, "uv")
         \/ cpc = "recvE" /\ None(s2c)
  BY DEF ServerSendE, ToClient, IInv, Script, Setup, Commit, Vole, Prove, Aborted, At
<1>2. /\ UNCHANGED <<key, h, offsets, fault, wit, cpc, cl, out>>
      /\ (WitOk => WitOk') /\ (Verdicts => Verdicts')
  BY ServerSame, <1>1 DEF ServerStep, ServerCommit
<1>3. UvBody' = UvBody /\ SentE' = SentE /\ Delivered' = Delivered
  BY <1>2, SameSession
<1>4. Bodies'
  <2>1. CASE cpc = "vpFinish"
    <3>1. s2c'[1] = s2c[1] /\ s2c # <<>> /\ s2c'[2].body = SentE
      BY <1>1, <2>1, SentBody, TakeOne
    <3> QED
      BY <1>1, <1>2, <1>3, <2>1, <3>1 DEF Bodies, IInv, Data
  <2>2. CASE cpc = "recvE"
    <3>1. s2c'[1].body = SentE
      BY <1>1, <2>2, SentBody
    <3> QED
      BY <1>1, <1>2, <1>3, <2>2, <3>1 DEF Bodies
  <2> QED
    BY <1>1, <2>1, <2>2
<1>5. Knows'
  BY <1>1, <1>2, <1>3 DEF Knows, Opened, GotVole, GotE, GotC, GotM, IInv, Data
<1> QED
  BY <1>1, <1>2, <1>4, <1>5 DEF Data, IInv, Witnessed

\* The answers are those to the challenge the client drew.
LEMMA ServerSendMStep ==
  ASSUME IInv, ServerSendM
  PROVE  Data'
<1>1. /\ spc = "recvC" /\ spc' = "zkProve" /\ cpc = "recvM" /\ One(c2s, "c") /\ None(s2c)
  BY TakeOne DEF ServerSendM, FromClient, None, IInv, Script, Setup, Commit, Vole, Prove, Aborted, At
<1>2. /\ UNCHANGED <<key, h, offsets, fault, wit, cpc, cl, out>>
      /\ (WitOk => WitOk') /\ (Verdicts => Verdicts')
  BY ServerSame, <1>1 DEF ServerStep, ServerCommit
<1>3. Head(c2s).body = Asked
  BY <1>1, TakenBody DEF Bodies, IInv, Data
<1>4. s2c' = Append(s2c, Msg("m", MBody(Asked)))
  BY <1>3 DEF ServerSendM, ToClient, MBody, Answers
<1>5. /\ Asked' = Asked /\ MBody(Asked)' = MBody(Asked) /\ SentE' = SentE /\ Delivered' = Delivered
  <2>1. Asked' = Asked /\ SentE' = SentE /\ Delivered' = Delivered
    BY <1>2, SameSession
  <2>2. MBody(Asked)' = MBody(Asked)
    BY <1>2, <2>1 DEF MBody, Answers, l
  <2> QED
    BY <2>1, <2>2
<1>6. s2c'[1].body = MBody(Asked)
  BY <1>1, <1>4, SentBody
<1>7. Bodies'
  BY <1>1, <1>2, <1>5, <1>6 DEF Bodies
<1>8. Knows'
  BY <1>1, <1>2, <1>5 DEF Knows, Opened, GotVole, GotE, GotC, GotM, IInv, Data
<1> QED
  BY <1>1, <1>2, <1>7, <1>8 DEF Data, IInv, Witnessed

\* The proof's coefficients say whether the proof is honest, and the return sends nothing.
LEMMA ServerLastSteps ==
  ASSUME IInv, ServerProve \/ ServerReturn
  PROVE  Data'
<1>1. /\ cpc \in {"verify", "done", "aborted"} /\ spc \in {"zkProve", "flush"} /\ spc' \in {"flush", "done"}
  BY TakeOne DEF ServerProve, ServerReturn, FromClient, None, IInv, Script, Setup, Commit, Vole, Prove, Aborted, At
<1>2. /\ UNCHANGED <<key, h, offsets, fault, wit, cpc, cl, out>>
      /\ (WitOk => WitOk') /\ (Verdicts => Verdicts')
  BY ServerSame, <1>1 DEF ServerStep, ServerCommit
<1>3. Asked' = Asked /\ MBody(Asked)' = MBody(Asked) /\ SentE' = SentE /\ Delivered' = Delivered
  <2>1. Asked' = Asked /\ SentE' = SentE /\ Delivered' = Delivered
    BY <1>2, SameSession
  <2>2. MBody(Asked)' = MBody(Asked)
    BY <1>2, <2>1 DEF MBody, Answers, l
  <2> QED
    BY <2>1, <2>2
<1>4. cpc = "verify" => s2c'[1].body = (fault # "proof")
  <2>1. CASE ServerProve
    <3>1. cpc = "verify" => None(s2c) /\ s2c' = Append(s2c, Msg("coefs", fault # "proof"))
      BY <2>1 DEF ServerProve, ToClient, IInv, Script, Setup, Commit, Vole, Prove, Aborted, At
    <3> QED
      BY <3>1, SentBody
  <2>2. CASE ServerReturn
    <3>1. cpc = "verify" => One(s2c, "coefs") /\ s2c' = s2c
      BY <2>2 DEF ServerReturn, IInv, Script, Setup, Commit, Vole, Prove, Aborted, At
    <3> QED
      BY <3>1, TakeOne DEF Bodies, IInv, Data
  <2> QED
    BY <2>1, <2>2
<1>5. Bodies'
  BY <1>1, <1>2, <1>4 DEF Bodies
<1>6. Knows'
  BY <1>1, <1>2, <1>3 DEF Knows, Opened, GotVole, GotE, GotC, GotM, IInv, Data
<1> QED
  BY <1>1, <1>2, <1>5, <1>6 DEF Data, IInv, Witnessed

\* The client's steps change nothing of the session and the server.
LEMMA ClientSame ==
  ASSUME IInv, ClientStep
  PROVE  /\ UNCHANGED <<key, h, offsets, fault, wit, spc>>
         /\ (WitOk => WitOk') /\ UvBody' = UvBody /\ Delivered' = Delivered /\ SentE' = SentE
         /\ Excused' = Excused
<1>1. UNCHANGED <<key, h, offsets, fault, wit, spc>>
  BY DEF ClientStep, ClientLocal,
      ClientBaseOt, ClientOtExt, ClientExpand, ClientCommitDerand, ClientCommitCheck,
      ClientVpDerand, ClientVpCheck, ClientVpCheckFails, ClientVpFinish, ClientRecvE,
      ClientChallenge, ClientRecvM, ClientSendSeed, ClientVerify
<1> QED
  BY <1>1, SameSession

\* Until the commitment the client learns nothing.
LEMMA EarlyClientStep ==
  ASSUME IInv, ClientBaseOt \/ ClientOtExt \/ ClientExpand
  PROVE  Data'
<1>1. /\ cpc' \in {"otExt", "pprf", "zkDerand"} /\ cl' = cl
      /\ cpc \in {"baseOt", "otExt", "pprf"}
  BY DEF ClientBaseOt, ClientOtExt, ClientExpand
<1>2. UNCHANGED <<key, h, offsets, fault, wit, spc>> /\ (WitOk => WitOk')
  BY ClientSame DEF ClientStep
<1>3. Bodies' /\ Verdicts'
  BY <1>1 DEF Bodies, Verdicts
<1>4. Knows'
  BY <1>1 DEF Knows, Opened, GotVole, GotE, GotC, GotM, IInv, Data
<1> QED
  BY <1>1, <1>2, <1>3, <1>4 DEF Data, IInv, Witnessed

\* The opening of the commitment: a failed one aborts, and only a corrupted one fails.
LEMMA ClientCommitStep ==
  ASSUME IInv, ClientCommitDerand \/ ClientCommitCheck
  PROVE  Data'
<1>1. /\ cl' = cl /\ cpc' \in {"zkCheck", "vpDerand", "aborted"}
      /\ cpc \in {"zkDerand", "zkCheck"} /\ spc \in {"zkSeed", "vpDerand", "gamma"}
      /\ cpc' = "zkCheck" => s2c' = <<>>
  BY TakeOne, TakeTwo
  DEF ClientCommitDerand, ClientCommitCheck, FromServer, None, IInv, Script, Setup, Commit, Vole, Prove, Aborted, At
<1>2. UNCHANGED <<key, h, offsets, fault, wit, spc>> /\ (WitOk => WitOk')
  BY ClientSame DEF ClientStep
<1>3. /\ cpc' = "vpDerand" => fault # "zk"
      /\ cpc' = "aborted" => fault = "zk"
  <2>1. CASE ClientCommitDerand
    BY <2>1 DEF ClientCommitDerand
  <2>2. CASE ClientCommitCheck
    <3>1. cpc = "zkCheck" /\ s2c # <<>> /\ cpc' = IF Head(s2c).body THEN "vpDerand" ELSE "aborted"
      BY <2>2 DEF ClientCommitCheck, FromServer
    <3>2. One(s2c, "cuv") \/ Two(s2c, "cuv", "vpDerand")
      BY <3>1 DEF None, IInv, Script, Setup, Commit, Vole, Prove, Aborted, At
    <3>3. Head(s2c) = s2c[1]
      BY <3>2, TakenBody
    <3>4. s2c[1].body = (fault # "zk")
      BY <3>1 DEF Bodies, IInv, Data
    <3> QED
      BY <3>1, <3>3, <3>4
  <2> QED
    BY <2>1, <2>2
<1>4. Bodies' /\ Verdicts'
  BY <1>1, <1>2, <1>3 DEF Bodies, Verdicts
<1>5. Knows'
  BY <1>1, <1>2, <1>3 DEF Knows, Opened, GotVole, GotE, GotC, GotM, IInv, Data
<1> QED
  BY <1>1, <1>2, <1>4, <1>5 DEF Data, IInv, Witnessed

\* VOLE+: after a failed check the client waits for e with nothing delivered.
LEMMA ClientVpStep ==
  ASSUME IInv, ClientVpDerand \/ ClientVpCheck \/ ClientVpCheckFails
  PROVE  Data'
<1>1. /\ cl' = cl
      /\ \/ cpc = "vpDerand" /\ cpc' = "vpCheck"
         \/ cpc = "vpCheck" /\ cpc' \in {"vpFinish", "recvE"}
      /\ s2c' = <<>>
      /\ spc \in {"gamma", "lambda"} /\ (cpc = "vpCheck" => spc = "lambda" /\ One(s2c, "check"))
  <2>1. /\ cl' = cl /\ s2c # <<>> /\ s2c' = Tail(s2c)
        /\ \/ cpc = "vpDerand" /\ cpc' = "vpCheck"
           \/ cpc = "vpCheck" /\ cpc' \in {"vpFinish", "recvE"}
    BY DEF ClientVpDerand, ClientVpCheck, ClientVpCheckFails, FromServer
  <2>2. \/ cpc = "vpDerand" /\ spc = "gamma" /\ One(s2c, "vpDerand")
        \/ cpc = "vpCheck" /\ spc = "lambda" /\ One(s2c, "check")
    BY <2>1 DEF None, IInv, Script, Setup, Commit, Vole, Prove, Aborted, At
  <2>3. s2c' = <<>>
    BY <2>1, <2>2, TakeOne DEF None
  <2> QED
    BY <2>1, <2>2, <2>3
<1>2. UNCHANGED <<key, h, offsets, fault, wit, spc>> /\ (WitOk => WitOk')
  BY ClientSame DEF ClientStep
<1>3. cpc' = "vpFinish" => fault # "vp"
  <2> SUFFICES ASSUME cpc' = "vpFinish" PROVE fault # "vp"
    OBVIOUS
  <2>1. cpc = "vpCheck" /\ Head(s2c).body /\ s2c # <<>>
    BY DEF ClientVpDerand, ClientVpCheck, ClientVpCheckFails, FromServer
  <2>2. Head(s2c) = s2c[1]
    BY <1>1, <2>1, TakenBody
  <2> QED
    BY <2>1, <2>2 DEF Bodies, IInv, Data
<1>4. Bodies' /\ Verdicts'
  BY <1>1, <1>2 DEF Bodies, Verdicts
<1>5. Knows'
  BY <1>1, <1>2, <1>3 DEF Knows, Opened, GotVole, GotE, GotC, GotM, IInv, Data
<1> QED
  BY <1>1, <1>2, <1>4, <1>5 DEF Data, IInv, Witnessed

\* VOLE+ delivers u + h v of what was sent.
LEMMA ClientVpFinishStep ==
  ASSUME IInv, ClientVpFinish
  PROVE  Data'
<1>1. /\ cpc = "vpFinish" /\ cpc' = "recvE" /\ spc \in {"sendE", "recvC"} /\ s2c # <<>>
      /\ spc = "sendE" => One(s2c, "uv")
      /\ spc = "recvC" => Two(s2c, "uv", "e")
      /\ s2c' = Tail(s2c)
  BY DEF ClientVpFinish, FromServer, None, IInv, Script, Setup, Commit, Vole, Prove, Aborted, At
<1>2. /\ UNCHANGED <<key, h, offsets, fault, wit, spc>> /\ (WitOk => WitOk')
      /\ Delivered' = Delivered /\ SentE' = SentE
  BY ClientSame DEF ClientStep
<1>3. Head(s2c).body = UvBody
  BY <1>1, TakenBody DEF Bodies, IInv, Data
<1>4. cl' = [cl EXCEPT !.o = Delivered]
  BY <1>3 DEF ClientVpFinish, Delivered
<1>5. DOMAIN cl = {"o", "e", "c", "m"} /\ cl.c = <<>> /\ fault # "zk" /\ fault # "vp"
  BY <1>1 DEF IInv, Data, Knows, Opened, GotVole, GotE, GotC, GotM
<1>6. cl'.o = Delivered /\ cl'.c = <<>> /\ DOMAIN cl' = {"o", "e", "c", "m"}
  <2> DEFINE d == Delivered
  <2>1. cl' = [cl EXCEPT !.o = d]
    BY <1>4
  <2> HIDE DEF d
  <2> QED
    BY <1>5, <2>1 DEF d
<1>7. spc = "recvC" => s2c'[1].body = SentE
  <2> SUFFICES ASSUME spc = "recvC" PROVE s2c'[1].body = SentE
    OBVIOUS
  <2>1. s2c'[1] = s2c[2]
    BY <1>1, TakenBody
  <2> QED
    BY <1>1, <2>1 DEF Bodies, IInv, Data
<1>8. Bodies' /\ Verdicts'
  BY <1>1, <1>2, <1>7 DEF Bodies, Verdicts
<1>9. Knows'
  BY <1>1, <1>2, <1>5, <1>6 DEF Knows, Opened, GotVole, GotE, GotC, GotM
<1> QED
  BY <1>1, <1>2, <1>8, <1>9 DEF Data, IInv, Witnessed

\* The symbols: a zero among them aborts.
LEMMA ClientRecvEStep ==
  ASSUME IInv, ClientRecvE
  PROVE  Data'
<1>1. /\ cpc = "recvE" /\ spc = "recvC" /\ One(s2c, "e") /\ s2c' = Tail(s2c)
      /\ cpc' \in {"challenge", "aborted"}
  BY DEF ClientRecvE, FromServer, None, IInv, Script, Setup, Commit, Vole, Prove, Aborted, At
<1>2. /\ UNCHANGED <<key, h, offsets, fault, wit, spc>> /\ (WitOk => WitOk')
      /\ Delivered' = Delivered /\ SentE' = SentE /\ Excused' = Excused
  BY ClientSame DEF ClientStep
<1>3. Head(s2c).body = SentE
  BY <1>1, TakenBody DEF Bodies, IInv, Data
<1>4. cl' = [cl EXCEPT !.e = SentE] /\ cpc' = IF \E i \in Indices : cl'.e[i] = 0 THEN "aborted" ELSE "challenge"
  BY <1>3 DEF ClientRecvE, Indices
<1>5. /\ DOMAIN cl = {"o", "e", "c", "m"} /\ cl.c = <<>> /\ fault # "zk" /\ fault # "vp"
      /\ cl.o = Delivered
  BY <1>1 DEF IInv, Data, Knows, Opened, GotVole, GotE, GotC, GotM
<1>6. cl'.o = Delivered /\ cl'.e = SentE /\ cl'.c = <<>> /\ DOMAIN cl' = {"o", "e", "c", "m"}
  <2> DEFINE d == SentE
  <2>1. cl' = [cl EXCEPT !.e = d]
    BY <1>4
  <2> HIDE DEF d
  <2> QED
    BY <1>5, <2>1 DEF d
<1>7. cpc' = "challenge" => \A i \in Indices : cl'.e[i] # 0
  BY <1>4
<1>8. cpc' = "aborted" /\ fault = "none" => Excused
  <2> SUFFICES ASSUME cpc' = "aborted", fault = "none" PROVE Excused
    OBVIOUS
  <2>1. PICK i \in Indices : SentE[i] = 0
    BY <1>4, <1>6
  <2>2. WitOk /\ Rest
    BY <1>1 DEF IInv, Data, Witnessed
  <2> QED
    BY <2>1, <2>2, ZeroSymbol
<1>9. Bodies' /\ Verdicts'
  BY <1>1, <1>2, <1>8 DEF Bodies, Verdicts
<1>10. Knows'
  BY <1>1, <1>2, <1>5, <1>6, <1>7 DEF Knows, Opened, GotVole, GotE, GotC, GotM
<1> QED
  BY <1>1, <1>2, <1>9, <1>10 DEF Data, IInv, Witnessed

\* The challenge: distinct positions.
LEMMA ClientChallengeStep ==
  ASSUME IInv, ClientChallenge
  PROVE  Data'
<1>1. cpc = "challenge" /\ cpc' = "recvM" /\ spc = "recvC" /\ None(c2s) /\ None(s2c) /\ s2c' = s2c
  BY DEF ClientChallenge, IInv, Script, Setup, Commit, Vole, Prove, Aborted, At
<1>2. /\ UNCHANGED <<key, h, offsets, fault, wit, spc>> /\ (WitOk => WitOk')
      /\ Delivered' = Delivered /\ SentE' = SentE
  BY ClientSame DEF ClientStep
<1>3. PICK c \in [0 .. (K - 1) -> Indices] :
        /\ IsInjective(c)
        /\ cl' = [cl EXCEPT !.c = c]
        /\ c2s' = Append(c2s, Msg("c", [i \in 0 .. (K - 1) |-> c[i] % RADIX]))
  BY DEF ClientChallenge, ToServer, Indices
<1>4. /\ DOMAIN cl = {"o", "e", "c", "m"} /\ fault # "zk" /\ fault # "vp"
      /\ cl.o = Delivered /\ cl.e = SentE /\ \A i \in Indices : cl.e[i] # 0
  BY <1>1 DEF IInv, Data, Knows, Opened, GotVole, GotE, GotC, GotM
<1>5. cl'.o = cl.o /\ cl'.e = cl.e /\ cl'.c = c /\ DOMAIN cl' = {"o", "e", "c", "m"}
  BY <1>3, <1>4
<1>6. c2s'[1].body = Asked'
  <2>1. c2s'[1].body = [i \in 0 .. (K - 1) |-> c[i] % RADIX]
    BY <1>1, <1>3, SentBody
  <2>2. Asked' = [i \in 0 .. (K - 1) |-> c[i] % RADIX]
    BY <1>5 DEF Asked
  <2> QED
    BY <2>1, <2>2
<1>7. Injective(cl'.c)
  BY <1>3, <1>5 DEF Injective
<1>8. Bodies' /\ Verdicts'
  BY <1>1, <1>2, <1>6 DEF Bodies, Verdicts
<1>9. Knows'
  BY <1>1, <1>2, <1>4, <1>5, <1>7 DEF Knows, Opened, GotVole, GotE, GotC, GotM, Injective, Indices
<1> QED
  BY <1>1, <1>2, <1>8, <1>9 DEF Data, IInv, Witnessed

\* The answers: one whose symbol is not the one received aborts.
LEMMA ClientRecvMStep ==
  ASSUME IInv, ClientRecvM
  PROVE  Data'
<1>1. /\ cpc = "recvM" /\ spc = "zkProve" /\ One(s2c, "m") /\ s2c' = Tail(s2c)
      /\ cpc' \in {"seed", "aborted"}
  BY DEF ClientRecvM, FromServer, None, IInv, Script, Setup, Commit, Vole, Prove, Aborted, At
<1>2. /\ UNCHANGED <<key, h, offsets, fault, wit, spc>> /\ (WitOk => WitOk')
      /\ Delivered' = Delivered /\ SentE' = SentE /\ Excused' = Excused
  BY ClientSame DEF ClientStep
<1>3. Head(s2c).body = MBody(Asked)
  BY <1>1, TakenBody DEF Bodies, IInv, Data
<1>4. /\ cl' = [cl EXCEPT !.m = MBody(Asked)]
      /\ cpc' = IF \E i \in 0 .. (K - 1) : Symbol(cl'.m[i]) /= cl.e[cl.c[i]] THEN "aborted" ELSE "seed"
  BY <1>3 DEF ClientRecvM
<1>5. /\ DOMAIN cl = {"o", "e", "c", "m"} /\ fault # "zk" /\ fault # "vp"
      /\ cl.o = Delivered /\ cl.e = SentE /\ (\A i \in Indices : cl.e[i] # 0) /\ Injective(cl.c)
  BY <1>1 DEF IInv, Data, Knows, Opened, GotVole, GotE, GotC, GotM
<1>6. cl'.o = cl.o /\ cl'.e = cl.e /\ cl'.c = cl.c /\ cl'.m = MBody(Asked) /\ DOMAIN cl' = {"o", "e", "c", "m"}
  <2> DEFINE d == MBody(Asked)
  <2>1. cl' = [cl EXCEPT !.m = d]
    BY <1>4
  <2> HIDE DEF d
  <2> QED
    BY <1>5, <2>1 DEF d
<1>7. MBody(Asked)' = MBody(Asked)
  <2>1. Asked' = Asked
    BY <1>6 DEF Asked
  <2> QED
    BY <1>2, <2>1 DEF MBody, Answers, l
<1>8. cpc' = "seed" => \A i \in 0 .. (K - 1) : Symbol(cl'.m[i]) = cl'.e[cl'.c[i]]
  <2>1. cpc' = "seed" => \A i \in 0 .. (K - 1) : Symbol(cl'.m[i]) = cl.e[cl.c[i]]
    BY <1>4
  <2> QED
    BY <1>6, <2>1
<1>9. cpc' = "aborted" /\ fault = "none" => Excused
  <2> SUFFICES ASSUME cpc' = "aborted", fault = "none" PROVE Excused
    OBVIOUS
  <2>1. PICK i \in 0 .. (K - 1) : Symbol(MBody(Asked)[i]) # cl.e[cl.c[i]]
    BY <1>4, <1>6
  <2>2. WitOk /\ Rest
    BY <1>1 DEF IInv, Data, Witnessed
  <2>3. wit.b[i] = 0
    BY <1>5, <2>1, <2>2, WrongAnswer
  <2> QED
    BY <2>2, <2>3 DEF Excused, ZeroDrawn, WitOk, Formed
<1>10. Bodies' /\ Verdicts'
  BY <1>1, <1>2, <1>9 DEF Bodies, Verdicts
<1>11. (\A i \in 0 .. (K - 1) : Symbol(cl.m[i]) = cl.e[cl.c[i]])'
         <=> \A i \in 0 .. (K - 1) : Symbol(cl'.m[i]) = cl'.e[cl'.c[i]]
  BY DEF Symbol
<1>12. Injective(cl.c)' /\ (\A i \in Indices : cl.e[i] # 0)'
  BY <1>5, <1>6 DEF Injective, Indices
<1>13. (GotM => cl.m = MBody(Asked) /\ \A i \in 0 .. (K - 1) : Symbol(cl.m[i]) = cl.e[cl.c[i]])'
  BY <1>1, <1>6, <1>7, <1>8, <1>11 DEF GotM
<1>14. Knows'
  BY <1>1, <1>2, <1>5, <1>6, <1>12, <1>13 DEF Knows, Opened, GotVole, GotE, GotC, GotM
<1> QED
  BY <1>1, <1>2, <1>10, <1>14 DEF Data, IInv, Witnessed

\* Sending the proof's seed teaches the client nothing.
LEMMA ClientSendSeedStep ==
  ASSUME IInv, ClientSendSeed
  PROVE  Data'
<1>1. cpc = "seed" /\ cpc' = "verify" /\ None(s2c) /\ UNCHANGED <<s2c, cl, out>>
  BY DEF ClientSendSeed, IInv, Script, Setup, Commit, Vole, Prove, Aborted, At
<1>2. /\ UNCHANGED <<key, h, offsets, fault, wit, spc>> /\ (WitOk => WitOk')
      /\ Delivered' = Delivered /\ SentE' = SentE
  BY ClientSame DEF ClientStep
<1>3. MBody(Asked)' = MBody(Asked)
  BY <1>1, <1>2 DEF MBody, Answers, l, Asked
<1>4. Bodies' /\ Verdicts'
  BY <1>1, <1>2 DEF Bodies, Verdicts, None
<1>5. Knows'
  BY <1>1, <1>2, <1>3 DEF Knows, Opened, GotVole, GotE, GotC, GotM, Injective, Indices, IInv, Data
<1> QED
  BY <1>1, <1>2, <1>4, <1>5 DEF Data, IInv, Witnessed

\* The proof: only a corrupted one, a corrupted u' or m, or a zero draw fails it.
LEMMA ClientVerifyStep ==
  ASSUME IInv, ClientVerify
  PROVE  Data'
<1>1. /\ cpc = "verify" /\ One(s2c, "coefs") /\ cl' = cl /\ s2c # <<>>
      /\ cpc' \in {"done", "aborted"}
  BY DEF ClientVerify, FromServer, None, IInv, Script, Setup, Commit, Vole, Prove, Aborted, At
<1>2. /\ UNCHANGED <<key, h, offsets, fault, wit, spc>> /\ (WitOk => WitOk')
      /\ Delivered' = Delivered /\ SentE' = SentE /\ Excused' = Excused
  BY ClientSame DEF ClientStep
<1>3. Head(s2c).body = (fault # "proof")
  BY <1>1, TakenBody DEF Bodies, IInv, Data
<1>4. /\ cpc' = "done" =>
           /\ fault # "proof" /\ VoleConsistent /\ Constraints(wit, cl.m, Asked)
           /\ out' = [e |-> cl.e, ePrime |-> [i \in 0 .. (LenEval - 1) |-> SymbolPrime(cl.o[i])], x |-> h]
      /\ cpc' = "aborted" => ~ (fault # "proof" /\ VoleConsistent /\ Constraints(wit, cl.m, Asked))
  BY <1>3 DEF ClientVerify, Asked
<1>5. cpc' = "done" => Accepted'
  <2> SUFFICES ASSUME cpc' = "done" PROVE Accepted'
    OBVIOUS
  <2>1. VoleConsistent' = VoleConsistent /\ Constraints(wit, cl.m, Asked)' = Constraints(wit, cl.m, Asked)
    BY <1>1, <1>2, SameSession
  <2>2. (\A i : SymbolPrime(cl.o[i])' = SymbolPrime(cl.o[i]))
    BY <1>1 DEF SymbolPrime, Symbol
  <2> QED
    BY <1>1, <1>2, <1>4, <2>1, <2>2 DEF Accepted
<1>6. cpc' = "aborted" /\ fault = "none" => Excused
  <2> SUFFICES ASSUME cpc' = "aborted", fault = "none" PROVE Excused
    OBVIOUS
  <2>1. WitOk /\ cl.o = Delivered /\ cl.m = MBody(Asked)
    BY <1>1 DEF IInv, Data, Witnessed, Knows, GotVole, GotM
  <2>2. VoleConsistent
    BY <2>1, HonestVole
  <2>3. ~ Constraints(wit, cl.m, Asked)
    BY <1>4, <2>2
  <2>4. \E i \in 0 .. (LenEval - 1) : wit.v[i] = 0
    BY <2>1, <2>3, WrongProof
  <2> QED
    BY <2>1, <2>4 DEF Excused, ZeroDrawn, WitOk, Formed
<1>7. Bodies' /\ Verdicts'
  BY <1>1, <1>2, <1>5, <1>6 DEF Bodies, Verdicts
<1>8. MBody(Asked)' = MBody(Asked)
  BY <1>1, <1>2 DEF MBody, Answers, l, Asked
<1>9. Knows'
  BY <1>1, <1>2, <1>8 DEF Knows, Opened, GotVole, GotE, GotC, GotM, Injective, Indices, IInv, Data
<1> QED
  BY <1>1, <1>2, <1>7, <1>9 DEF Data, IInv, Witnessed

\* Every step keeps the data invariant; main and stuttering change none of its variables.
LEMMA DataStep ==
  ASSUME IInv, [Next]_vars
  PROVE  Data'
<1>1. CASE ClientStep
  BY <1>1, EarlyClientStep, ClientCommitStep, ClientVpStep, ClientVpFinishStep, ClientRecvEStep,
     ClientChallengeStep, ClientRecvMStep, ClientSendSeedStep, ClientVerifyStep DEF ClientStep
<1>2. CASE ServerStep
  BY <1>2, EarlyServerStep, CommitStep, ServerCommitReplyStep, ServerVpDerandStep, ServerVpCheckStep,
     ServerVpReplyStep, ServerSendEStep, ServerSendMStep, ServerLastSteps DEF ServerStep
<1>3. CASE Report \/ UNCHANGED vars
  <2>1. UNCHANGED <<key, h, offsets, fault, wit, cpc, spc, c2s, s2c, cl, out>>
    BY <1>3 DEF Report, vars
  <2>2. /\ WitOk' = WitOk /\ UvBody' = UvBody /\ Delivered' = Delivered /\ SentE' = SentE
        /\ Excused' = Excused /\ Asked' = Asked /\ Accepted' = Accepted
    BY <2>1, SameSession
  <2>3. MBody(Asked)' = MBody(Asked)
    BY <2>1 DEF MBody, Answers, l, Asked
  <2>4. Bodies' /\ Verdicts'
    BY <2>1, <2>2, <2>3 DEF Bodies, Verdicts, IInv, Data
  <2>5. Knows'
    BY <2>1, <2>2, <2>3 DEF Knows, Opened, GotVole, GotE, GotC, GotM, Injective, Indices, IInv, Data
  <2> QED
    BY <2>1, <2>2, <2>4, <2>5 DEF Data, IInv, Witnessed
<1> QED
  BY <1>1, <1>2, <1>3 DEF Next

\* The session's invariant.
THEOREM IInvHolds == Spec => []IInv
<1>1. Init => IInv
  BY InitData
<1>2. IInv /\ [Next]_vars => IInv'
  <2> SUFFICES ASSUME IInv, [Next]_vars PROVE IInv'
    OBVIOUS
  <2>1. Data'
    BY DataStep
  <2>2. Script'
    BY ScriptStep DEF IInv
  <2>3. Rest'
    BY RestStep DEF IInv
  <2> QED
    BY <2>1, <2>2, <2>3 DEF IInv
<1> QED
  BY <1>1, <1>2, PTL DEF Spec

----------------------------------------------------------------------------
(* What follows.                                                           *)

\* An accepted session drew no zero.
LEMMA DoneFacts ==
  ASSUME IInv, cpc = "done"
  PROVE  /\ WitOk /\ Accepted
         /\ fault # "zk" /\ fault # "vp" /\ cl.o = Delivered /\ cl.e = SentE
         /\ (\A i \in Indices : cl.e[i] # 0) /\ Injective(cl.c) /\ cl.m = MBody(Asked)
         /\ \A i \in 0 .. (K - 1) : Symbol(cl.m[i]) = cl.e[cl.c[i]]
         /\ \A i \in 0 .. (LenEval - 1) : wit.v[i] \in EpsPowers /\ wit.v[i] # 0
<1>1. /\ WitOk /\ Accepted
      /\ fault # "zk" /\ fault # "vp" /\ cl.o = Delivered /\ cl.e = SentE
      /\ (\A i \in Indices : cl.e[i] # 0) /\ Injective(cl.c) /\ cl.m = MBody(Asked)
      /\ \A i \in 0 .. (K - 1) : Symbol(cl.m[i]) = cl.e[cl.c[i]]
  BY DEF IInv, Data, Witnessed, Knows, Opened, GotVole, GotE, GotC, GotM, Verdicts
<1> DEFINE v == wit.v
           b == wit.b
           m == cl.m
           c == Asked
<1>2. Formed(wit, v, b) /\ v \in [0 .. (LenEval - 1) -> EpsPowers] /\ Constraints(wit, m, c)
  BY <1>1 DEF WitOk, Accepted
<1> HIDE DEF v, b, m, c
<1>3. \A i \in 0 .. (LenEval - 1) : v[i] # 0
  BY <1>2, NoZeroDrawn
<1> QED
  BY <1>1, <1>2, <1>3 DEF v

\* A corrupted u' is seen by the proof's check of the VOLE+ output.
LEMMA UvCaught ==
  ASSUME Rest, WitOk, fault = "uv", cl.o = Delivered, VoleConsistent
  PROVE  FALSE
<1>1. 0 \in 0 .. (LenEval - 1)
  BY OprfAssumption DEF LenEval
<1> DEFINE u == UOf(wit.v)
           y == h * wit.v[0]
<1>2. u[0] \in F /\ DOMAIN u = 0 .. (LenEval - 1)
  <2>1. DOMAIN u = 0 .. (LenEval - 1) /\ u[0] = ((key + lPrime(0)) * wit.v[0]) % P
    BY <1>1 DEF UOf
  <2>2. key + lPrime(0) \in Int /\ wit.v[0] \in Int
    <3>1. key \in Int /\ lPrime(0) \in Int
      BY <1>1, SessionValues
    <3>2. wit.v[0] \in EpsPowers
      BY <1>1 DEF WitOk
    <3>3. wit.v[0] \in F
      BY <3>2, EpsPower
    <3>4. wit.v[0] \in Int
      BY <3>3, RedFacts
    <3> QED
      BY <3>1, <3>4
  <2> DEFINE k == key + lPrime(0)
             v == wit.v[0]
  <2>3. k \in Int /\ v \in Int
    BY <2>2
  <2> HIDE DEF k, v
  <2>4. (k * v) % P \in F
    BY <2>3, TimesRed DEF Times
  <2> QED
    BY <2>1, <2>4 DEF k, v
<1>3. y \in Int
  <2>1. h \in Int /\ wit.v[0] \in Int
    BY <1>1, SessionValues, EpsPower, RedFacts DEF WitOk
  <2> QED
    BY <2>1
<1>4. UvBody.u[0] = (u[0] + 1) % P /\ UvBody.v = wit.v
  <2> HIDE DEF u
  <2>1. [u EXCEPT ![0] = (@ + 1) % P][0] = (u[0] + 1) % P
    BY <1>1, <1>2
  <2> QED
    BY <2>1 DEF UvBody, u
<1>5. Delivered[0] = (((u[0] + 1) % P) + y) % P
  BY <1>1, <1>4 DEF Delivered
<1>6. cl.o[0] = (u[0] + y) % P
  BY <1>1 DEF VoleConsistent
<1> DEFINE x == u[0]
<1>7. x \in F /\ (((x + 1) % P) + y) % P = (x + y) % P
  BY <1>2, <1>5, <1>6
<1> HIDE DEF x, y
<1> QED
  BY <1>3, <1>7, OffByOne

\* A corrupted m is seen by the proof, or by the symbol of a zero answer.
LEMMA MCaught ==
  ASSUME IInv, cpc = "done", fault = "m"
  PROVE  FALSE
<1>0. 0 \in 0 .. (K - 1)
  BY OprfAssumption
<1>1. /\ WitOk /\ cl.m = MBody(Asked) /\ Constraints(wit, cl.m, Asked)
      /\ Symbol(cl.m[0]) = cl.e[cl.c[0]]
      /\ (\A i \in Indices : cl.e[i] # 0) /\ cl.c[0] \in Indices /\ Asked[0] \in Indices
  BY <1>0, DoneFacts, AskedSame DEF Accepted
<1> DEFINE x == (wit.b[0] * (key + l(Asked[0]))) % P
<1>2. x \in F
  <2>1. key + l(Asked[0]) \in Int /\ wit.b[0] \in EpsPowers
    <3>1. Rest
      BY DEF IInv
    <3>2. key \in Int /\ l(Asked[0]) \in Int
      BY <1>1, <3>1, SessionValues
    <3>3. wit.b[0] \in EpsPowers
      BY <1>0, <1>1 DEF WitOk
    <3> QED
      BY <3>2, <3>3
  <2> DEFINE k == key + l(Asked[0])
             b == wit.b[0]
  <2>2. k \in Int /\ b \in EpsPowers
    BY <2>1
  <2> HIDE DEF k, b
  <2>3. b \in Int
    BY <2>2, EpsPower, RedFacts
  <2>4. Times(b, k) \in F
    BY <2>2, <2>3, TimesRed
  <2> QED
    BY <2>4 DEF k, b, Times
<1>3. cl.m[0] = x
  BY <1>0, <1>1 DEF Constraints
<1>4. cl.m[0] = (x * Pow(3, EPS)) % P
  <2> DEFINE a == Answers(Asked)
  <2>1. a[0] = x /\ DOMAIN a = 0 .. (K - 1)
    BY <1>0 DEF Answers
  <2> HIDE DEF a, x
  <2>2. [a EXCEPT ![0] = (@ * Pow(3, EPS)) % P][0] = (x * Pow(3, EPS)) % P
    BY <1>0, <2>1
  <2> QED
    BY <1>1, <2>2 DEF MBody, a
<1> HIDE DEF x
<1>5. x = 0
  BY <1>2, <1>3, <1>4, OffByPower
<1>6. Symbol(0) = 0
  BY SymbolFacts, RedFacts
<1> QED
  BY <1>1, <1>3, <1>5, <1>6

\* A zero symbol is seen when the symbols arrive.
LEMMA ZeroCaught ==
  ASSUME WitOk, fault = "eZero", cl.e = SentE, \A i \in Indices : cl.e[i] # 0
  PROVE  FALSE
<1>1. 0 \in Indices
  BY OprfAssumption DEF Indices
<1>2. DOMAIN wit.e = Indices
  BY DEF WitOk, Formed, Indices
<1>3. SentE[0] = 0
  BY <1>1, <1>2 DEF SentE
<1> QED
  BY <1>1, <1>3

\* A session with a corrupted server message never ends with a PRF value.
THEOREM CheatIsCaught == Spec => []CheatCaught
<1>1. IInv => CheatCaught
  <2> SUFFICES ASSUME IInv, cpc = "done", fault \notin {"none", "eWrong"}
               PROVE  FALSE
    BY DEF CheatCaught
  <2>1. fault \in {"zk", "vp", "uv", "eZero", "m", "proof"}
    BY OprfAssumption DEF IInv, Rest
  <2>2. fault # "zk" /\ fault # "vp" /\ fault # "proof"
    BY DoneFacts DEF Accepted
  <2>3. fault # "uv"
    BY DoneFacts, UvCaught DEF Accepted, IInv
  <2>4. fault # "m"
    BY MCaught
  <2>5. fault # "eZero"
    BY DoneFacts, ZeroCaught
  <2> QED
    BY <2>1, <2>2, <2>3, <2>4, <2>5
<1> QED
  BY <1>1, IInvHolds, PTL

\* An honest session fails only for a key that is the negative of an offset or a zero draw.
THEOREM HonestAbortsExcused == Spec => []HonestAbortReasons
<1>1. IInv => HonestAbortReasons
  BY DEF IInv, Data, Verdicts, Excused, HonestAbortReasons
<1> QED
  BY <1>1, IInvHolds, PTL

\* The symbols of an accepted session at the challenged positions.
LEMMA ChallengedSymbol ==
  ASSUME IInv, cpc = "done", NEW i \in 0 .. (K - 1)
  PROVE  out.e[cl.c[i]] = PrfE[cl.c[i]]
<1> DEFINE j == cl.c[i]
           b == wit.b[i]
           x == key + l(j)
<1>1. /\ out.e = cl.e /\ WitOk /\ Constraints(wit, cl.m, Asked) /\ Symbol(cl.m[i]) = cl.e[j]
      /\ (\A n \in Indices : cl.e[n] # 0) /\ Injective(cl.c) /\ Rest
  BY DoneFacts DEF Accepted, IInv
<1>2. j \in Indices /\ Asked[i] = j
  BY <1>1, AskedSame
<1>3. x \in Int
  BY <1>1, <1>2, SessionValues
<1>4. b \in EpsPowers
  BY <1>1 DEF WitOk
<1>5. cl.m[i] = (b * x) % P
  BY <1>1, <1>2 DEF Constraints
<1>6. PrfE[j] = Symbol(x)
  BY <1>2 DEF PrfE
<1> HIDE DEF j, b, x
<1>7. /\ b # 0 => Symbol((b * x) % P) = Symbol(x)
      /\ b = 0 => Symbol((b * x) % P) = 0
  BY <1>3, <1>4, AnswerSymbol
<1>8. cl.e[j] # 0
  BY <1>1, <1>2
<1>9. out.e[j] = PrfE[j]
  BY <1>1, <1>5, <1>6, <1>7, <1>8
<1> QED
  BY <1>9 DEF j

\* So eval returns true only with the key's symbols at the challenged positions.
LEMMA ChallengedSymbols == IInv => ChallengedRight
BY ChallengedSymbol DEF ChallengedRight

\* Everywhere, if the server sent its own.
LEMMA OwnSymbols ==
  ASSUME IInv, cpc = "done"
  PROVE  DOMAIN out.e = Indices /\ (fault # "eWrong" => out.e = PrfE)
<1>1. out.e = SentE /\ WitOk /\ cl.e = SentE /\ \A i \in Indices : cl.e[i] # 0
  BY DoneFacts DEF Accepted
<1>2. fault # "eZero"
  BY <1>1, ZeroCaught
<1>3. wit.e = PrfE
  BY <1>1 DEF WitOk, Formed, PrfE, Indices
<1>4. DOMAIN PrfE = Indices
  BY DEF PrfE
<1> HIDE DEF PrfE
<1>5. DOMAIN SentE = Indices
  BY <1>3, <1>4 DEF SentE
<1>6. fault # "eWrong" => SentE = PrfE
  BY <1>2, <1>3 DEF SentE
<1> QED
  BY <1>1, <1>5, <1>6

\* And the symbols of the VOLE+ output are the PRF's.
LEMMA OutputSymbols ==
  ASSUME IInv, cpc = "done"
  PROVE  out.ePrime = PrfEPrime /\ out.x = h
<1>1. /\ VoleConsistent /\ Rest
      /\ out = [e |-> cl.e, ePrime |-> [i \in 0 .. (LenEval - 1) |-> SymbolPrime(cl.o[i])], x |-> h]
      /\ \A i \in 0 .. (LenEval - 1) : wit.v[i] \in EpsPowers /\ wit.v[i] # 0
  BY DoneFacts DEF Accepted, IInv
<1>2. ASSUME NEW i \in 0 .. (LenEval - 1)
      PROVE  SymbolPrime(cl.o[i]) = SymbolPrime(key + lPrime(i) + h)
  <2> DEFINE x == key + lPrime(i)
             v == wit.v[i]
  <2>1. x \in Int /\ h \in Int
    BY <1>1, SessionValues
  <2>2. v \in EpsPowers /\ v # 0
    BY <1>1
  <2>3. cl.o[i] = (((x * v) % P) + h * v) % P
    BY <1>1 DEF VoleConsistent, UOf
  <2> HIDE DEF x, v
  <2>4. Symbol((((x * v) % P) + h * v) % P) = Symbol(x + h)
    BY <2>1, <2>2, DeliveredSymbol
  <2> QED
    BY <2>3, <2>4 DEF SymbolPrime, x
<1>3. out.ePrime = [i \in 0 .. (LenEval - 1) |-> SymbolPrime(cl.o[i])] /\ out.x = h
  BY <1>1
<1> QED
  BY <1>2, <1>3 DEF PrfEPrime

\* eval returns true only with symbols of the key at every challenged position.
THEOREM ChallengedIsRight == Spec => []ChallengedRight
BY ChallengedSymbols, IInvHolds, PTL

\* An accepted session of a server that sent its own symbols outputs the PRF of its key.
THEOREM OutputIsCorrect == Spec => []OutputCorrect
<1>1. IInv => OutputCorrect
  <2> SUFFICES ASSUME IInv, cpc = "done", fault # "eWrong"
               PROVE  out = [e |-> PrfE, ePrime |-> PrfEPrime, x |-> h]
    BY DEF OutputCorrect
  <2>1. out.e = PrfE /\ out.ePrime = PrfEPrime /\ out.x = h
    BY OwnSymbols, OutputSymbols
  <2>2. out = [e |-> out.e, ePrime |-> out.ePrime, x |-> out.x]
    <3>1. \E a, b, c : out = [e |-> a, ePrime |-> b, x |-> c]
      BY DoneFacts DEF Accepted
    <3> QED
      BY <3>1
  <2> QED
    BY <2>1, <2>2
<1> QED
  BY <1>1, IInvHolds, PTL

\* The ideal evaluation counts as this module does.
LEMMA SameCardinality == \A S : Ideal!Cardinality(S) = Cardinality(S)
BY DEF Ideal!Cardinality, Cardinality

\* The challenged positions are K symbols of e.
LEMMA ChallengedSet ==
  ASSUME NEW c, Injective(c)
  PROVE  LET S == {c[i] : i \in DOMAIN c}
         IN  S # {} /\ S \subseteq Indices /\ Ideal!Cardinality(S) = K
<1> DEFINE S == {c[i] : i \in DOMAIN c}
           f == [i \in 1 .. K |-> c[i - 1]]
<1>1. K \in Nat /\ K > 0 /\ 0 \in 0 .. (K - 1)
  BY OprfAssumption
<1>2. DOMAIN c = 0 .. (K - 1) /\ \A i \in 0 .. (K - 1) : c[i] \in Indices
  BY DEF Injective
<1>3. \A i, j \in 0 .. (K - 1) : c[i] = c[j] => i = j
  BY <1>2 DEF Injective, IsInjective
<1>4. \A i \in 1 .. K : i - 1 \in 0 .. (K - 1)
  BY <1>1
<1>5. f \in [1 .. K -> S]
  BY <1>2, <1>4
<1>6. \A i, j \in 1 .. K : f[i] = f[j] => i = j
  <2> SUFFICES ASSUME NEW i \in 1 .. K, NEW j \in 1 .. K, f[i] = f[j]
               PROVE  i = j
    OBVIOUS
  <2>1. c[i - 1] = c[j - 1]
    OBVIOUS
  <2>2. i - 1 = j - 1
    BY <1>3, <1>4, <2>1
  <2> QED
    BY <2>2, <1>1
<1>7. \A s \in S : \E i \in 1 .. K : f[i] = s
  <2> SUFFICES ASSUME NEW j \in 0 .. (K - 1)
               PROVE  \E i \in 1 .. K : f[i] = c[j]
    BY <1>2
  <2>1. j + 1 \in 1 .. K /\ (j + 1) - 1 = j
    BY <1>1
  <2> QED
    BY <2>1
<1> HIDE DEF f
<1>8. ExistsBijection(1 .. K, S)
  <2>1. f \in Injection(1 .. K, S)
    BY <1>5, <1>6 DEF Injection, IsInjective
  <2>2. f \in Surjection(1 .. K, S)
    BY <1>5, <1>7 DEF Surjection
  <2> QED
    BY <2>1, <2>2 DEF ExistsBijection, Bijection
<1>9. S # {} /\ S \subseteq Indices
  BY <1>1, <1>2
<1> HIDE DEF S
<1>10. Cardinality(S) = K
  BY <1>1, <1>8, FS_CountingElements
<1>11. Ideal!Cardinality(S) = Cardinality(S)
  BY SameCardinality
<1> QED
  BY <1>9, <1>10, <1>11 DEF S

----------------------------------------------------------------------------
(* The session evaluates ideally.                                          *)

\* What the ideal evaluation sees of the session.
Prf == [e |-> PrfE, ePrime |-> PrfEPrime, x |-> h]
Challenged == {cl.c[i] : i \in DOMAIN cl.c}
Seen == IF cpc \in Verdict THEN cpc ELSE "running"

\* Neither coroutine touches the session, main's report or the other's variables.
LEMMA LocalSteps ==
  /\ ServerStep => UNCHANGED <<key, h, offsets, fault, cpc, report, cl, out>>
  /\ ClientStep => UNCHANGED <<key, h, offsets, fault, spc, report, wit>>
<1>1. ServerStep => UNCHANGED <<key, h, offsets, fault, cpc, report, cl, out>>
  BY DEF ServerStep, ServerLocal,
     ServerBaseOt, ServerCtxt, ServerOtExt, ServerReject, ServerCommit, ServerCommitReply,
     ServerVpDerand, ServerVpCheck, ServerVpReply, ServerSendE, ServerSendM, ServerProve,
     ServerReturn
<1>2. ClientStep => UNCHANGED <<key, h, offsets, fault, spc, report, wit>>
  BY DEF ClientStep, ClientLocal,
     ClientBaseOt, ClientOtExt, ClientExpand, ClientCommitDerand, ClientCommitCheck,
     ClientVpDerand, ClientVpCheck, ClientVpCheckFails, ClientVpFinish, ClientRecvE,
     ClientChallenge, ClientRecvM, ClientSendSeed, ClientVerify
<1> QED
  BY <1>1, <1>2

\* The key, the input and the fault are fixed, and with them the PRF.
LEMMA SamePrf ==
  ASSUME [Next]_vars
  PROVE  UNCHANGED <<Prf, fault>>
<1>1. UNCHANGED <<key, h, offsets, fault>>
  BY LocalSteps DEF Next, Report, vars
<1>2. PrfE' = PrfE /\ PrfEPrime' = PrfEPrime
  BY <1>1 DEF PrfE, PrfEPrime, Symbol, SymbolPrime, l, lPrime
<1> QED
  BY <1>1, <1>2 DEF Prf

\* What a step of the client does to its verdict, its challenge and its output.
LEMMA ClientSeen ==
  ASSUME IInv, ClientStep
  PROVE  /\ cpc \notin Verdict /\ UNCHANGED report
         /\ ~ ClientChallenge => cl'.c = cl.c
         /\ cpc' # "done" => out' = out
         /\ cpc' = "done" => cpc = "verify"
<1>1. DOMAIN cl = {"o", "e", "c", "m"}
  BY DEF IInv, Data, Knows
<1>2. CASE ClientVpFinish \/ ClientRecvE \/ ClientRecvM
  BY <1>1, <1>2 DEF ClientVpFinish, ClientRecvE, ClientRecvM, ClientLocal, Verdict
<1>3. CASE ClientVerify \/ ClientSendSeed \/ ClientChallenge
  BY <1>3 DEF ClientVerify, ClientSendSeed, ClientChallenge, ClientLocal, Verdict
<1>4. CASE \/ ClientBaseOt \/ ClientOtExt \/ ClientExpand \/ ClientCommitDerand \/ ClientCommitCheck
           \/ ClientVpDerand \/ ClientVpCheck \/ ClientVpCheckFails
  BY <1>4 DEF ClientBaseOt, ClientOtExt, ClientExpand, ClientCommitDerand, ClientCommitCheck,
    ClientVpDerand, ClientVpCheck, ClientVpCheckFails, ClientLocal, Verdict
<1> QED
  BY <1>2, <1>3, <1>4 DEF ClientStep

\* Init is the ideal evaluation's.
LEMMA InitIsIdeal == Init => Ideal!Init
BY DEF Init, Ideal!Init, Verdict

\* A challenge is one challenge, of K positions.
LEMMA ChallengeIsIdeal ==
  ASSUME IInv, IInv', [Next]_vars, ClientChallenge
  PROVE  Ideal!Challenge
<1>1. cpc = "challenge" /\ cpc' = "recvM" /\ UNCHANGED <<report, out>>
  BY DEF ClientChallenge, ClientLocal
<1>2. Challenged = {}
  <2>1. cl.c = <<>>
    BY <1>1 DEF IInv, Data, Knows, GotC
  <2> QED
    BY <2>1 DEF Challenged
<1>3. Ideal!Cardinality(Challenged') = K /\ Challenged' \subseteq Indices
  <2>1. Injective(cl'.c)
    BY <1>1 DEF IInv, Data, Knows, GotC, Injective, Indices
  <2> QED
    BY <2>1, ChallengedSet DEF Challenged
<1>4. DOMAIN PrfE = Indices
  BY DEF PrfE
<1>5. Seen = "running" /\ Seen' = "running"
  BY <1>1 DEF Seen, Verdict
<1>6. UNCHANGED <<Prf, fault>>
  BY SamePrf
<1> QED
  BY <1>1, <1>2, <1>3, <1>4, <1>5, <1>6 DEF Ideal!Challenge, Challenged, Seen, Prf

\* An accepted proof is an evaluation: the output is the PRF, but for the symbols that
\* were not challenged.
LEMMA VerdictIsIdeal ==
  ASSUME IInv, IInv', [Next]_vars, ClientStep, cpc' = "done"
  PROVE  Ideal!Evaluate
<1>1. cpc = "verify" /\ UNCHANGED report /\ cl'.c = cl.c
  BY ClientSeen DEF ClientChallenge
<1>2. UNCHANGED <<Prf, fault>>
  BY SamePrf
<1>3. Challenged' = Challenged
  BY <1>1 DEF Challenged
<1>4. Injective(cl.c)
  BY <1>1 DEF IInv, Data, Knows, GotC
<1>5. Challenged # {} /\ \A j \in Challenged : \E i \in 0 .. (K - 1) : j = cl.c[i]
  BY <1>4, ChallengedSet DEF Challenged, Injective
<1>6. out'.ePrime = PrfEPrime' /\ out'.x = h'
  <2>1. (IInv /\ cpc = "done" => out.ePrime = PrfEPrime /\ out.x = h)'
    BY OutputSymbols, PTL
  <2> QED
    BY <2>1
<1>7. DOMAIN out'.e = Indices /\ (fault' # "eWrong" => out'.e = PrfE')
  <2>1. (IInv /\ cpc = "done" => DOMAIN out.e = Indices /\ (fault # "eWrong" => out.e = PrfE))'
    BY OwnSymbols, PTL
  <2> QED
    BY <2>1 DEF Indices
<1>8. \A i \in 0 .. (K - 1) : out'.e[cl.c[i]] = PrfE'[cl.c[i]]
  <2>1. (IInv => ChallengedRight)'
    BY ChallengedSymbols, PTL
  <2> QED
    BY <1>1, <2>1 DEF ChallengedRight
<1>9. Prf'.e = PrfE' /\ Prf'.ePrime = PrfEPrime' /\ Prf'.x = h' /\ DOMAIN PrfE = Indices
  BY DEF Prf, PrfE
<1>10. out'.ePrime = Prf.ePrime /\ out'.x = Prf.x /\ DOMAIN out'.e = DOMAIN Prf.e
  BY <1>2, <1>6, <1>7, <1>9 DEF Prf
<1>11. \A i \in DOMAIN Prf.e : i \in Challenged \/ ~ (fault = "eWrong") => out'.e[i] = Prf.e[i]
  BY <1>2, <1>5, <1>7, <1>8, <1>9
<1>12. Seen = "running" /\ Seen' = "done"
  BY <1>1 DEF Seen, Verdict
<1> QED
  BY <1>1, <1>2, <1>3, <1>5, <1>10, <1>11, <1>12 DEF Ideal!Evaluate, Challenged, Seen, Prf

\* Every other step of the client aborts or is invisible.
LEMMA ClientIsIdeal ==
  ASSUME IInv, IInv', [Next]_vars, ClientStep
  PROVE  [Ideal!Next]_(Ideal!vars)
<1>1. CASE ClientChallenge
  BY <1>1, ChallengeIsIdeal DEF Ideal!Next
<1>2. CASE cpc' = "done"
  BY <1>2, VerdictIsIdeal DEF Ideal!Next
<1>3. CASE ~ ClientChallenge /\ cpc' # "done"
  <2>1. cpc \notin Verdict /\ UNCHANGED report /\ Challenged' = Challenged /\ out' = out
    BY <1>3, ClientSeen DEF Challenged
  <2>2. UNCHANGED <<Prf, fault>>
    BY SamePrf
  <2>3. CASE cpc' = "aborted"
    <3>1. Seen = "running" /\ Seen' = "aborted"
      BY <2>1, <2>3 DEF Seen, Verdict
    <3> QED
      BY <2>1, <2>2, <3>1 DEF Ideal!Next, Ideal!Abort, Challenged, Seen, Prf
  <2>4. CASE cpc' # "aborted"
    <3>1. Seen' = Seen
      BY <1>3, <2>1, <2>4 DEF Seen, Verdict
    <3> QED
      BY <2>1, <2>2, <3>1 DEF Ideal!vars, Challenged, Seen, Prf
  <2> QED
    BY <2>3, <2>4
<1> QED
  BY <1>1, <1>2, <1>3

\* The server's steps are invisible, and main reports what the client returned.
LEMMA OthersAreIdeal ==
  ASSUME IInv, [Next]_vars, ServerStep \/ Report \/ UNCHANGED vars
  PROVE  [Ideal!Next]_(Ideal!vars)
<1>1. UNCHANGED <<Prf, fault>>
  BY SamePrf
<1>2. CASE ServerStep \/ UNCHANGED vars
  <2>1. UNCHANGED <<cpc, report, cl, out>>
    BY <1>2, LocalSteps DEF vars
  <2>2. Seen' = Seen /\ Challenged' = Challenged
    BY <2>1 DEF Seen, Challenged
  <2> QED
    BY <1>1, <2>1, <2>2 DEF Ideal!vars, Challenged, Seen, Prf
<1>3. CASE Report
  <2>1. /\ cpc \in Verdict /\ UNCHANGED <<cpc, cl, out>> /\ report = "none"
        /\ report' = IF cpc = "done" THEN "successful" ELSE "failed"
    BY <1>3 DEF Report, Verdict
  <2>2. Seen = cpc /\ Seen' = Seen /\ Challenged' = Challenged /\ cpc # "running"
    BY <2>1 DEF Seen, Challenged, Verdict
  <2> QED
    BY <1>1, <2>1, <2>2 DEF Ideal!Next, Ideal!Report, Challenged, Seen, Prf
<1> QED
  BY <1>2, <1>3

\* The session implements the ideal evaluation.
THEOREM EvaluatesIdeally == Spec => ImplementsIdeal
<1>1. Init => Ideal!Init
  BY InitIsIdeal
<1>2. IInv /\ IInv' /\ [Next]_vars => [Ideal!Next]_(Ideal!vars)
  BY ClientIsIdeal, OthersAreIdeal DEF Next
<1> QED
  BY <1>1, <1>2, IInvHolds, PTL DEF Spec, ImplementsIdeal, Ideal!Spec
=============================================================================
