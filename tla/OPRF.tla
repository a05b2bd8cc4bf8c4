-------------------------------- MODULE OPRF --------------------------------
(***************************************************************************)
(* One evaluation of the OPRF as main.cpp and tests/test_OPRF.cpp run it:  *)
(* the client coroutine OPRF::eval and the server coroutine                *)
(* OPRF::blindedEval on two threads, joined by a pair of local sockets     *)
(* (two FIFO queues), and the main thread that joins them and reports.     *)
(*                                                                         *)
(* Every message of the session is an element of a queue and every action  *)
(* is the code of one side between two points where it can block: a        *)
(* receive, or the flush that PRINT_PHASE does when verbose is set.        *)
(* The data kept is what decides the outcome: the server's witness, the    *)
(* VOLE+ output o, the symbols e, the challenge c and the answers m, in a  *)
(* small prime field.  Base OT, OT extension and PPRF are messages without *)
(* content; VOLE+ hands over o = u + h*v and the ZK proof accepts exactly  *)
(* when the constraints of ZKP.h hold of the committed witness.  A session *)
(* may have one corrupted server message, chosen by `fault`.               *)
(***************************************************************************)
EXTENDS Fe25519, Sequences

CONSTANTS HALF,      \* 5 in the code: c0 and c1 take half of v each
          LenCom,    \* len_com, number of commitment symbols
          K,         \* k, number of challenged symbols
          D,         \* (P-1)/eps: symbols are D-th powers
          Y,         \* exponent of pow_inv_eps_prime: Y * EPS = -1 mod D
          SYMBOL_BYTES, \* digits of a symbol on the wire and in the transcript
          UINT32_BYTES, \* digits a uint32_t holds
          Keys, Inputs, OffsetChoices,  \* what a session starts from
          Randomness,   \* values random_fe25519 draws for v and b
          Faults        \* corrupted server messages to consider

EPS == 781764
LenEval == 2 * HALF

ASSUME OprfAssumption ==
  /\ HALF \in Nat \ {0} /\ LenCom \in Nat \ {0}
  /\ K \in 1 .. LenCom       \* otherwise the loop drawing c never ends
  /\ LenCom <= RADIX         \* an index of c fits the byte it is sent in
  /\ Keys \subseteq 0 .. (RADIX^(LIMBS - 1) * TOP - 1)
  /\ Inputs \subseteq 0 .. (RADIX^(LIMBS - 1) * TOP - 1)
  /\ OffsetChoices \subseteq [0 .. (LenEval + LenCom - 1) -> 0 .. (RADIX^(LIMBS - 1) * TOP - 1)]
  /\ Randomness \subseteq Nat
  /\ Faults \subseteq {"none", "zk", "vp", "uv", "eZero", "eWrong", "m", "proof"}

VARIABLES key, h, offsets, verbose, fault,  \* fixed for the session
          cpc, spc,     \* where each coroutine is
          report,       \* what main prints after joining the server thread
          c2s, s2c,     \* bytes sent and not yet received, as messages
          wit,          \* server: witness w and symbols e
          cl,           \* client: o, e, c, m as received
          out           \* client: the transcript hashed by H2
session == <<key, h, offsets, verbose, fault>>
vars == <<key, h, offsets, verbose, fault, cpc, spc, report, c2s, s2c, wit, cl, out>>

----------------------------------------------------------------------------
(* Field arithmetic on residues and the power residue symbol.              *)

Squared == [x \in 0 .. (P - 1) |-> (x * x) % P]
Pow(x, n) ==
  LET pw[i \in 0 .. n] == IF i = 0 THEN 1
                          ELSE (Squared[pw[i \div 2]] * (IF i % 2 = 1 THEN x ELSE 1)) % P
  IN  pw[n]

\* The fixed powers of the code: pow5, the quotient's inverse, pow_inv_eps_prime.
Fifth == [x \in 0 .. (P - 1) |-> Pow(x, 5)]
Inv == [x \in 0 .. (P - 1) |-> Pow(x, P - 2)]
\* Mutant of PowY: the exponent is off by one.
PowY_next == [x \in 0 .. (P - 1) |-> Pow(x, Y + 1)]
PowY == [x \in 0 .. (P - 1) |-> Pow(x, Y)]

\* The product of the first n values, and the second half of a row.
Prod(f, n) == LET pr[i \in 0 .. n] == IF i = 0 THEN 1 ELSE (pr[i - 1] * f[i - 1]) % P IN pr[n]
Upper(v) == [i \in 0 .. (HALF - 1) |-> v[HALF + i]]

\* random_power_eps: an EPS-th power, zero included.
EpsPowers == {Pow(r % P, EPS) : r \in Randomness}

\* presidue_eps: the low digits of the canonical D-th power, for every x.
SymbolOf == [x \in 0 .. (P - 1) |-> Pow(x, D) % RADIX^SYMBOL_BYTES]
Symbol(x) == SymbolOf[x % P]

\* e'_i goes through a uint32_t before it is packed.
SymbolPrime(x) == Symbol(x) % RADIX^UINT32_BYTES

\* P is prime; in the code EPS * D is P - 1, the order of the group.
ASSUME PrimeAssumption ==
  /\ P \in Nat /\ P > 1 /\ \A d \in 2 .. (P - 1) : P % d # 0
  /\ D \in Nat \ {0} /\ Y \in Nat
  /\ (EPS * D) % (P - 1) = 0 /\ (Y * EPS + 1) % D = 0

\* Fermat's little theorem, for this P.
ASSUME FermatAssumption == \A x \in 1 .. (P - 1) : Pow(x, P - 1) = 1

\* No root of unity of order EPS has low digits zero (scripts/safe_trunc.py compares
\* them all), and 3 is none of another order.
ASSUME SymbolAssumption ==
  /\ RADIX^SYMBOL_BYTES \in Nat \ {0}
  /\ \A x \in 1 .. (P - 1) : SymbolOf[x] # 0
  /\ Pow(3, EPS) # 1

----------------------------------------------------------------------------
(* The constructor: offsets are redrawn while operator== finds a collision *)

OffsetsOk(off) ==
  \A i \in DOMAIN off : \A j \in 0 .. (i - 1) : ~ Equal(DigitsOf(off[i]), DigitsOf(off[j]))

lPrime(i) == offsets[i]
l(i) == offsets[LenEval + i]

\* The collision check that guards the witness generation.
KeyCollides == \E i \in DOMAIN offsets : Equal(DigitsOf(key), DigitsOf(offsets[i]))

\* Mutant of UOf: the offset of the next index.
UOf_next(v) == [i \in 0 .. (LenEval - 1) |-> ((key + lPrime((i + 1) % LenEval)) * v[i]) % P]

\* u_i = (K + l'_i) v_i.
UOf(v) == [i \in 0 .. (LenEval - 1) |-> ((key + lPrime(i)) * v[i]) % P]

\* The witness from the drawn v and b: a = (prod v)^Y, the chain of fifth
\* powers, a0, a1, c0, c1, and the commitment symbols e.
Witness(v, b) ==
  LET a == PowY[Prod(v, LenEval)]
      y[i \in 0 .. 8] == IF i = 0 THEN a ELSE Fifth[y[i - 1]]
      a0 == (y[8] * y[8] * y[4] * y[1] * y[1]) % P
  IN  [v |-> v, b |-> b, y |-> y, a0 |-> a0,
       a1 |-> (y[1] * a0 * Inv[(a * a * y[3]) % P]) % P,
       c0 |-> Prod(v, HALF),
       c1 |-> Prod(Upper(v), HALF),
       e |-> [i \in 0 .. (LenCom - 1) |-> Symbol(key + l(i))]]

NoWitness == [v |-> <<>>]

\* C[3]..C[68] of ZKP.h on the committed witness and the public m and c.
Constraints(w, m, c) ==
  /\ \A i \in 0 .. (K - 1) : m[i] = (w.b[i] * (key + l(c[i]))) % P
  /\ w.c0 = Prod(w.v, HALF)
  /\ w.c1 = Prod(Upper(w.v), HALF)
  /\ \A i \in 1 .. 8 : w.y[i] = Fifth[w.y[i - 1]]
  /\ w.a0 = (w.y[8] * w.y[8] * w.y[4] * w.y[1] * w.y[1]) % P
  /\ (w.y[1] * w.a0) % P = (w.y[0] * w.y[0] * w.y[3] * w.a1) % P
  /\ (w.c0 * w.c1 * w.y[0] * w.a1) % P = 1

----------------------------------------------------------------------------
(* The channel and the session's start.                                    *)

ClientPc == {"baseOt", "otExt", "pprf", "zkDerand", "zkCheck", "vpDerand", "vpCheck",
             "vpFinish", "recvE", "challenge", "recvM", "seed", "verify", "done", "aborted"}
ServerPc == {"baseOt", "ctxt", "otExt", "witness", "zkSeed", "vpDerand", "gamma", "lambda",
             "sendE", "recvC", "zkProve", "flush", "done"}
ClientKind == {"ctxt", "extU", "seed", "gamma", "lambda", "c", "zkSeed"}
ServerKind == {"pk", "sums", "derand", "cuv", "vpDerand", "check", "uv", "e", "m", "coefs"}

Msg(kind, body) == [kind |-> kind, body |-> body]
ToServer(kind, body) == c2s' = Append(c2s, Msg(kind, body))
ToClient(kind, body) == s2c' = Append(s2c, Msg(kind, body))
FromServer(kind) == s2c /= <<>> /\ Head(s2c).kind = kind /\ s2c' = Tail(s2c)
FromClient(kind) == c2s /= <<>> /\ Head(c2s).kind = kind /\ c2s' = Tail(c2s)

\* Mutant of Flushed: waits for the peer's bytes too.
Flushed_both(queue) == verbose => c2s = <<>> /\ s2c = <<>>

\* PRINT_PHASE: a verbose side goes on once the peer has taken all it sent.
Flushed(queue) == verbose => queue = <<>>

Init ==
  /\ key \in Keys /\ h \in Inputs /\ verbose \in BOOLEAN /\ fault \in Faults
  /\ offsets \in OffsetChoices /\ OffsetsOk(offsets)
  /\ cpc = "baseOt" /\ spc = "baseOt" /\ report = "none"
  /\ c2s = <<>> /\ s2c = <<>>
  /\ wit = NoWitness
  /\ cl = [o |-> <<>>, e |-> <<>>, c |-> <<>>, m |-> <<>>]
  /\ out = <<>>

----------------------------------------------------------------------------
(* Server: OPRF::blindedEval.                                              *)

ServerLocal == UNCHANGED <<key, h, offsets, verbose, fault, cpc, report, cl, out>>

\* Mutant of ServerBaseOt: the keys are sent again.
ServerBaseOt_resend == /\ spc = "baseOt" /\ spc' = "baseOt"
                /\ ToClient("pk", 0)
                /\ UNCHANGED <<c2s, wit>> /\ ServerLocal

\* Base OT, receiver side: the public keys go out first.
ServerBaseOt == /\ spc = "baseOt" /\ spc' = "ctxt"
                /\ ToClient("pk", 0)
                /\ UNCHANGED <<c2s, wit>> /\ ServerLocal

ServerCtxt == /\ spc = "ctxt" /\ spc' = "otExt"
              /\ FromClient("ctxt")
              /\ UNCHANGED <<s2c, wit>> /\ ServerLocal

\* OT extension, then the PPRF sums; the small-set VOLEs are local.
ServerOtExt == /\ spc = "otExt" /\ spc' = "witness"
               /\ Flushed(s2c)
               /\ FromClient("extU")
               /\ ToClient("sums", 0)
               /\ UNCHANGED wit /\ ServerLocal

\* "Abort: Key collides with an offset": the coroutine returns.
ServerReject == /\ spc = "witness" /\ spc' = "done"
                /\ Flushed(s2c)
                /\ KeyCollides
                /\ UNCHANGED <<c2s, s2c, wit>> /\ ServerLocal

\* Mutant of ServerCommit: the check values go out before the seed is in.
ServerCommit_early ==
  /\ spc = "witness" /\ spc' = "vpDerand"
  /\ Flushed(s2c)
  /\ ~ KeyCollides
  /\ \E v \in [0 .. (LenEval - 1) -> EpsPowers], b \in [0 .. (K - 1) -> EpsPowers] :
       wit' = Witness(v, b)
  /\ s2c' = s2c \o <<Msg("derand", TRUE), Msg("cuv", TRUE)>>
  /\ UNCHANGED c2s /\ ServerLocal

\* Generate the witness and commit to it.
ServerCommit ==
  /\ spc = "witness" /\ spc' = "zkSeed"
  /\ Flushed(s2c)
  /\ ~ KeyCollides
  /\ \E v \in [0 .. (LenEval - 1) -> EpsPowers], b \in [0 .. (K - 1) -> EpsPowers] :
       wit' = Witness(v, b)
  /\ ToClient("derand", fault /= "zk")
  /\ UNCHANGED c2s /\ ServerLocal

ServerCommitReply == /\ spc = "zkSeed" /\ spc' = "vpDerand"
                     /\ FromClient("seed")
                     /\ ToClient("cuv", fault /= "zk")
                     /\ UNCHANGED wit /\ ServerLocal

\* VolePlus::send up to its first receive.
ServerVpDerand == /\ spc = "vpDerand" /\ spc' = "gamma"
                  /\ Flushed(s2c)
                  /\ ToClient("vpDerand", fault /= "vp")
                  /\ UNCHANGED <<c2s, wit>> /\ ServerLocal

ServerVpCheck == /\ spc = "gamma" /\ spc' = "lambda"
                 /\ FromClient("gamma")
                 /\ ToClient("check", fault /= "vp")
                 /\ UNCHANGED wit /\ ServerLocal

\* u' and v' let the client, and only with its h, arrive at u + h*v.
ServerVpReply ==
  /\ spc = "lambda" /\ spc' = "sendE"
  /\ FromClient("lambda")
  /\ LET u == UOf(wit.v)
     IN  ToClient("uv", [u |-> IF fault = "uv" THEN [u EXCEPT ![0] = (@ + 1) % P] ELSE u,
                         v |-> wit.v])
  /\ UNCHANGED wit /\ ServerLocal

\* A corrupted e has a zero in it, or another symbol in its last place.
SentE == CASE fault = "eZero" -> [wit.e EXCEPT ![0] = 0]
           [] fault = "eWrong" -> [wit.e EXCEPT ![LenCom - 1] = Symbol(3 * (key + l(LenCom - 1)))]
           [] OTHER -> wit.e

ServerSendE == /\ spc = "sendE" /\ spc' = "recvC"
               /\ Flushed(s2c)
               /\ ToClient("e", SentE)
               /\ UNCHANGED <<c2s, wit>> /\ ServerLocal

\* m_i = b_i (K + l_{c_i}).  A corrupted m_0 is off by an EPS-th power, so its
\* symbol is right.
ServerSendM ==
  /\ spc = "recvC" /\ spc' = "zkProve"
  /\ Flushed(s2c)
  /\ FromClient("c")
  /\ LET c == Head(c2s).body
         m == [i \in 0 .. (K - 1) |-> (wit.b[i] * (key + l(c[i]))) % P]
     IN  ToClient("m", IF fault = "m" THEN [m EXCEPT ![0] = (@ * Pow(3, EPS)) % P] ELSE m)
  /\ UNCHANGED wit /\ ServerLocal

\* prove: the folded polynomial, then the last flush and the return.
ServerProve == /\ spc = "zkProve" /\ spc' = "flush"
               /\ Flushed(s2c)
               /\ FromClient("zkSeed")
               /\ ToClient("coefs", fault /= "proof")
               /\ UNCHANGED wit /\ ServerLocal

ServerReturn == /\ spc = "flush" /\ spc' = "done"
                /\ Flushed(s2c)
                /\ UNCHANGED <<c2s, s2c, wit>> /\ ServerLocal

ServerStep == \/ ServerBaseOt \/ ServerCtxt \/ ServerOtExt
              \/ ServerReject \/ ServerCommit \/ ServerCommitReply
              \/ ServerVpDerand \/ ServerVpCheck \/ ServerVpReply
              \/ ServerSendE \/ ServerSendM \/ ServerProve \/ ServerReturn

----------------------------------------------------------------------------
(* Client: OPRF::eval.  x is hashed to h before anything is received.      *)

ClientLocal == UNCHANGED <<key, h, offsets, verbose, fault, spc, report, wit>>

ClientBaseOt == /\ cpc = "baseOt" /\ cpc' = "otExt"
                /\ FromServer("pk")
                /\ ToServer("ctxt", 0)
                /\ UNCHANGED <<cl, out>> /\ ClientLocal

ClientOtExt == /\ cpc = "otExt" /\ cpc' = "pprf"
               /\ Flushed(c2s)
               /\ ToServer("extU", 0)
               /\ UNCHANGED <<s2c, cl, out>> /\ ClientLocal

ClientExpand == /\ cpc = "pprf" /\ cpc' = "zkDerand"
                /\ FromServer("sums")
                /\ UNCHANGED <<c2s, cl, out>> /\ ClientLocal

\* verifier->commit_to_witness.
ClientCommitDerand == /\ cpc = "zkDerand" /\ cpc' = "zkCheck"
                      /\ Flushed(c2s)
                      /\ FromServer("derand")
                      /\ ToServer("seed", 0)
                      /\ UNCHANGED <<cl, out>> /\ ClientLocal

ClientCommitCheck ==
  /\ cpc = "zkCheck"
  /\ FromServer("cuv")
  /\ cpc' = IF Head(s2c).body THEN "vpDerand" ELSE "aborted"
  /\ UNCHANGED <<c2s, cl, out>> /\ ClientLocal

\* VolePlus::receive.
ClientVpDerand == /\ cpc = "vpDerand" /\ cpc' = "vpCheck"
                  /\ Flushed(c2s)
                  /\ FromServer("vpDerand")
                  /\ ToServer("gamma", 0)
                  /\ UNCHANGED <<cl, out>> /\ ClientLocal

ClientVpCheck == /\ cpc = "vpCheck" /\ cpc' = "vpFinish"
                 /\ FromServer("check") /\ Head(s2c).body
                 /\ ToServer("lambda", 0)
                 /\ UNCHANGED <<cl, out>> /\ ClientLocal

\* Mutant of ClientVpCheckFails: lambda is sent all the same.
ClientVpCheckFails_reply == /\ cpc = "vpCheck" /\ cpc' = "recvE"
                      /\ FromServer("check") /\ ~ Head(s2c).body
                      /\ ToServer("lambda", 0) /\ UNCHANGED <<cl, out>> /\ ClientLocal

\* A failed check returns from receive only; eval goes on with an empty o.
ClientVpCheckFails == /\ cpc = "vpCheck" /\ cpc' = "recvE"
                      /\ FromServer("check") /\ ~ Head(s2c).body
                      /\ UNCHANGED <<c2s, cl, out>> /\ ClientLocal

ClientVpFinish ==
  /\ cpc = "vpFinish" /\ cpc' = "recvE"
  /\ FromServer("uv")
  /\ LET b == Head(s2c).body
     IN  cl' = [cl EXCEPT !.o = [i \in 0 .. (LenEval - 1) |-> (b.u[i] + h * b.v[i]) % P]]
  /\ UNCHANGED <<c2s, out>> /\ ClientLocal

\* Mutant of ClientRecvE: zero symbols are accepted.
ClientRecvE_noCheck ==
  /\ cpc = "recvE"
  /\ Flushed(c2s)
  /\ FromServer("e")
  /\ cl' = [cl EXCEPT !.e = Head(s2c).body]
  /\ cpc' = "challenge"
  /\ UNCHANGED <<c2s, out>> /\ ClientLocal

\* "Abort: e_i = 0 detected."
ClientRecvE ==
  /\ cpc = "recvE"
  /\ Flushed(c2s)
  /\ FromServer("e")
  /\ cl' = [cl EXCEPT !.e = Head(s2c).body]
  /\ cpc' = IF \E i \in 0 .. (LenCom - 1) : cl'.e[i] = 0 THEN "aborted" ELSE "challenge"
  /\ UNCHANGED <<c2s, out>> /\ ClientLocal

\* k distinct indices, each sent as one byte.
ClientChallenge ==
  /\ cpc = "challenge" /\ cpc' = "recvM"
  /\ Flushed(c2s)
  /\ \E c \in [0 .. (K - 1) -> 0 .. (LenCom - 1)] :
       /\ IsInjective(c)
       /\ cl' = [cl EXCEPT !.c = c]
       /\ ToServer("c", [i \in 0 .. (K - 1) |-> c[i] % RADIX])
  /\ UNCHANGED <<s2c, out>> /\ ClientLocal

\* Mutant of ClientRecvM: the symbols of m are not compared.
ClientRecvM_noCheck ==
  /\ cpc = "recvM"
  /\ Flushed(c2s)
  /\ FromServer("m")
  /\ cl' = [cl EXCEPT !.m = Head(s2c).body]
  /\ cpc' = "seed"
  /\ UNCHANGED <<c2s, out>> /\ ClientLocal

\* "Abort: (m_i/p) != e_{c_i}"
ClientRecvM ==
  /\ cpc = "recvM"
  /\ Flushed(c2s)
  /\ FromServer("m")
  /\ cl' = [cl EXCEPT !.m = Head(s2c).body]
  /\ cpc' = IF \E i \in 0 .. (K - 1) : Symbol(cl'.m[i]) /= cl.e[cl.c[i]]
            THEN "aborted" ELSE "seed"
  /\ UNCHANGED <<c2s, out>> /\ ClientLocal

\* Mutant of ClientSendSeed: the seed is not sent.
ClientSendSeed_lost == /\ cpc = "seed" /\ cpc' = "verify"
                  /\ Flushed(c2s)
                  /\ UNCHANGED c2s
                  /\ UNCHANGED <<s2c, cl, out>> /\ ClientLocal

\* verify up to its receive.
ClientSendSeed == /\ cpc = "seed" /\ cpc' = "verify"
                  /\ Flushed(c2s)
                  /\ ToServer("zkSeed", 0)
                  /\ UNCHANGED <<s2c, cl, out>> /\ ClientLocal

\* C[1] and C[2] compare what VOLE+ delivered with the committed v and key.
VoleConsistent == cl.o = [i \in 0 .. (LenEval - 1) |-> (UOf(wit.v)[i] + h * wit.v[i]) % P]

\* The rest of verify, and the transcript: e, e' and the input x.
ClientVerify ==
  /\ cpc = "verify"
  /\ FromServer("coefs")
  /\ IF Head(s2c).body /\ VoleConsistent /\ Constraints(wit, cl.m, [i \in 0 .. (K - 1) |-> cl.c[i] % RADIX])
     THEN /\ cpc' = "done"
          /\ out' = [e |-> cl.e, ePrime |-> [i \in 0 .. (LenEval - 1) |-> SymbolPrime(cl.o[i])], x |-> h]
     ELSE cpc' = "aborted" /\ UNCHANGED out
  /\ UNCHANGED <<c2s, cl>> /\ ClientLocal

ClientStep == \/ ClientBaseOt \/ ClientOtExt \/ ClientExpand
              \/ ClientCommitDerand \/ ClientCommitCheck
              \/ ClientVpDerand \/ ClientVpCheck \/ ClientVpCheckFails \/ ClientVpFinish
              \/ ClientRecvE \/ ClientChallenge \/ ClientRecvM
              \/ ClientSendSeed \/ ClientVerify

----------------------------------------------------------------------------
\* main: the client runs in the main thread, then the server thread is joined.
Report == /\ report = "none"
          /\ cpc \in {"done", "aborted"} /\ spc = "done"
          /\ report' = IF cpc = "done" THEN "successful" ELSE "failed"
          /\ UNCHANGED <<key, h, offsets, verbose, fault, cpc, spc, c2s, s2c, wit, cl, out>>

Next == ClientStep \/ ServerStep \/ Report

Spec == Init /\ [][Next]_vars
FairSpec == Spec /\ WF_vars(ClientStep) /\ WF_vars(ServerStep) /\ WF_vars(Report)
----------------------------------------------------------------------------
(* Properties.                                                             *)

Indices == 0 .. (LenCom - 1)
Verdict == {"done", "aborted"}

\* Every variable has its type; at most two messages wait in a direction.
TypeOK ==
  /\ key \in Keys /\ h \in Inputs /\ offsets \in OffsetChoices
  /\ verbose \in BOOLEAN /\ fault \in Faults
  /\ cpc \in ClientPc /\ spc \in ServerPc
  /\ report \in {"none", "successful", "failed"}
  /\ Len(c2s) <= 2 /\ \A i \in 1 .. Len(c2s) : c2s[i].kind \in ClientKind
  /\ Len(s2c) <= 2 /\ \A i \in 1 .. Len(s2c) : s2c[i].kind \in ServerKind
  /\ wit = NoWitness \/ DOMAIN wit.e = Indices

\* The traffic is half duplex: bytes never wait in both directions at once.
\* eval and blindedEval both send before they receive nowhere at the same time,
\* so the two blocking coroutines never need more buffer than one direction.
HalfDuplex == c2s = <<>> \/ s2c = <<>>

\* The message each side's next receive is written for.
ClientExpects ==
  CASE cpc = "baseOt" -> "pk"
    [] cpc \in {"otExt", "pprf"} -> "sums"
    [] cpc = "zkDerand" -> "derand"
    [] cpc = "zkCheck" -> "cuv"
    [] cpc = "vpDerand" -> "vpDerand"
    [] cpc = "vpCheck" -> "check"
    [] cpc = "vpFinish" -> "uv"
    [] cpc = "recvE" -> "e"
    [] cpc \in {"challenge", "recvM"} -> "m"
    [] cpc \in {"seed", "verify"} -> "coefs"
    [] OTHER -> "nothing"
ServerExpects ==
  CASE spc \in {"baseOt", "ctxt"} -> "ctxt"
    [] spc = "otExt" -> "extU"
    [] spc \in {"witness", "zkSeed"} -> "seed"
    [] spc \in {"vpDerand", "gamma"} -> "gamma"
    [] spc = "lambda" -> "lambda"
    [] spc \in {"sendE", "recvC"} -> "c"
    [] spc = "zkProve" -> "zkSeed"
    [] OTHER -> "nothing"

\* A receive is never filled from the bytes of another message: whatever the
\* interleaving, the early returns and the corrupted message, the next message
\* of a queue is the one its receiver's next recv is sized and parsed for
\* (an aborted client reads nothing more).
FramesMatch ==
  /\ s2c /= <<>> /\ cpc /= "aborted" => Head(s2c).kind = ClientExpects
  /\ c2s /= <<>> => Head(c2s).kind = ServerExpects

\* What the PRF of this key is on this input, without any of the protocol:
\* no v, b, a or channel.
PrfE == [i \in Indices |-> Symbol(key + l(i))]
PrfEPrime == [i \in 0 .. (LenEval - 1) |-> SymbolPrime(key + lPrime(i) + h)]

\* Obliviousness does not change the result: when eval returns true after the
\* server sent its true symbols, the transcript hashed by H2 is the PRF of the
\* key and the input, for every randomness v and b the server drew, because
\* every accepted v_i is a nonzero EPS-th power.
OutputCorrect ==
  cpc = "done" /\ fault /= "eWrong" => out = [e |-> PrfE, ePrime |-> PrfEPrime, x |-> h]

\* eval returns true only if the symbols that were challenged are the key's
\* own, whatever e the server sent; an unchallenged one may be wrong.
ChallengedRight ==
  cpc = "done" => \A i \in 0 .. (K - 1) : out.e[cl.c[i]] = PrfE[cl.c[i]]

\* A session in which the server's commitment, VOLE+ check, u', v', a zero
\* symbol, m or proof was corrupted never ends with a PRF value.
CheatCaught == fault \notin {"none", "eWrong"} => cpc /= "done"

ZeroDrawn == /\ wit /= NoWitness
             /\ \/ \E i \in 0 .. (LenEval - 1) : wit.v[i] = 0
                \/ \E i \in 0 .. (K - 1) : wit.b[i] = 0

\* An honest session that the client aborts has one of three causes, each of
\* negligible probability in the real field: the key is the negative of a
\* commitment offset, or random_power_eps drew a zero for a v or for a b.
HonestAbortReasons ==
  fault = "none" /\ cpc = "aborted" =>
    \/ \E i \in Indices : (key + l(i)) % P = 0
    \/ ZeroDrawn

\* An honest session ends with main printing success, verbose flushes included,
\* unless the server's key is refused or vanishes on a symbol, or a zero is drawn.
GoodKey == ~ KeyCollides /\ \A i \in Indices : (key + l(i)) % P /= 0
HonestCompletes == (fault = "none" /\ GoodKey) ~> (report = "successful" \/ ZeroDrawn)

\* From verify on, the session always ends: a failed proof is reported and the
\* server thread is joined, even with the flushes of a verbose run.
LateVerdictReported == (cpc = "verify") ~> (report /= "none")

----------------------------------------------------------------------------
(* The ideal evaluation.                                                   *)

Ideal == INSTANCE IdealOPRF
           WITH prf <- [e |-> PrfE, ePrime |-> PrfEPrime, x |-> h],
                wrongSymbols <- fault = "eWrong",
                challenged <- {cl.c[i] : i \in DOMAIN cl.c},
                client <- IF cpc \in Verdict THEN cpc ELSE "running"

\* Every step of the two coroutines and of main is a step of the ideal evaluation or
\* invisible to it: at most one verdict, an output only with it, symbols of the
\* key at the K challenged positions, and a report that says what the client returned.
ImplementsIdeal == Ideal!Spec
============================================================================
