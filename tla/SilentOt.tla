------------------------------ MODULE SilentOt ------------------------------
(***************************************************************************)
(* Silent OT: SilentOtExtSender and SilentOtExtReceiver.  The sender ends  *)
(* with b and delta, the receiver with a and the bits c, a = b + c delta;  *)
(* random OTs are hashes of them.  Base correlations come from an OT       *)
(* extension object, from base OTs or from setBaseCors; the users of both  *)
(* objects run the same plan of calls.                                     *)
(*                                                                         *)
(* A value is the XOR of terms <<power, atom>>, the power one of the       *)
(* challenge of the malicious check.  The trees of the PPRF and the base   *)
(* OTs below the OT extension are ideal; its messages are here, since the  *)
(* two objects decide on their own which of them they exchange.            *)
(***************************************************************************)
EXTENDS XorSpace, Sequences

CONSTANTS
  Partitions, SizePer,    \* mNumPartitions, mSizePer
  Request, NoiseVecSize,  \* mRequestNumOts, mNoiseVecSize
  Points, BaseChoices,    \* noise points and base VOLE choices to draw from
  Plans,                  \* sequences of calls, see below
  Debugs, Faults          \* values of mDebug; 0 or a tree the sender gets wrong

SilentOtAssumption ==
  /\ {Partitions, SizePer, Request} \subseteq Nat \ {0}
  /\ NoiseVecSize >= Partitions * SizePer /\ NoiseVecSize >= 2 * Request

Trees == 0..(Partitions - 1)
Leaves == 0..(SizePer - 1)
Positions == 0..(NoiseVecSize - 1)
Outputs == 0..(Request - 1)

\* The calls a user makes; d is the delta asked for, Any for none.
Any == <<>>
Configure(noise, mal) == [op |-> "configure", noise |-> noise, mal |-> mal]
Query(side) == [op |-> "query", side |-> side]
GenOts == [op |-> "ots"]
SetOts(d) == [op |-> "setOts", d |-> d]
GenCors(d, ext) == [op |-> "gen", d |-> d, ext |-> ext]
SetCors(d) == [op |-> "cors", d |-> d]
Run(kind, d, n) == [op |-> "run", kind |-> kind, d |-> d, n |-> n]
Clear == [op |-> "clear"]
Split == [op |-> "split"]

VARIABLES conf, S, R, toS, toR, closed
vars == <<conf, S, R, toS, toR, closed>>

-----------------------------------------------------------------------------
(* Values and objects.                                                     *)

Atom(a) == {<<<<>>, a>>}
Bit(c, v) == If(c = 1, v)
Power(seed, e, v) == {<<<<seed, e>>, t[2]>> : t \in v}
DeltaOf(d) == Atom(<<"delta", d>>)
\* A formal polynomial in the challenge times delta.
PolyTimes(p, d) == {<<t[1], <<"delta", d>>>> : t \in p}

\* The OT extension object: none yet, made with init() (hashed) or with
\* init(2, false) for the choices delta.
NoExt == [made |-> FALSE, hashed |-> FALSE, set |-> FALSE, delta |-> Any]
EmptyExt == [NoExt EXCEPT !.made = TRUE, !.hashed = TRUE]

Party ==
  [pc |-> "idle", ret |-> "idle", step |-> 1, why |-> "", ext |-> NoExt,
   req |-> 0, mal |-> FALSE, noise |-> "Regular",     \* configure()
   ots |-> FALSE, shared |-> FALSE, junk |-> 0, counter |-> 0,  \* mGenVar
   points |-> <<>>, seed |-> 0,
   base |-> <<>>, baseC |-> <<>>, check |-> [id |-> 0, flip |-> {}],
   delta |-> Any, want |-> Any, direct |-> FALSE,
   vec |-> <<>>, outs |-> <<>>]

Init ==
  /\ \E plan \in Plans, points \in Points, c \in BaseChoices,
        debug \in Debugs, fault \in Faults :
       conf = [plan |-> plan, points |-> points, c |-> c, debug |-> debug, fault |-> fault]
  /\ S = Party /\ R = Party /\ toS = <<>> /\ toR = <<>> /\ closed = FALSE

IsConfigured(p) == p.req > 0
Regular(p) == p.noise = "Regular"
BaseOtCount(p) == (IF p.shared THEN 0 ELSE Partitions * SizePer) + (IF p.mal THEN 128 ELSE 0)
BaseVoleCount(p) == IF Regular(p) THEN 0 ELSE Partitions
HasBaseCors(p) == (p.shared \/ p.ots) /\ Len(p.base) = BaseVoleCount(p)

DoConfigure(p, n, noise, mal) ==
  [p EXCEPT !.req = n, !.noise = noise, !.mal = mal, !.ots = FALSE,
            !.shared = FALSE, !.counter = 0, !.seed = 0]
AutoConfigure(p, n) ==
  IF IsConfigured(p) THEN p ELSE DoConfigure(p, n, "Regular", p.mal)

\* gen() is not cleared: mRequestNumOts is zero by then.
ClearSender(p) == [p EXCEPT !.req = 0, !.delta = Any, !.vec = <<>>]
ClearReceiver(p) == [p EXCEPT !.req = 0, !.vec = <<>>]

SetBaseCorsLoose(p, id, base, c) == [p EXCEPT !.ots = TRUE, !.base = base, !.baseC = c]
SetBaseCors(p, id, base, c) ==
  [SetBaseCorsLoose(p, id, base, c) EXCEPT !.check = [id |-> id, flip |-> {}]]

Op(p) == conf.plan[p.step]
AtOp(p, op) == p.pc = "idle" /\ p.step <= Len(conf.plan) /\ Op(p).op = op
Done(p) == [p EXCEPT !.pc = "idle", !.step = p.step + 1]
Throw(p, why) == [p EXCEPT !.pc = "throw", !.why = why]
Msg(tag, v) == [tag |-> tag, v |-> v]
Is(queue, tag) == queue # <<>> /\ Head(queue).tag = tag
Wrong(queue, tag) == queue # <<>> /\ Head(queue).tag # tag

-----------------------------------------------------------------------------
(* Calls that need no peer.                                                *)

Local(p, clear(_)) ==
  LET op == Op(p)
  IN  CASE op.op = "configure" -> Done(DoConfigure(p, Request, op.noise, op.mal))
        [] op.op = "clear" -> Done(clear(p))
        [] op.op = "setOts" ->
             Done([p EXCEPT !.ext = [made |-> TRUE, hashed |-> ~p.ext.made \/ p.ext.hashed,
                                     set |-> TRUE, delta |-> op.d]])
        [] op.op = "split" ->
             IF p.ext.made
             THEN [Done([Party EXCEPT !.ext = p.ext, !.step = p.step]) EXCEPT !.outs = p.outs]
             ELSE Throw(p, "no ext")
IsLocal(p) == \E op \in {"configure", "clear", "setOts", "split"} : AtOp(p, op)

\* baseOtCount() is const and makes the OT extension object all the same.
SenderQuery ==
  /\ AtOp(S, "query")
  /\ S' = Done(IF Op(S).side # "receiver" /\ ~S.ext.made THEN [S EXCEPT !.ext = EmptyExt] ELSE S)
  /\ UNCHANGED <<conf, R, toS, toR, closed>>
ReceiverQuery ==
  /\ AtOp(R, "query")
  /\ R' = Done(IF Op(R).side # "sender" /\ ~R.ext.made THEN [R EXCEPT !.ext = EmptyExt] ELSE R)
  /\ UNCHANGED <<conf, S, toS, toR, closed>>

SenderLocal ==
  /\ IsLocal(S) /\ S' = Local(S, ClearSender)
  /\ UNCHANGED <<conf, R, toS, toR, closed>>
ReceiverLocal ==
  /\ IsLocal(R) /\ R' = Local(R, ClearReceiver)
  /\ UNCHANGED <<conf, S, toS, toR, closed>>

\* Correlations made elsewhere, with the choices of sampleBaseChoiceBits.
DealtB(p) == [j \in 1..BaseVoleCount(p) |-> Atom(<<"b", p.step, j>>)]
SenderSetCors ==
  /\ AtOp(S, "cors")
  /\ S' = IF IsConfigured(S)
          THEN [Done(SetBaseCors(S, S.step, DealtB(S), <<>>)) EXCEPT !.delta = Op(S).d]
          ELSE Throw(S, "configure")
  /\ UNCHANGED <<conf, R, toS, toR, closed>>
ReceiverSetCors ==
  /\ AtOp(R, "cors")
  /\ R' = IF IsConfigured(R)
          THEN LET b == DealtB(R)
               IN  [Done(SetBaseCors(R, R.step,
                      [j \in DOMAIN b |-> Xor(b[j], Bit(conf.c[j], DeltaOf(Op(R).d)))],
                      SubSeq(conf.c, 1, BaseVoleCount(R)))) EXCEPT !.points = conf.points]
          ELSE Throw(R, "configure")
  /\ UNCHANGED <<conf, S, toS, toR, closed>>

-----------------------------------------------------------------------------
(* genBaseOts of the OT extension object and genBaseCors.                  *)

SenderGenOts ==
  /\ AtOp(S, "ots")
  /\ S' = [S EXCEPT !.pc = "base", !.ret = "ots", !.ext = IF S.ext.made THEN S.ext ELSE EmptyExt]
  /\ UNCHANGED <<conf, R, toS, toR, closed>>
ReceiverGenOts ==
  /\ AtOp(R, "ots")
  /\ R' = [R EXCEPT !.pc = "baseReply", !.ret = "ots",
                    !.ext = IF R.ext.made THEN R.ext ELSE EmptyExt]
  /\ toS' = Append(toS, Msg("baseOt", 0))
  /\ UNCHANGED <<conf, S, toR, closed>>

\* delta.value_or(mDelta.value_or(prng.get())).
WantedDelta(p, d) ==
  IF d # Any THEN d ELSE IF p.delta # Any THEN p.delta ELSE <<"fresh", p.step>>

\* A delta other than the choices of the extension cannot give base VOLEs.
OtherDelta(p) == p.ext.made /\ p.ext.delta # p.want /\ BaseVoleCount(p) > 0

EnterGenSender(p, d, ext, ret) ==
  LET q == [p EXCEPT !.want = WantedDelta(p, d), !.ret = ret]
  IN  CASE ~IsConfigured(p) -> Throw(p, "configure")
        [] ~ext -> [q EXCEPT !.pc = "direct"]
        [] ext /\ OtherDelta(q) -> Throw(p, "delta")
        [] ext /\ ~q.ext.made ->
             [q EXCEPT !.pc = "base", !.ext = [NoExt EXCEPT !.made = TRUE, !.delta = q.want]]
        [] ext /\ q.ext.made /\ ~OtherDelta(q) -> [q EXCEPT !.pc = IF q.ext.set THEN "ext" ELSE "base"]

SenderGen ==
  /\ AtOp(S, "gen")
  /\ S' = EnterGenSender(S, Op(S).d, Op(S).ext, "idle")
  /\ closed' = (closed \/ S'.pc = "throw")
  /\ UNCHANGED <<conf, R, toS, toR>>

\* Choice bits: new points, or random bits when the PPRF has its OTs already.
Sampled(p) ==
  {conf.points} \cup (IF p.ots /\ ~p.shared THEN {[j \in Trees |-> SizePer]} ELSE {})

EnterGenReceiver(p, ext, ret, points) ==
  LET q == [p EXCEPT !.ret = ret, !.baseC = SubSeq(conf.c, 1, BaseVoleCount(p)), !.direct = ~ext,
                     !.points = IF p.shared THEN p.points ELSE points]
  IN  CASE ~IsConfigured(p) -> Throw(p, "configure")
        [] ~ext -> [q EXCEPT !.pc = "sendCount"]
        [] ext /\ ~q.ext.made -> [q EXCEPT !.pc = "sendBase", !.ext = [NoExt EXCEPT !.made = TRUE]]
        [] ext /\ q.ext.made -> [q EXCEPT !.pc = IF q.ext.set THEN "sendCount" ELSE "sendBase"]

ReceiverGen ==
  /\ AtOp(R, "gen")
  /\ \E points \in Sampled(R) : R' = EnterGenReceiver(R, Op(R).ext, "idle", points)
  /\ closed' = (closed \/ R'.pc = "throw")
  /\ UNCHANGED <<conf, S, toS, toR>>

\* The base OTs of the extension: a message each way.
ReceiverBase ==
  /\ R.pc = "sendBase"
  /\ R' = [R EXCEPT !.pc = "baseReply"]
  /\ toS' = Append(toS, Msg("baseOt", 0))
  /\ UNCHANGED <<conf, S, toR, closed>>
\* Choices the extension draws for itself, unless it was made for a delta.
BaseChoice(p) == IF p.ext.delta # Any THEN p.ext.delta ELSE <<"ots", p.step>>
SenderBase ==
  /\ S.pc = "base" /\ Is(toS, "baseOt")
  /\ toS' = Tail(toS) /\ toR' = Append(toR, Msg("baseOt", 0))
  /\ LET q == [S EXCEPT !.ext.set = TRUE, !.ext.delta = BaseChoice(S)]
     IN  S' = IF S.ret = "ots" THEN Done(q) ELSE [q EXCEPT !.pc = "ext"]
  /\ UNCHANGED <<conf, R, closed>>
ReceiverBaseReply ==
  /\ R.pc = "baseReply" /\ Is(toR, "baseOt")
  /\ toR' = Tail(toR)
  /\ LET q == [R EXCEPT !.ext.set = TRUE]
     IN  R' = IF R.ret = "ots" THEN Done(q) ELSE [q EXCEPT !.pc = "sendCount"]
  /\ UNCHANGED <<conf, S, toS, closed>>

\* The OTs: the extension answers with its challenge and, when it hashes, a
\* key; base OTs with the offsets of the base VOLEs.
Count(p) == BaseOtCount(p) + BaseVoleCount(p)
ReceiverCount ==
  /\ R.pc = "sendCount"
  /\ toS' = Append(toS, Msg(IF R.direct THEN "direct" ELSE "ext", Count(R)))
  /\ R' = [R EXCEPT !.pc = CASE ~R.direct -> "challenge"
                             [] R.direct /\ BaseVoleCount(R) > 0 -> "offsets"
                             [] R.direct /\ BaseVoleCount(R) = 0 -> "genDone"]
  /\ UNCHANGED <<conf, S, toR, closed>>

SenderExt ==
  /\ S.pc = "ext" /\ Is(toS, "ext") /\ Head(toS).v = Count(S)
  /\ toS' = Tail(toS)
  /\ toR' = toR \o <<Msg("challenge", 0)>> \o (IF S.ext.hashed THEN <<Msg("key", 0)>> ELSE <<>>)
  /\ S' = [S EXCEPT !.pc = "response"]
  /\ UNCHANGED <<conf, R, closed>>
ReceiverChallenge ==
  /\ R.pc = "challenge" /\ Is(toR, "challenge")
  /\ toR' = Tail(toR)
  /\ IF R.ext.hashed THEN R' = [R EXCEPT !.pc = "key"] /\ UNCHANGED toS
     ELSE R' = [R EXCEPT !.pc = "genDone"] /\ toS' = Append(toS, Msg("response", 0))
  /\ UNCHANGED <<conf, S, closed>>
ReceiverKey ==
  /\ R.pc = "key" /\ Is(toR, "key")
  /\ toR' = Tail(toR) /\ toS' = Append(toS, Msg("response", 0))
  /\ R' = [R EXCEPT !.pc = "genDone"]
  /\ UNCHANGED <<conf, S, closed>>
SenderResponse ==
  /\ S.pc = "response" /\ Is(toS, "response")
  /\ toS' = Tail(toS)
  /\ S' = [S EXCEPT !.pc = "genDone",
             !.base = [j \in 1..BaseVoleCount(S) |-> Atom(<<"w", S.step, j, 0>>)]]
  /\ UNCHANGED <<conf, R, toR, closed>>

Offset(p, j) ==
  Xor(Xor(Atom(<<"w", p.step, j, 0>>), Atom(<<"w", p.step, j, 1>>)), DeltaOf(p.want))
SenderDirect ==
  /\ S.pc = "direct" /\ Is(toS, "direct") /\ Head(toS).v = Count(S)
  /\ toS' = Tail(toS)
  /\ toR' = IF BaseVoleCount(S) = 0 THEN toR
            ELSE Append(toR, Msg("offsets", [j \in 1..Partitions |-> Offset(S, j)]))
  /\ S' = [S EXCEPT !.pc = "genDone",
             !.base = [j \in 1..BaseVoleCount(S) |-> Atom(<<"w", S.step, j, 0>>)]]
  /\ UNCHANGED <<conf, R, closed>>
DirectShare(p, j, offset) ==
  Xor(Atom(<<"w", p.step, j, p.baseC[j]>>), Bit(p.baseC[j], offset))
ReceiverOffsets ==
  /\ R.pc = "offsets" /\ Is(toR, "offsets")
  /\ toR' = Tail(toR)
  /\ R' = [R EXCEPT !.pc = "genDone",
             !.base = [j \in 1..Partitions |-> DirectShare(R, j, Head(toR).v[j])]]
  /\ UNCHANGED <<conf, S, toS, closed>>

\* What the extension gives the receiver: unhashed, a Delta OT.
ExtShare(p, j) ==
  IF p.ext.hashed THEN Atom(<<"w", p.step, j, p.baseC[j]>>)
  ELSE Xor(Atom(<<"w", p.step, j, 0>>), Bit(p.baseC[j], DeltaOf(S.ext.delta)))

AfterGen(p) == IF p.ret = "idle" THEN Done(p) ELSE [p EXCEPT !.pc = "expand"]
SenderGenDone ==
  /\ S.pc = "genDone"
  /\ S' = LET q == SetBaseCors(S, S.step, S.base, <<>>)
          IN  AfterGen([q EXCEPT !.delta = S.want])
  /\ UNCHANGED <<conf, R, toS, toR, closed>>
OutOfDomain(p) == ~p.shared /\ \E j \in DOMAIN p.points : p.points[j] \notin Leaves
ReceiverGenDone ==
  /\ R.pc = "genDone"
  /\ R' = IF OutOfDomain(R) THEN Throw(R, "points")
          ELSE AfterGen(SetBaseCors(R, R.step,
                 IF R.direct THEN R.base
                 ELSE [j \in 1..BaseVoleCount(R) |-> ExtShare(R, j)], R.baseC))
  /\ closed' = (closed \/ OutOfDomain(R))
  /\ UNCHANGED <<conf, S, toS, toR>>

-----------------------------------------------------------------------------
(* silentSend and silentReceive.                                           *)

\* A random or chosen transfer passes mDelta on, a correlated one the user's.
Asked(p) == IF Op(p).kind \in {"random", "chosen"} THEN p.delta ELSE Op(p).d

SenderEnter ==
  /\ AtOp(S, "run")
  /\ S' = LET q == AutoConfigure(S, Op(S).n)
          IN  IF q.req # Op(S).n THEN Throw(q, "size")
              ELSE IF HasBaseCors(q) THEN [q EXCEPT !.pc = "expand", !.want = Asked(S)]
              ELSE EnterGenSender(q, Asked(S), TRUE, "run")
  /\ closed' = (closed \/ S'.pc = "throw")
  /\ UNCHANGED <<conf, R, toS, toR>>
ReceiverEnter ==
  /\ AtOp(R, "run")
  /\ LET q == AutoConfigure(R, Op(R).n)
     IN  \E points \in Sampled(q) :
           R' = IF q.req # Op(R).n THEN Throw(q, "size")
                ELSE IF HasBaseCors(q) THEN [q EXCEPT !.pc = "expand"]
                ELSE EnterGenReceiver(q, TRUE, "run", points)
  /\ closed' = (closed \/ R'.pc = "throw")
  /\ UNCHANGED <<conf, S, toS, toR>>

\* The delta of the call: that of the setup for stationary noise.
RefusesDelta(p) == ~Regular(p) /\ Asked(p) # Any /\ Asked(p) # p.delta
CallDelta(p) ==
  IF Regular(p) THEN (IF Asked(p) # Any THEN Asked(p) ELSE WantedDelta(p, Any)) ELSE p.delta

Place(p, j, x) == IF Regular(p) THEN x * Partitions + j ELSE j * SizePer + x
PointOf(p, j) == Place(p, j, p.points[j])
Leaf(p, j, x) ==
  IF Regular(p) THEN Atom(<<"leaf", p.step, j, x>>)
  ELSE Atom(<<"hash", p.junk, p.counter, j, x>>)
Spread(p, f(_, _)) ==
  [pos \in Positions |->
     IF \E j \in Trees, x \in Leaves : Place(p, j, x) = pos
     THEN LET at == CHOOSE q \in Trees \X Leaves : Place(p, q[1], q[2]) = pos
          IN  f(at[1], at[2])
     ELSE ZeroBlock]
Shared(p) == IF Regular(p) \/ p.shared THEN p
             ELSE [p EXCEPT !.shared = TRUE, !.junk = p.step, !.counter = 0]
Error(j) == If(conf.fault = j + 1, Atom(<<"error", j>>))

\* The value at the noise: the base share of a tree, or delta for all.
Programs(p, j) == IF p.base # <<>> THEN p.base[j + 1] ELSE DeltaOf(p.delta)
TreeSums(q) ==
  [j \in Trees |-> Xor(Error(j), Xor(Programs(q, j), XorAll(Leaves, LAMBDA x : Leaf(q, j, x))))]

SenderExpand ==
  /\ S.pc = "expand"
  /\ IF RefusesDelta(S) THEN S' = Throw(S, "delta") /\ closed' = TRUE /\ UNCHANGED toR
     ELSE IF closed THEN S' = Throw(S, "channel") /\ UNCHANGED <<toR, closed>>
     ELSE LET q == [Shared(S) EXCEPT !.delta = CallDelta(S)]
          IN  /\ S' = [q EXCEPT !.pc = IF q.mal THEN "check" ELSE "debug", !.ots = FALSE,
                         !.vec = Spread(q, LAMBDA j, x : Leaf(q, j, x)),
                         !.counter = q.counter + 1]
              /\ toR' = Append(toR, Msg("sums", TreeSums(q)))
              /\ UNCHANGED closed
  /\ UNCHANGED <<conf, R, toS>>

\* A choice bit of 0 at the noise leaves the sender's leaf there.
AtNoise(p, j, sum) ==
  Xor(Xor(sum, XorAll(Leaves \ {p.points[j]}, LAMBDA x : Leaf(p, j, x))),
      IF p.base # <<>> THEN p.base[j + 1] ELSE ZeroBlock)
ReceiverExpand ==
  /\ R.pc = "expand" /\ Is(toR, "sums")
  /\ LET q == Shared(R)
     IN  R' = [q EXCEPT !.pc = IF q.mal THEN "challengeX" ELSE "debug", !.ots = FALSE,
                 !.counter = q.counter + 1,
                 !.vec = Spread(q, LAMBDA j, x :
                           IF x = q.points[j] THEN AtNoise(q, j, Head(toR).v[j])
                           ELSE Leaf(q, j, x))]
  /\ toR' = Tail(toR)
  /\ UNCHANGED <<conf, S, toS, closed>>

NoiseBit(p, j) == IF p.baseC # <<>> THEN p.baseC[j + 1] ELSE 1

\* ferretMalCheck.  The receiver's X * (noise) is derandomized against the
\* choices of the check OTs, which then give shares of it times delta.
CheckX(p) ==
  XorAll({j \in Trees : NoiseBit(p, j) = 1},
         LAMBDA j : Power(p.step, PointOf(p, j) + 1, Atom(<<"one">>)))
CheckChoices(p) == Atom(<<"kappa", p.check.id>>)
ReceiverChallengeX ==
  /\ R.pc = "challengeX"
  /\ toS' = Append(toS, Msg("x", [seed |-> R.step, diff |-> Xor(CheckX(R), CheckChoices(R))]))
  /\ R' = [R EXCEPT !.pc = "hash"]
  /\ UNCHANGED <<conf, S, toR, closed>>

PolySum(p, seed) == XorAll(Positions, LAMBDA i : Power(seed, i + 1, p.vec[i]))
SenderCheck ==
  /\ S.pc = "check" /\ Is(toS, "x")
  /\ toS' = Tail(toS)
  /\ LET flip == Xor(S.check.flip, Head(toS).v.diff)
         a0 == Atom(<<"checkMask", S.step>>)
     IN  /\ S' = [S EXCEPT !.pc = "debug", !.check.flip = flip]
         /\ toR' = Append(toR, Msg("hash",
              [id |-> S.check.id, flip |-> flip, a0 |-> a0, delta |-> S.delta,
               hash |-> Xor(PolySum(S, Head(toS).v.seed), a0)]))
  /\ UNCHANGED <<conf, R, closed>>

\* The receiver's share, right when the swapped OTs carry its choices.
CheckShare(p, m) ==
  IF m.id = p.check.id /\ Xor(CheckChoices(p), m.flip) = CheckX(p)
  THEN Xor(m.a0, PolyTimes(CheckX(p), m.delta))
  ELSE Atom(<<"garbage", p.step>>)
HashFailsAny(theirs, mine) == FALSE
HashFails(theirs, mine) == theirs # mine
ReceiverHash ==
  /\ R.pc = "hash" /\ Is(toR, "hash")
  /\ toR' = Tail(toR)
  /\ LET m == Head(toR).v
     IN  IF HashFails(m.hash, Xor(PolySum(R, R.step), CheckShare(R, m)))
         THEN R' = Throw(R, "check") /\ closed' = TRUE
         ELSE R' = [R EXCEPT !.pc = "debug"] /\ UNCHANGED closed
  /\ UNCHANGED <<conf, S, toS>>

\* checkRT, when both sides debug.
SenderDebug ==
  /\ S.pc = "debug"
  /\ S' = [S EXCEPT !.pc = "encode"]
  /\ toR' = IF conf.debug THEN Append(toR, Msg("debug", [b |-> S.vec, delta |-> S.delta])) ELSE toR
  /\ UNCHANGED <<conf, R, toS, closed>>
Noise(p, pos, v) == If(\E j \in Trees : PointOf(p, j) = pos /\ NoiseBit(p, j) = 1, v)
ReceiverDebug ==
  /\ R.pc = "debug" /\ (conf.debug => Is(toR, "debug"))
  /\ LET m == Head(toR).v
         right == conf.debug => \A pos \in Positions :
                    Xor(m.b[pos], R.vec[pos]) = Noise(R, pos, DeltaOf(m.delta))
     IN  /\ R' = IF right THEN [R EXCEPT !.pc = "encode"] ELSE Throw(R, "check")
         /\ closed' = (closed \/ ~right)
  /\ toR' = IF conf.debug THEN Tail(toR) ELSE toR
  /\ UNCHANGED <<conf, S, toS>>

\* The dual encoder of the code the seed stands for; the choice bits go
\* through it packed into a, or as a vector of their own.
Mixed(seed, i) == Request + ((i + seed) % Request)
DualEncode(seed, v) == [i \in Outputs |-> Xor(v[i], v[Mixed(seed, i)])]
EncodedBit(p, i) ==
  LET at(pos) == Cardinality({j \in Trees : PointOf(p, j) = pos /\ NoiseBit(p, j) = 1})
  IN  (at(i) + at(Mixed(p.seed, i))) % 2

Random(p) == Op(p).kind \in {"random", "chosen"}
Hash(v) == Atom(<<"H", v>>)
\* Random transfers keep stationary noise, a correlated one clears the sender.
AfterCallKeeps(p, clear(_)) == p
AfterCallSender(p) ==
  IF (Random(p) /\ Regular(p)) \/ Op(p).kind = "correlated" THEN ClearSender(p) ELSE p
AfterCallReceiver(p) ==
  IF Op(p).kind # "inplace" /\ Regular(p) THEN ClearReceiver(p) ELSE p

SenderEncode ==
  /\ S.pc = "encode"
  /\ LET b == DualEncode(S.seed, S.vec)
         q == [S EXCEPT !.seed = S.seed + 1, !.base = <<>>]
         out == [step |-> S.step, delta |-> S.delta, pads |-> S.vec,
                 m |-> IF Random(S)
                       THEN [i \in Outputs |-> <<Hash(b[i]), Hash(Xor(b[i], DeltaOf(S.delta)))>>]
                       ELSE [i \in Outputs |-> <<b[i], Xor(b[i], DeltaOf(S.delta))>>]]
     IN  S' = [AfterCallSender(q) EXCEPT
                 !.pc = IF Op(S).kind = "chosen" THEN "correct" ELSE "return",
                 !.outs = Append(@, out), !.vec = <<>>]
  /\ UNCHANGED <<conf, R, toS, toR, closed>>

Chosen(i) == (i + 1) % 2
Corrections(c) == [i \in Outputs |-> (c[i] + Chosen(i)) % 2]
ReceiverEncode ==
  /\ R.pc = "encode"
  /\ LET a == DualEncode(R.seed, R.vec)
         c == [i \in Outputs |-> EncodedBit(R, i)]
         chosen == Op(R).kind = "chosen"
         q == [R EXCEPT !.seed = R.seed + 1, !.base = <<>>, !.baseC = <<>>]
         out == [step |-> R.step, c |-> IF chosen THEN [i \in Outputs |-> Chosen(i)] ELSE c,
                 m |-> IF Random(R) THEN [i \in Outputs |-> Hash(a[i])] ELSE a]
     IN  /\ R' = [AfterCallReceiver(q) EXCEPT
                    !.pc = "return", !.outs = Append(@, out), !.vec = <<>>]
         /\ toS' = IF chosen THEN Append(toS, Msg("correction", Corrections(c))) ELSE toS
  /\ UNCHANGED <<conf, S, toR, closed>>

SenderCorrect ==
  /\ S.pc = "correct" /\ Is(toS, "correction")
  /\ toS' = Tail(toS)
  /\ LET out == S.outs[Len(S.outs)]
         m == [i \in Outputs |->
                 IF Head(toS).v[i] = 1 THEN <<out.m[i][2], out.m[i][1]>> ELSE out.m[i]]
     IN  S' = [S EXCEPT !.pc = "return", !.outs[Len(S.outs)].m = m]
  /\ UNCHANGED <<conf, R, toR, closed>>

SenderReturn == S.pc = "return" /\ S' = Done(S) /\ UNCHANGED <<conf, R, toS, toR, closed>>
ReceiverReturn == R.pc = "return" /\ R' = Done(R) /\ UNCHANGED <<conf, S, toS, toR, closed>>

-----------------------------------------------------------------------------
(* Waiting and failing: a message of another size than expected, or a      *)
(* channel the peer closed.                                                *)

SenderExpects ==
  CASE S.pc = "base" -> "baseOt" [] S.pc = "ext" -> "ext" [] S.pc = "response" -> "response"
    [] S.pc = "direct" -> "direct" [] S.pc = "check" -> "x" [] S.pc = "correct" -> "correction"
    [] OTHER -> ""
ReceiverExpects ==
  CASE R.pc = "baseReply" -> "baseOt" [] R.pc = "challenge" -> "challenge" [] R.pc = "key" -> "key"
    [] R.pc = "offsets" -> "offsets" [] R.pc = "expand" -> "sums" [] R.pc = "hash" -> "hash"
    [] R.pc = "debug" /\ conf.debug -> "debug" [] OTHER -> ""
SenderWaits == SenderExpects # "" /\ toS = <<>>
ReceiverWaits == ReceiverExpects # "" /\ toR = <<>>

WrongCount == S.pc \in {"ext", "direct"} /\ Is(toS, SenderExpects) /\ Head(toS).v # Count(S)
SenderFails ==
  /\ SenderExpects # ""
  /\ \/ closed /\ toS = <<>> /\ S' = Throw(S, "channel") /\ UNCHANGED closed
     \/ /\ Wrong(toS, SenderExpects) \/ WrongCount
        /\ S' = Throw(S, "mixed") /\ closed' = TRUE
  /\ UNCHANGED <<conf, R, toS, toR>>
ReceiverFails ==
  /\ ReceiverExpects # ""
  /\ \/ closed /\ toR = <<>> /\ R' = Throw(R, "channel") /\ UNCHANGED closed
     \/ Wrong(toR, ReceiverExpects) /\ R' = Throw(R, "mixed") /\ closed' = TRUE
  /\ UNCHANGED <<conf, S, toS, toR>>

Sender ==
  \/ SenderQuery \/ SenderLocal \/ SenderSetCors \/ SenderGenOts \/ SenderGen
  \/ SenderBase \/ SenderExt \/ SenderResponse \/ SenderDirect \/ SenderGenDone
  \/ SenderEnter \/ SenderExpand \/ SenderCheck \/ SenderDebug \/ SenderEncode
  \/ SenderCorrect \/ SenderReturn \/ SenderFails
Receiver ==
  \/ ReceiverQuery \/ ReceiverLocal \/ ReceiverSetCors \/ ReceiverGenOts
  \/ ReceiverGen \/ ReceiverBase \/ ReceiverBaseReply \/ ReceiverCount
  \/ ReceiverChallenge \/ ReceiverKey \/ ReceiverOffsets \/ ReceiverGenDone
  \/ ReceiverEnter \/ ReceiverExpand \/ ReceiverChallengeX \/ ReceiverHash
  \/ ReceiverDebug \/ ReceiverEncode \/ ReceiverReturn \/ ReceiverFails
Next == Sender \/ Receiver

Spec == Init /\ [][Next]_vars

-----------------------------------------------------------------------------
(* Properties.                                                             *)

\* Setting base OTs with the choices delta and then using stationary noise is
\* let through although the extension hashes, which makes no base VOLE.
HashedForVole ==
  \E k, l \in 1..Len(conf.plan) :
    /\ k < l /\ conf.plan[k].op = "setOts"
    /\ conf.plan[l].op = "configure" /\ conf.plan[l].noise = "Stationary"

\* A call both sides return from is the transfer asked for, on a second call
\* of either noise, after a split and with base correlations of every source:
\* the receiver has the message of its choice, and not the other; chosen bits
\* are the user's; correlated messages differ by the delta of the user.
OtCorrect ==
  \A i \in 1..Len(S.outs), j \in 1..Len(R.outs) :
    LET s == S.outs[i]
        r == R.outs[j]
    IN  /\ s.step = r.step
        /\ s.step < S.step /\ r.step < R.step
        /\ conf.fault = 0 \/ conf.debug \/ \E k \in 1..s.step :
             /\ conf.plan[k].op = "configure" /\ conf.plan[k].mal
             /\ \A l \in (k + 1)..s.step : conf.plan[l].op # "configure"
        /\ ~HashedForVole
        => /\ \A k \in Outputs : r.m[k] = s.m[k][r.c[k] + 1] /\ r.m[k] # s.m[k][2 - r.c[k]]
           /\ conf.plan[s.step].d # Any /\ conf.plan[s.step].kind = "correlated"
                => s.delta = conf.plan[s.step].d

\* No leaf is in the vectors of two calls, although stationary noise keeps
\* its trees.
PadsFresh ==
  \A i, j \in 1..Len(S.outs) : i # j =>
    {S.outs[i].pads[pos] : pos \in Positions} \cap
    {S.outs[j].pads[pos] : pos \in Positions} \subseteq {ZeroBlock}

\* A value programmed wrong is found out by the malicious check or checkRT.
CheatCaught ==
  conf.fault # 0 /\ (R.mal \/ conf.debug) /\ R.pc \in {"encode", "return"} => FALSE

\* The calls that make honest parties fail, or wait for ever, without a word
\* in the documents: one side asks for baseOtCount(), genBaseCors twice, and
\* another call after a correlated one with stationary noise.
OneSided == \E k \in 1..Len(conf.plan) : conf.plan[k].op = "query" /\ conf.plan[k].side # "both"
Repeated ==
  \E k \in 1..(Len(conf.plan) - 1) :
    \/ conf.plan[k].op = "gen" /\ conf.plan[k + 1].op = "gen"
    \/ /\ conf.plan[k].op = "run" /\ conf.plan[k].kind = "correlated"
       /\ conf.plan[k + 1].op = "run"
       /\ \E l \in 1..k : conf.plan[l].op = "configure" /\ conf.plan[l].noise = "Stationary"
Refusals == {"configure", "size", "delta", "no ext"}

\* Otherwise a call fails only with a refusal the documents name, on the side
\* that refuses or by the channel it closes, and nobody waits for a peer that
\* is through with its calls.
Ended(p) == p.pc = "throw" \/ (p.pc = "idle" /\ p.step > Len(conf.plan))
HonestSucceeds ==
  conf.fault = 0 /\ ~OneSided /\ ~Repeated /\ ~HashedForVole =>
    /\ S.why \in {"", "channel"} \cup Refusals /\ R.why \in {"", "channel"} \cup Refusals
    /\ "channel" \in {S.why, R.why} => \E p \in {S, R} : p.why \in Refusals
    /\ (SenderWaits \/ Ended(S)) /\ (ReceiverWaits \/ Ended(R)) =>
          closed \/ (Ended(S) /\ Ended(R))

=============================================================================
