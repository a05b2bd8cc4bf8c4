------------------------------ MODULE SilentVole ------------------------------
(***************************************************************************)
(* Silent VOLE: SilentVoleSender and SilentVoleReceiver with the noisy     *)
(* VOLE and the stationary PPRF below them.  The sender ends with b, the   *)
(* receiver with a and c, and a = b + c * delta.                           *)
(*                                                                         *)
(* Values are formal: a finite sum of terms with integer coefficients (or  *)
(* coefficients modulo 2 for block), a term being an atom times a power of *)
(* two of the noisy VOLE times a power of the challenge of the malicious   *)
(* check.  Two values are equal exactly when the protocol makes them equal *)
(* for every choice of the random atoms.  The users of both objects run    *)
(* the same plan of calls.                                                 *)
(***************************************************************************)
EXTENDS Integers, Sequences, FiniteSetsExt, SequencesExt

CONSTANTS
  DeltaBits,    \* bits of an element of F
  Partitions,   \* mNumPartitions, trees of the PPRF
  SizePer,      \* mSizePer, leaves of a tree
  Request,      \* mRequestSize of configure()
  NoiseVecSize, \* mNoiseVecSize, at least Partitions * SizePer
  Kinds,        \* subset of {"gf128", "integer"}
  Plans,        \* sequences of calls, see Op
  Debugs,       \* values of mDebug
  Faults        \* 0; a tree whose programmed value the sender gets wrong;
                \* or BadOts, base OTs of the receiver that do not pass

SilentVoleAssumption ==
  /\ {DeltaBits, Partitions, SizePer, Request} \subseteq Nat \ {0}
  /\ NoiseVecSize >= Partitions * SizePer
  /\ NoiseVecSize >= 2 * Request

BadOts == Partitions + 1
Trees == 0..(Partitions - 1)
Leaves == 0..(SizePer - 1)

\* The calls a user makes.
Configure(noise, mal, base) == [op |-> "configure", noise |-> noise, mal |-> mal, base |-> base]
SetBase == [op |-> "base"]
GenBase == [op |-> "gen"]
Run(sn, rn, inplace) == [op |-> "run", sn |-> sn, rn |-> rn, inplace |-> inplace]

VARIABLES
  conf,     \* the session: kind, delta, points, plan, debug, fault
  S, R,     \* the two objects and where their coroutines are
  toS, toR, \* messages under way, on the channel and on its fork
  closed

vars == <<conf, S, R, toS, toR, closed>>

-----------------------------------------------------------------------------
(* Formal elements of F and G.                                             *)

Zero == [t \in {} |-> 0]
Atom(a) == [t \in {<<0, <<>>, a>>} |-> 1]
Coefficient(v, t) == IF t \in DOMAIN v THEN v[t] ELSE 0
Reduce(n) == IF conf.kind = "gf128" THEN n % 2 ELSE n
Combine(a, s, b) ==
  LET sum(t) == Reduce(Coefficient(a, t) + s * Coefficient(b, t))
  IN  [t \in {u \in DOMAIN a \cup DOMAIN b : sum(u) # 0} |-> sum(t)]
Plus(a, b) == Combine(a, 1, b)
Minus(a, b) == Combine(a, -1, b)
SumOver(set, f(_)) == FoldSet(LAMBDA i, acc : Plus(f(i), acc), Zero, set)

\* powerOfTwo(i) * v, and x^e * v for the challenge of the given seed.
PowerOfTwo(i, v) == [t \in {<<i, u[2], u[3]>> : u \in DOMAIN v} |-> v[<<0, t[2], t[3]>>]]
Power(seed, e, v) ==
  [t \in {<<u[1], <<seed, e>>, u[3]>> : u \in DOMAIN v} |-> v[<<t[1], <<>>, t[3]>>]]
TimesDelta(v) == SumOver(conf.delta, LAMBDA i : PowerOfTwo(i, v))

-----------------------------------------------------------------------------
(* The objects.                                                            *)

Unset == [op |-> "configure", noise |-> "Regular", mal |-> FALSE, base |-> "BaseExtend"]

Party ==
  [pc |-> "idle", ret |-> "idle", step |-> 1,
   conf |-> Unset, state |-> "Default",  \* what configure() stored, mState
   ots |-> FALSE,      \* gen().hasBaseOts() of the regular generator
   shared |-> FALSE, junk |-> 0, counter |-> 0,   \* mExpanded, mShare, mExpandCounter
   seed |-> 0,         \* hashes applied to mCodeSeed since configure()
   otExt |-> FALSE,    \* the OT extension object has base OTs
   ot |-> "off", nv |-> "off",
   base |-> <<>>, baseC |-> <<>>,  \* mBaseB of the sender, mBaseA and mBaseC
   derand |-> FALSE, checkSeed |-> 0,
   vec |-> <<>>, vecC |-> <<>>,    \* mB, or mA and mC
   outs |-> <<>>]                  \* results of the calls so far

Init ==
  /\ \E kind \in Kinds, plan \in Plans, debug \in Debugs, fault \in Faults :
       \E delta \in SUBSET (0..(DeltaBits - 1)), points \in [Trees -> Leaves] :
         /\ \A k \in 1..Len(plan) :
              plan[k].op = "configure" /\ plan[k].mal => kind = "gf128"
         /\ conf = [kind |-> kind, plan |-> plan, debug |-> debug, fault |-> fault,
                    delta |-> delta, points |-> points]
  /\ S = Party /\ R = Party
  /\ toS = [main |-> <<>>, fork |-> <<>>]
  /\ toR = [main |-> <<>>, fork |-> <<>>]
  /\ closed = FALSE

IsConfigured(p) == p.state # "Default"
Regular(p) == p.conf.noise = "Regular"
BaseOtCount(p) == IF p.shared THEN 0 ELSE Partitions
BaseVoleCount(p) == Partitions + (IF p.conf.mal THEN 1 ELSE 0)
HasBaseCors(p) ==
  /\ IsConfigured(p)
  /\ p.shared \/ p.ots
  /\ Len(p.base) = BaseVoleCount(p)

DoConfigure(p, c) ==
  [p EXCEPT !.conf = c, !.state = "Configured", !.ots = FALSE, !.shared = FALSE,
            !.counter = 0, !.seed = 0]

\* silentSend and silentReceive configure themselves when nobody did.
AutoConfigure(p) ==
  IF IsConfigured(p) THEN p
  ELSE DoConfigure(p, [Unset EXCEPT !.mal = p.conf.mal])

SetBaseSender(p, b) ==
  [p EXCEPT !.ots = IF p.shared THEN p.ots ELSE TRUE,
            !.base = [i \in 1..Len(b) |-> Minus(Zero, b[i])],
            !.derand = IF p.conf.mal THEN TRUE ELSE p.derand]
SetBaseReceiver(p, a, c) ==
  [p EXCEPT !.ots = IF p.shared THEN p.ots ELSE TRUE, !.state = "HasBase",
            !.base = a, !.baseC = c,
            !.derand = IF p.conf.mal THEN TRUE ELSE p.derand]

\* Where leaf x of tree j is in the vectors, and getPoints with its shift.
PlaceByTree(p, j, x) == j * SizePer + x
Place(p, j, x) == IF Regular(p) THEN x * Partitions + j ELSE j * SizePer + x
PointOf(p, j) == Place(p, j, conf.points[j])

Op(p) == conf.plan[p.step]
AtOp(p, op) == p.pc = "idle" /\ p.step <= Len(conf.plan) /\ Op(p).op = op
Done(p) == [p EXCEPT !.pc = "idle", !.step = p.step + 1]
Throw(p) == [p EXCEPT !.pc = "throw"]
Send(queue, ch, msg) == [queue EXCEPT ![ch] = Append(@, msg)]
Take(queue, ch) == [queue EXCEPT ![ch] = Tail(@)]

-----------------------------------------------------------------------------
(* The users' calls that need no peer.                                     *)

SenderConfigure ==
  /\ AtOp(S, "configure")
  /\ S' = Done(DoConfigure(S, Op(S)))
  /\ UNCHANGED <<conf, R, toS, toR, closed>>

ReceiverConfigure ==
  /\ AtOp(R, "configure")
  /\ R' = Done(DoConfigure(R, Op(R)))
  /\ UNCHANGED <<conf, S, toS, toR, closed>>

\* Correlations made elsewhere: a = b + c * delta with random b and c.
DealtB(k, i) == Atom(<<"b", k, i>>)
DealtC(k, i) == Atom(<<"c", k, i>>)

SenderSetBase ==
  /\ AtOp(S, "base")
  /\ S' = IF IsConfigured(S)
          THEN Done(SetBaseSender(S, [i \in 1..BaseVoleCount(S) |-> DealtB(S.step, i)]))
          ELSE Throw(S)
  /\ UNCHANGED <<conf, R, toS, toR, closed>>

ReceiverSetBase ==
  /\ AtOp(R, "base")
  /\ R' = IF IsConfigured(R)
          THEN LET n == BaseVoleCount(R)
               IN  Done(SetBaseReceiver(R,
                     [i \in 1..n |-> Plus(DealtB(R.step, i), TimesDelta(DealtC(R.step, i)))],
                     [i \in 1..n |-> DealtC(R.step, i)]))
          ELSE Throw(R)
  /\ UNCHANGED <<conf, S, toS, toR, closed>>

-----------------------------------------------------------------------------
(* genBaseCors: the base OTs of the PPRF and the noisy VOLE, one after the *)
(* other while the OT extension still needs base OTs, else in parallel on  *)
(* two channels.                                                           *)

NeedsExt(p) == p.conf.base = "BaseExtend" /\ ~p.otExt
OtNeeded(p) == BaseOtCount(p) > 0 \/ NeedsExt(p)

EnterGen(p, ret) ==
  IF IsConfigured(p)
  THEN [p EXCEPT !.pc = "gen", !.ret = ret,
                 !.ot = IF OtNeeded(p) THEN "start" ELSE "done",
                 !.nv = IF NeedsExt(p) THEN "off" ELSE "start"]
  ELSE Throw(p)

\* The noisy VOLE has the channel to itself after the first OT extension.
VoleChannel(p) == IF NeedsExt(p) THEN "main" ELSE "fork"

\* malChecksum: the last entry of C is sum_i X^(point_i + 1) * C_i.
Checksum(p, c) ==
  SumOver(Trees, LAMBDA j : Power(p.step, PointOf(p, j) + 1, c[j + 1]))
WithChecksum(p, c) == IF p.conf.mal THEN [c EXCEPT ![Partitions + 1] = Checksum(p, c)] ELSE c
OwnC(p) ==
  WithChecksum(p, [i \in 1..BaseVoleCount(p) |-> Atom(<<"own", p.step, i>>)])

SenderGen ==
  /\ AtOp(S, "gen")
  /\ S' = EnterGen(S, "idle")
  /\ UNCHANGED <<conf, R, toS, toR>> /\ closed' = (closed \/ ~IsConfigured(S))

ReceiverGen ==
  /\ AtOp(R, "gen")
  /\ R' = [EnterGen(R, "idle") EXCEPT !.baseC = OwnC(R), !.checkSeed = R.step]
  /\ UNCHANGED <<conf, S, toS, toR>> /\ closed' = (closed \/ ~IsConfigured(R))

\* The OT receiver's message says how many OTs it takes part in.
OtCount(p) == BaseOtCount(p) + (IF NeedsExt(p) THEN 1 ELSE 0)
OtMessage == IF conf.fault = BadOts THEN 0 ELSE OtCount(R)

ReceiverOt ==
  /\ R.pc = "gen" /\ R.ot = "start"
  /\ R' = [R EXCEPT !.ot = "done", !.nv = IF R.nv = "off" THEN "start" ELSE @]
  /\ toS' = Send(toS, "main", OtMessage)
  /\ UNCHANGED <<conf, S, toR, closed>>

\* A failure closes the channel.  One of two parallel tasks that fails is not
\* looked at by when_all_ready: the other goes on, and so does the caller.
AfterFailedOt == IF NeedsExt(S) THEN Throw(S) ELSE [S EXCEPT !.ot = "failed"]

SenderOt ==
  /\ S.pc = "gen" /\ S.ot = "start" /\ toS.main # <<>>
  /\ toS' = Take(toS, "main")
  /\ IF Head(toS.main) = OtCount(S)
     THEN /\ S' = [S EXCEPT !.ot = "done", !.nv = IF S.nv = "off" THEN "start" ELSE @]
          /\ UNCHANGED closed
     ELSE S' = AfterFailedOt /\ closed' = TRUE
  /\ UNCHANGED <<conf, R, toR>>

\* NoisyVoleSender takes part in OTs with the bits of delta, then gets, for
\* every bit i, the masked 2^i * c; NoisyVoleReceiver has both masks.
Mask(k, i, bit, j) == Atom(<<"mask", k, i, bit, j>>)
DeltaDigits == 0..(DeltaBits - 1)

SenderNoisyOt ==
  /\ S.pc = "gen" /\ S.nv = "start"
  /\ S' = [S EXCEPT !.nv = "wait"]
  /\ toR' = Send(toR, VoleChannel(S), S.step)
  /\ UNCHANGED <<conf, R, toS, closed>>

NoisyMsg(p, i, j) ==
  Minus(Minus(Mask(p.step, i, 0, j), PowerOfTwo(i, p.baseC[j])), Mask(p.step, i, 1, j))

ReceiverNoisy ==
  /\ R.pc = "gen" /\ R.nv = "start" /\ toR[VoleChannel(R)] # <<>>
  /\ toR' = Take(toR, VoleChannel(R))
  /\ toS' = Send(toS, VoleChannel(R),
              [i \in DeltaDigits |-> [j \in 1..BaseVoleCount(R) |-> NoisyMsg(R, i, j)]])
  /\ R' = [R EXCEPT !.nv = "done",
             !.base = [j \in 1..BaseVoleCount(R) |->
                         SumOver(DeltaDigits, LAMBDA i : Mask(R.step, i, 0, j))]]
  /\ UNCHANGED <<conf, S, closed>>

NoisyShareFlipped(p, msg, j) ==
  SumOver(DeltaDigits, LAMBDA i :
    IF i \in conf.delta THEN Mask(p.step, i, 1, j)
    ELSE Plus(msg[i][j], Mask(p.step, i, 0, j)))
NoisyShare(p, msg, j) ==
  SumOver(DeltaDigits, LAMBDA i :
    IF i \in conf.delta THEN Plus(msg[i][j], Mask(p.step, i, 1, j))
    ELSE Mask(p.step, i, 0, j))

SenderNoisy ==
  /\ S.pc = "gen" /\ S.nv = "wait" /\ toS[VoleChannel(S)] # <<>>
  /\ toS' = Take(toS, VoleChannel(S))
  /\ S' = [S EXCEPT !.nv = "done",
             !.base = [j \in 1..BaseVoleCount(S) |->
                         NoisyShare(S, Head(toS[VoleChannel(S)]), j)]]
  /\ UNCHANGED <<conf, R, toR, closed>>

\* setBaseCors with what was made, which needs no derandomization; then the
\* caller goes on.
GenDone(p) == p.pc = "gen" /\ p.ot \in {"done", "failed"} /\ p.nv = "done"
AfterGen(p) ==
  LET q == [p EXCEPT !.derand = IF p.conf.mal THEN FALSE ELSE @, !.otExt = p.otExt \/ NeedsExt(p)]
  IN  IF p.ret = "idle" THEN Done(q) ELSE [q EXCEPT !.pc = "derand"]

SenderGenDone ==
  /\ GenDone(S)
  /\ S' = AfterGen(SetBaseSender(S, S.base))
  /\ UNCHANGED <<conf, R, toS, toR, closed>>

ReceiverGenDone ==
  /\ GenDone(R)
  /\ R' = AfterGen(SetBaseReceiver(R, R.base, R.baseC))
  /\ UNCHANGED <<conf, S, toS, toR, closed>>

-----------------------------------------------------------------------------
(* silentSend and silentReceive.                                           *)

Enter(p, n) ==
  LET q == AutoConfigure(p)
  IN  IF Request < n THEN Throw(q)
      ELSE IF HasBaseCors(q) THEN [q EXCEPT !.pc = "derand"]
      ELSE EnterGen(q, "derand")

SenderEnter ==
  /\ AtOp(S, "run")
  /\ S' = Enter(S, Op(S).sn)
  /\ closed' = (closed \/ Request < Op(S).sn)
  /\ UNCHANGED <<conf, R, toS, toR>>

ReceiverEnter ==
  /\ AtOp(R, "run")
  /\ R' = LET q == Enter(R, Op(R).rn)
          IN  IF q.pc = "gen" THEN [q EXCEPT !.baseC = OwnC(q), !.checkSeed = q.step] ELSE q
  /\ closed' = (closed \/ Request < Op(R).rn)
  /\ UNCHANGED <<conf, S, toS, toR>>

\* Correlations made elsewhere have a random last entry: the receiver draws
\* the challenge and sends how far that entry is from the checksum.
ReceiverDerandomize ==
  /\ R.pc = "derand"
  /\ IF R.conf.mal /\ R.derand
     THEN /\ toS' = Send(toS, "main",
               Minus(R.baseC[Partitions + 1], WithChecksum(R, R.baseC)[Partitions + 1]))
          /\ R' = [R EXCEPT !.pc = "pprf", !.checkSeed = R.step]
     ELSE R' = [R EXCEPT !.pc = "pprf"] /\ UNCHANGED toS
  /\ UNCHANGED <<conf, S, toR, closed>>

\* The correction is added to the sender's share as it is, although the
\* comment above says it is multiplied by delta.
Corrected(b, diff) == Plus(b, diff)

SenderDerandomize ==
  /\ S.pc = "derand"
  /\ IF S.conf.mal /\ S.derand
     THEN /\ toS.main # <<>> /\ toS' = Take(toS, "main")
          /\ S' = [S EXCEPT !.pc = "pprf",
                     !.base = [@ EXCEPT ![Partitions + 1] = Corrected(@, Head(toS.main))]]
     ELSE S' = [S EXCEPT !.pc = "pprf"] /\ UNCHANGED toS
  /\ UNCHANGED <<conf, R, toR, closed>>

\* The leaves of a tree: of a new PPRF for regular noise; for stationary
\* noise hashes, numbered mExpandCounter, of leaves shared once.
LeafStale(p, j, x) ==
  IF Regular(p) THEN Atom(<<"leaf", p.step, j, x>>) ELSE Atom(<<"hash", p.junk, 0, j, x>>)
Leaf(p, j, x) ==
  IF Regular(p) THEN Atom(<<"leaf", p.step, j, x>>)
  ELSE Atom(<<"hash", p.junk, p.counter, j, x>>)
\* What the receiver has where it is punctured.
Junk(p, j) == IF Regular(p) THEN Zero ELSE Atom(<<"junk", p.junk, p.counter, j>>)
Positions == 0..(NoiseVecSize - 1)
Spread(p, f(_, _)) ==
  [pos \in Positions |->
     IF \E j \in Trees, x \in Leaves : Place(p, j, x) = pos
     THEN LET at == CHOOSE q \in Trees \X Leaves : Place(p, q[1], q[2]) = pos
          IN  f(at[1], at[2])
     ELSE Zero]

Shared(p) == IF Regular(p) \/ p.shared THEN p
             ELSE [p EXCEPT !.shared = TRUE, !.junk = p.step, !.counter = 0, !.ots = FALSE]
Error(j) == IF conf.fault = j + 1 THEN Atom(<<"error", j>>) ELSE Zero

\* One message: for every tree the sum of its leaves plus the value the
\* punctured leaf is to be off by.
TreeSums(q) ==
  [j \in Trees |-> Plus(Error(j),
     Plus(q.base[j + 1], SumOver(Leaves, LAMBDA x : Leaf(q, j, x))))]

SenderExpand ==
  /\ S.pc = "pprf"
  /\ IF closed THEN S' = Throw(S) /\ UNCHANGED toR
     ELSE LET q == Shared(S)
              vec == Spread(q, LAMBDA j, x : Leaf(q, j, x))
              sums == Send(toR, "main", TreeSums(q))
          IN  /\ S' = [q EXCEPT !.pc = "check", !.ots = FALSE, !.vec = vec,
                          !.counter = q.counter + 1]
              /\ toR' = IF conf.debug
                        THEN Send(sums, "main", [b |-> vec, base |-> q.base]) ELSE sums
  /\ UNCHANGED <<conf, R, toS, closed>>

\* Without what the receiver knows of the tree; for stationary noise its junk
\* is taken away and added again.
Programmed(p, j, sum) ==
  Plus(Minus(sum, Plus(Junk(p, j),
         SumOver(Leaves \ {conf.points[j]}, LAMBDA x : Leaf(p, j, x)))),
       Junk(p, j))

ReceiverExpand ==
  /\ R.pc = "pprf" /\ toR.main # <<>>
  /\ LET q == Shared(R)
         sums == Head(toR.main)
     IN  R' = [q EXCEPT !.pc = IF conf.debug THEN "debug" ELSE "seed",
                 !.ots = FALSE, !.counter = q.counter + 1,
                 !.vec = Spread(q, LAMBDA j, x :
                           IF x = conf.points[j]
                           THEN Plus(Programmed(q, j, sums[j]), q.base[j + 1])
                           ELSE Leaf(q, j, x)),
                 !.vecC = Spread(q, LAMBDA j, x :
                           IF x = conf.points[j] THEN q.baseC[j + 1] ELSE Zero)]
  /\ toR' = Take(toR, "main")
  /\ UNCHANGED <<conf, S, toS, closed>>

\* checkRT: every entry of the base correlation and of the vectors.
Related(msg) ==
  /\ Len(msg.base) = Len(R.base)
  /\ \A i \in 1..Len(R.base) : Plus(msg.base[i], R.base[i]) = TimesDelta(R.baseC[i])
  /\ \A pos \in Positions : R.vec[pos] = Plus(msg.b[pos], TimesDelta(R.vecC[pos]))

ReceiverDebug ==
  /\ R.pc = "debug" /\ toR.main # <<>>
  /\ toR' = Take(toR, "main")
  /\ IF Related(Head(toR.main))
     THEN R' = [R EXCEPT !.pc = "seed"] /\ UNCHANGED closed
     ELSE R' = Throw(R) /\ closed' = TRUE
  /\ UNCHANGED <<conf, S, toS>>

\* ferretMalCheck: what is hashed is sum_i X^(i + 1) * V_i plus the last base
\* share.
CheckValue(p, seed) ==
  Plus(p.base[Len(p.base)], SumOver(Positions, LAMBDA i : Power(seed, i + 1, p.vec[i])))

ReceiverSeed ==
  /\ R.pc = "seed"
  /\ IF R.conf.mal THEN R' = [R EXCEPT !.pc = "hash"] /\ toS' = Send(toS, "main", R.checkSeed)
     ELSE R' = [R EXCEPT !.pc = "encode"] /\ UNCHANGED toS
  /\ UNCHANGED <<conf, S, toR, closed>>

SenderCheck ==
  /\ S.pc = "check"
  /\ S' = [S EXCEPT !.pc = "encode"]
  /\ IF S.conf.mal
     THEN /\ toS.main # <<>> /\ toS' = Take(toS, "main")
          /\ toR' = Send(toR, "main", CheckValue(S, Head(toS.main)))
     ELSE UNCHANGED <<toS, toR>>
  /\ UNCHANGED <<conf, R, closed>>

HashMatchesAny(theirs, mine) == TRUE
HashMatches(theirs, mine) == theirs = mine

ReceiverHash ==
  /\ R.pc = "hash" /\ toR.main # <<>>
  /\ toR' = Take(toR, "main")
  /\ IF HashMatches(Head(toR.main), CheckValue(R, R.checkSeed))
     THEN R' = [R EXCEPT !.pc = "encode"] /\ UNCHANGED closed
     ELSE R' = Throw(R) /\ closed' = TRUE
  /\ UNCHANGED <<conf, S, toS>>

\* The dual encoder of the code mCodeSeed stands for, any linear map; both
\* objects hash the seed after every call.
DualEncode(seed, v) ==
  [i \in 0..(Request - 1) |-> Plus(v[i], v[Request + ((i + seed) % Request)])]
NextSeedStays(p) == p.seed
NextSeed(p) == p.seed + 1

Finish(p) ==
  [Done(p) EXCEPT !.seed = NextSeed(p), !.base = <<>>, !.baseC = <<>>, !.vec = <<>>, !.vecC = <<>>,
     !.state = IF Regular(p) THEN "Default" ELSE "Configured"]

SenderEncode ==
  /\ S.pc = "encode"
  /\ LET out == DualEncode(S.seed, S.vec)
     IN  S' = [Finish(S) EXCEPT !.outs = Append(@,
                 [step |-> S.step, n |-> Op(S).sn, b |-> out, pads |-> S.vec])]
  /\ UNCHANGED <<conf, R, toS, toR, closed>>

ReceiverEncode ==
  /\ R.pc = "encode"
  /\ R' = [Finish(R) EXCEPT !.outs = Append(@,
             [step |-> R.step, n |-> Op(R).rn, a |-> DualEncode(R.seed, R.vec),
              c |-> DualEncode(R.seed, R.vecC)])]
  /\ UNCHANGED <<conf, S, toS, toR, closed>>

\* What a coroutine that cannot go on waits for; on a channel the peer closed
\* it gets an exception instead.
SenderWaits ==
  \/ /\ S.pc = "gen" /\ ~GenDone(S)
     /\ S.ot = "start" => toS.main = <<>>
     /\ S.nv # "start" /\ (S.nv = "wait" => toS[VoleChannel(S)] = <<>>)
  \/ S.pc = "derand" /\ S.conf.mal /\ S.derand /\ toS.main = <<>>
  \/ S.pc = "check" /\ S.conf.mal /\ toS.main = <<>>
ReceiverWaits ==
  \/ /\ R.pc = "gen" /\ ~GenDone(R)
     /\ R.ot # "start" /\ (R.nv = "start" => toR[VoleChannel(R)] = <<>>)
  \/ R.pc \in {"pprf", "debug", "hash"} /\ toR.main = <<>>

SenderFails ==
  /\ closed /\ SenderWaits
  /\ S' = Throw(S)
  /\ UNCHANGED <<conf, R, toS, toR, closed>>
ReceiverFails ==
  /\ closed /\ ReceiverWaits
  /\ R' = Throw(R)
  /\ UNCHANGED <<conf, S, toS, toR, closed>>

Sender ==
  \/ SenderConfigure \/ SenderSetBase \/ SenderGen \/ SenderOt \/ SenderNoisyOt
  \/ SenderNoisy \/ SenderGenDone \/ SenderEnter \/ SenderDerandomize
  \/ SenderExpand \/ SenderCheck \/ SenderEncode \/ SenderFails
Receiver ==
  \/ ReceiverConfigure \/ ReceiverSetBase \/ ReceiverGen \/ ReceiverOt
  \/ ReceiverNoisy \/ ReceiverGenDone \/ ReceiverEnter \/ ReceiverDerandomize
  \/ ReceiverExpand \/ ReceiverDebug \/ ReceiverSeed \/ ReceiverHash
  \/ ReceiverEncode \/ ReceiverFails
Next == Sender \/ Receiver

Spec == Init /\ [][Next]_vars

-----------------------------------------------------------------------------
(* Properties.                                                             *)

\* A call both sides return from gives a = b + c * delta on every entry both
\* asked for, on a second call of stationary noise too, with the correlations
\* made by the objects or elsewhere, when the sender programmed the trees
\* right or the check was on.
VoleCorrect ==
  \A i \in 1..Len(S.outs), j \in 1..Len(R.outs) :
    LET s == S.outs[i]
        r == R.outs[j]
    IN  s.step = r.step /\ (conf.fault = 0 \/ R.conf.mal) =>
          \A k \in 0..(Request - 1) :
            k < s.n /\ k < r.n => r.a[k] = Plus(s.b[k], TimesDelta(r.c[k]))

\* No leaf of one call is a leaf of another, although stationary noise keeps
\* its trees, and no base correlation is used in two calls.
PadsFresh ==
  /\ \A i, j \in 1..Len(S.outs) : i # j =>
       {S.outs[i].pads[pos] : pos \in Positions} \cap
       {S.outs[j].pads[pos] : pos \in Positions} \subseteq {Zero}
  /\ \A i, j \in 1..Len(R.outs) : i # j =>
       \A k, l \in 0..(Request - 1) :
         R.outs[i].c[k] = R.outs[j].c[l] => R.outs[i].c[k] = Zero

\* A sender that programs a wrong value is found out by the check, and base
\* OTs that failed are never used, although nobody looks at the failure.
CheatCaught ==
  /\ conf.fault \in 1..Partitions /\ R.conf.mal => R.outs = <<>>
  /\ S.ot = "failed" => S.pc \notin {"check", "encode"}

\* Does the plan make the last base correlation outside of the objects, for
\* a call with the malicious check?
DealtForCheck ==
  \E k \in 1..Len(conf.plan) :
    /\ conf.plan[k].op = "base"
    /\ \E l \in 1..(k - 1) : conf.plan[l].op = "configure" /\ conf.plan[l].mal
PlanAllowed ==
  /\ conf.fault = 0
  /\ \A k \in 1..Len(conf.plan) : conf.plan[k].op = "run" =>
       conf.plan[k].sn <= Request /\ conf.plan[k].rn <= Request
  /\ \A k \in 1..Len(conf.plan) : conf.plan[k].op \in {"base", "gen"} =>
       \E l \in 1..(k - 1) : conf.plan[l].op = "configure"

\* Honest parties that follow the documented order of calls never fail, and
\* whatever happens the coroutines never wait for each other, or for a peer
\* that is through with its calls.
Ended(p) == p.pc = "throw" \/ (p.pc = "idle" /\ p.step > Len(conf.plan))
HonestSucceeds ==
  /\ PlanAllowed /\ ~DealtForCheck => S.pc # "throw" /\ R.pc # "throw"
  /\ (SenderWaits \/ Ended(S)) /\ (ReceiverWaits \/ Ended(R)) =>
        closed \/ (Ended(S) /\ Ended(R))

\* They do not fail either when the correlations come from setBaseCors and
\* the check is on.
DerandomizedSucceeds ==
  PlanAllowed => S.pc # "throw" /\ R.pc # "throw"

=============================================================================
