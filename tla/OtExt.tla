------------------------------- MODULE OtExt -------------------------------
(***************************************************************************)
(* 1-out-of-2 OT extension: KosOtExtSender and KosOtExtReceiver, the IKNP  *)
(* classes derived from them (no malicious check), and the chosen and      *)
(* correlated transfers OTExtInterface builds on send and receive.         *)
(*                                                                         *)
(* The receiver's matrix has Columns columns (128) and is sent in blocks   *)
(* of BlockSize rows (128), CommStep blocks (512) to a message.  A row is  *)
(* a formal value whose terms begin with their column; a block is a        *)
(* function from row to value.                                             *)
(***************************************************************************)
EXTENDS XorSpace, Sequences

CONSTANTS
  BlockSize, Columns, CommStep,
  Sizes,    \* numbers of OTs in a call
  Kinds,    \* subset of {"random", "chosen", "correlated"}
  Mals, FiatShamirs, Hashes,  \* candidate settings, the same on both sides
  Nexts,    \* what follows a call: "stop", "again", "split" or "iknp"
  Faults    \* columns a faulty receiver may get wrong; 0 is none

OtExtAssumption ==
  {BlockSize, Columns, CommStep} \subseteq Nat \ {0}

\* What the theorems grant.  Without a hash the sender writes every block where
\* the first one was, so such a call has one block; the objects split off as
\* IKNP and as KOS do not run the same protocol.
Given ==
  /\ OtExtAssumption
  /\ Sizes \subseteq Nat
  /\ Kinds \subseteq {"random", "chosen", "correlated"}
  /\ Mals \subseteq BOOLEAN /\ FiatShamirs \subseteq BOOLEAN
  /\ Hashes \subseteq {"NoHash", "RandomOracle", "AesHash"}
  /\ Nexts \subseteq {"stop", "again", "split"}
  /\ Faults \subseteq 0..Columns
  /\ "NoHash" \in Hashes => \A n \in Sizes : n <= BlockSize

Cols == 1..Columns
Rows == 0..(BlockSize - 1)
Bits == 0..1

VARIABLES
  conf,     \* inputs of the calls and the base OT choices
  call,     \* calls begun
  S, R,     \* the two objects and their coroutine's locals
  toS, toR, \* messages under way
  closed,   \* the socket was closed
  seen      \* sender outputs of the calls that ended

vars == <<conf, call, S, R, toS, toR, closed, seen>>

-----------------------------------------------------------------------------
(* Values.                                                                 *)

Choice(i) == IF i < conf.n THEN conf.choices[i] ELSE 0
Delta == {<<c, "one">> : c \in {k \in Cols : conf.delta[k] = 1}}
Expand(keys, ctr, j) == {<<c, keys[c], ctr, j>> : c \in Cols}
Masked(v) == {a \in v : conf.delta[a[1]] = 1}
Uninit(j) == {<<c, "uninit", j>> : c \in Cols}
Unwritten(k) == Opaque(<<"unwritten", k, 0>>)

\* The tweak: AesHash uses one only in the malicious setting.
HashRow(hash, mal, idx, v) ==
  CASE hash = "NoHash" -> v
    [] hash = "RandomOracle" -> Opaque(<<"H", <<"ro", idx>>, v>>)
    [] hash = "AesHash" /\ mal -> Opaque(<<"H", <<"tmmo", idx>>, v>>)
    [] OTHER -> Opaque(<<"H", <<"aes">>, v>>)

\* ++mPrngIdx, by block and by split.
SameIdx(idx) == idx
NextIdx(idx) == idx + 1

\* A block summed with its challenge; the last block has none.
Combine(chi, block) ==
  UNION {{<<chi, j, a>> : a \in block[j]} : j \in Rows}
CombineChoices(chi, bit(_)) == {<<chi, j>> : j \in {k \in Rows : bit(k) = 1}}
TimesDelta(x) == {<<a[1], a[2], d>> : a \in x, d \in Delta}
Challenge(seed, b) == <<"chi", seed, b>>
UnitChallenge == <<"one">>

-----------------------------------------------------------------------------
(* A call starts on both sides.                                            *)

MainBlocks == DivCeil(conf.n, BlockSize)
NumBlocks(mal) == DivCeil(conf.n + (IF mal THEN BlockSize ELSE 0), BlockSize)

Fresh(pty, n) ==
  [pty EXCEPT !.pc = "start", !.i = 0, !.left = n, !.have = 0, !.u = <<>>,
              !.log = <<>>, !.t = <<>>, !.it = 0]

Refuses(pty) == pty.mal /\ pty.hash = "NoHash"

Party(keys, set) ==
  [pc |-> "start", mal |-> set.mal, fs |-> set.fs, hash |-> set.hash,
   keys |-> keys, idx |-> 0, i |-> 0, left |-> 0, have |-> 0, u |-> <<>>,
   log |-> <<>>, t |-> <<>>, it |-> 0, msgs |-> <<>>]

BaseKey(c, b) == <<"base", c, b>>

Init ==
  /\ \E n \in Sizes, kind \in Kinds, next \in Nexts, bad \in Faults,
        set \in [mal : Mals, fs : FiatShamirs, hash : Hashes] :
       \E choices \in [0..(n - 1) -> Bits], delta \in [Cols -> Bits] :
         /\ \E c \in Cols : delta[c] = 1
         /\ set.fs \/ bad # 0 => set.mal
         /\ conf = [n |-> n, kind |-> kind, next |-> next, bad |-> bad,
                    choices |-> choices, delta |-> delta,
                    extra |-> [j \in Rows |-> (j + 1) % 2]]
         /\ S = Party([c \in Cols |-> BaseKey(c, delta[c])], set)
         /\ R = Party([b \in Bits |-> [c \in Cols |-> BaseKey(c, b)]], set)
  /\ call = 1
  /\ toS = <<>> /\ toR = <<>>
  /\ closed = FALSE
  /\ seen = {}

Throw(pty) == [pty EXCEPT !.pc = "throw"]

-----------------------------------------------------------------------------
(* KosOtExtReceiver::receive                                               *)

ReceiverStart ==
  /\ R.pc = "start"
  /\ R' = [Fresh(R, MainBlocks + (IF R.mal THEN 1 ELSE 0)) EXCEPT
             !.pc = IF Refuses(R) THEN "throw" ELSE "block",
             !.msgs = [k \in 0..(conf.n - 1) |-> Unwritten(k)]]
  /\ closed' = (closed \/ Refuses(R))
  /\ UNCHANGED <<conf, call, S, toS, toR, seen>>

\* The choice bits of a block: the caller's, then the 128 of the check.
BlockChoice(i, j) ==
  IF i < MainBlocks THEN Choice(i * BlockSize + j) ELSE conf.extra[j]

\* A faulty receiver uses another choice bit in one column of block 0.
Wrong(i, j) ==
  If(conf.bad # 0 /\ i = 0 /\ j = 0, Opaque(<<conf.bad, "one">>))

UBlockNoExtra ==
  [j \in Rows |->
     Xor(Xor(Expand(R.keys[0], R.idx, j), Expand(R.keys[1], R.idx, j)),
         If(Choice(R.i * BlockSize + j) = 1, {<<c, "one">> : c \in Cols}))]
UBlock ==
  [j \in Rows |->
     Xor(Xor(Expand(R.keys[0], R.idx, j), Expand(R.keys[1], R.idx, j)),
         Xor(If(BlockChoice(R.i, j) = 1, {<<c, "one">> : c \in Cols}), Wrong(R.i, j)))]

T0Block == [j \in Rows |-> Expand(R.keys[0], R.idx, j)]

\* Rows of block i that are messages of the caller, hashed with their tweak.
ReceiverMsgs(i, t0) ==
  [k \in 0..(conf.n - 1) |->
     IF k \div BlockSize = i
     THEN HashRow(R.hash, R.mal, k, t0[k % BlockSize])
     ELSE R.msgs[k]]

\* One iteration of the block loop.  The buffer goes out when it is full;
\* with Fiat-Shamir it is hashed before it is moved into the send.
ReceiverBlock ==
  /\ R.pc = "block" /\ R.left + R.have > 0
  /\ LET step == IF R.have = 0 THEN Least(R.left, CommStep) ELSE R.have
         left == IF R.have = 0 THEN R.left - step ELSE R.left
         buf == Append(R.u, UBlock)
         full == step = 1
     IN  IF full /\ closed
         THEN R' = Throw(R) /\ UNCHANGED toS
         ELSE /\ R' = [R EXCEPT !.have = step - 1, !.left = left,
                         !.u = IF full THEN <<>> ELSE buf,
                         !.log = IF full /\ R.fs THEN Append(R.log, buf) ELSE R.log,
                         !.idx = NextIdx(R.idx), !.i = R.i + 1,
                         !.t = IF R.mal THEN Append(R.t, T0Block) ELSE R.t,
                         !.msgs = ReceiverMsgs(R.i, T0Block)]
              /\ toS' = IF full THEN Append(toS, buf) ELSE toS
  /\ UNCHANGED <<conf, call, S, toR, closed, seen>>

ReceiverSums(t, seed) ==
  LET n == Len(t) - 1
  IN  [x |-> CombineChoices(UnitChallenge, LAMBDA j : conf.extra[j])
             \cup UNION {CombineChoices(Challenge(seed, b),
                           LAMBDA j : Choice((b - 1) * BlockSize + j)) : b \in 1..n},
       t |-> Combine(UnitChallenge, t[n + 1])
             \cup UNION {Combine(Challenge(seed, b), t[b]) : b \in 1..n}]

\* After the loop: the seed of the check, then the proof of check().
AfterReceive == IF conf.kind = "random" THEN "done" ELSE "temp"

ReceiverCheck ==
  /\ R.pc = "block" /\ R.left + R.have = 0
  /\ IF ~R.mal
     THEN R' = [R EXCEPT !.pc = AfterReceive] /\ UNCHANGED <<toS, toR>>
     ELSE /\ R.fs \/ toR # <<>>
          /\ ~closed
          /\ LET seed == IF R.fs THEN <<"fs", R.log>> ELSE Head(toR)
             IN  toS' = Append(toS, ReceiverSums(R.t, seed))
          /\ toR' = IF R.fs THEN toR ELSE Tail(toR)
          /\ R' = [R EXCEPT !.pc = AfterReceive]
  /\ UNCHANGED <<conf, call, S, closed, seen>>

\* receiveChosen and receiveCorrelated.
Term(tag, k, b) == Opaque(<<tag, k, b>>)
Correlate(k, v) == Opaque(<<"F", k, v>>)

Unmask(k, temp) ==
  CASE conf.kind = "chosen" -> Xor(R.msgs[k], temp[k][Choice(k)])
    [] OTHER -> Xor(R.msgs[k], If(Choice(k) = 1, temp[k]))

ReceiverTemp ==
  /\ R.pc = "temp" /\ toR # <<>>
  /\ R' = [R EXCEPT !.pc = "done",
             !.msgs = [k \in 0..(conf.n - 1) |-> Unmask(k, Head(toR))]]
  /\ toR' = Tail(toR)
  /\ UNCHANGED <<conf, call, S, toS, closed, seen>>

\* A receive or a send that meets a closed socket throws; every handler
\* closes its own end before it throws on.
ReceiverFails ==
  /\ closed /\ R.pc \in {"block", "temp"}
  /\ R.pc = "temp" => toR = <<>>
  /\ R.pc = "block" => R.left + R.have = 0 /\ R.mal
  /\ R' = Throw(R)
  /\ UNCHANGED <<conf, call, S, toS, toR, closed, seen>>

-----------------------------------------------------------------------------
(* KosOtExtSender::send                                                    *)

SenderStart ==
  /\ S.pc = "start"
  /\ S' = [Fresh(S, NumBlocks(S.mal)) EXCEPT
             !.pc = IF Refuses(S) THEN "throw" ELSE "block",
             !.msgs = [k \in 0..(conf.n - 1) |->
                         [b \in Bits |-> Unwritten(k)]]]
  /\ closed' = (closed \/ Refuses(S))
  /\ UNCHANGED <<conf, call, R, toS, toR, seen>>

\* The buffer takes the size of the message: fewer blocks than the sender
\* expects leave the rest of its loop on memory nobody wrote.
SenderReceive ==
  /\ S.pc = "block" /\ S.have = 0 /\ S.left > 0 /\ toS # <<>>
  /\ LET step == Least(S.left, CommStep)
     IN  S' = [S EXCEPT !.left = S.left - step, !.have = step, !.u = Head(toS),
                        !.log = IF S.fs THEN Append(S.log, Head(toS)) ELSE S.log]
  /\ toS' = Tail(toS)
  /\ UNCHANGED <<conf, call, R, toR, closed, seen>>

QBlock ==
  LET u(j) == IF S.u = <<>> THEN Uninit(j) ELSE Head(S.u)[j]
  IN  [j \in Rows |-> Xor(Expand(S.keys, S.idx, j), Masked(u(j)))]

\* mIter advances in the hashing branches only: without a hash every block
\* is written where the first one was.
Advances == S.hash # "NoHash"

SenderMsgsSameTweak(q) ==
  LET size == Least(BlockSize, conf.n - S.it)
  IN  [k \in 0..(conf.n - 1) |->
         IF k \in S.it..(S.it + size - 1)
         THEN [b \in Bits |->
                 HashRow(S.hash, S.mal, k - S.it, Xor(q[k - S.it], If(b = 1, Delta)))]
         ELSE S.msgs[k]]

SenderMsgs(q) ==
  LET size == Least(BlockSize, conf.n - S.it)
  IN  [k \in 0..(conf.n - 1) |->
         IF k \in S.it..(S.it + size - 1)
         THEN [b \in Bits |->
                 HashRow(S.hash, S.mal, S.i * BlockSize + (k - S.it),
                         Xor(q[k - S.it], If(b = 1, Delta)))]
         ELSE S.msgs[k]]


SenderBlockOverruns ==
  /\ S.pc = "block" /\ S.have > 0
  /\ S' = [S EXCEPT !.have = S.have - 1,
             !.u = IF S.u = <<>> THEN <<>> ELSE Tail(S.u),
             !.idx = NextIdx(S.idx), !.i = S.i + 1,
             !.it = IF Advances THEN S.it + BlockSize ELSE S.it,
             !.t = IF S.mal THEN Append(S.t, QBlock) ELSE S.t,
             !.msgs = SenderMsgs(QBlock)]
  /\ UNCHANGED <<conf, call, R, toS, toR, closed, seen>>

SenderBlock ==
  /\ S.pc = "block" /\ S.have > 0
  /\ S' = [S EXCEPT !.have = S.have - 1,
             !.u = IF S.u = <<>> THEN <<>> ELSE Tail(S.u),
             !.idx = NextIdx(S.idx), !.i = S.i + 1,
             !.it = IF Advances THEN Least(S.it + BlockSize, conf.n) ELSE S.it,
             !.t = IF S.mal THEN Append(S.t, QBlock) ELSE S.t,
             !.msgs = SenderMsgs(QBlock)]
  /\ UNCHANGED <<conf, call, R, toS, toR, closed, seen>>

\* send() is over: what sendChosen and sendCorrelated add.
Temp ==
  [k \in 0..(conf.n - 1) |->
     IF conf.kind = "chosen"
     THEN [b \in Bits |-> Xor(S.msgs[k][b], Term("m", k, b))]
     ELSE Xor(S.msgs[k][1], Correlate(k, S.msgs[k][0]))]

AfterSend(pty) == [pty EXCEPT !.pc = IF conf.kind = "random" THEN "done" ELSE "temp"]

SenderSeed ==
  /\ S.pc = "block" /\ S.have = 0 /\ S.left = 0
  /\ IF ~S.mal THEN S' = AfterSend(S) /\ UNCHANGED toR
     ELSE IF S.fs THEN S' = [S EXCEPT !.pc = "check"] /\ UNCHANGED toR
     ELSE IF closed THEN S' = Throw(S) /\ UNCHANGED toR
     ELSE /\ S' = [S EXCEPT !.pc = "check"]
          /\ toR' = Append(toR, <<"seed", call>>)
  /\ UNCHANGED <<conf, call, R, toS, closed, seen>>

SenderSum(seed) ==
  LET n == Len(S.t) - 1
  IN  Combine(UnitChallenge, S.t[n + 1])
      \cup UNION {Combine(Challenge(seed, b), S.t[b]) : b \in 1..n}

VerifiesNothing(proof) == TRUE
VerifiesFirstBlock(proof) ==
  LET first(v) == {a \in v : a[1] = UnitChallenge}
      seed == IF S.fs THEN <<"fs", S.log>> ELSE <<"seed", call>>
  IN  first(proof.t) = first(Xor(TimesDelta(proof.x), SenderSum(seed)))

\* received_t[i] = (received_x if the base choice is one) xor q_i, for all i.
Verifies(proof) ==
  LET seed == IF S.fs THEN <<"fs", S.log>> ELSE <<"seed", call>>
  IN  proof.t = Xor(TimesDelta(proof.x), SenderSum(seed))

SenderCheckLeavesOpen ==
  /\ S.pc = "check" /\ toS # <<>>
  /\ toS' = Tail(toS)
  /\ S' = IF Verifies(Head(toS)) THEN AfterSend(S) ELSE Throw(S)
  /\ UNCHANGED <<conf, call, R, toR, closed, seen>>

SenderCheck ==
  /\ S.pc = "check" /\ toS # <<>>
  /\ toS' = Tail(toS)
  /\ IF Verifies(Head(toS))
     THEN S' = AfterSend(S) /\ UNCHANGED closed
     ELSE S' = Throw(S) /\ closed' = TRUE
  /\ UNCHANGED <<conf, call, R, toR, seen>>


SenderTemp ==
  /\ S.pc = "temp"
  /\ IF closed THEN S' = Throw(S) /\ UNCHANGED toR
     ELSE S' = [S EXCEPT !.pc = "done"] /\ toR' = Append(toR, Temp)
  /\ UNCHANGED <<conf, call, R, toS, closed, seen>>

SenderFails ==
  /\ closed /\ toS = <<>>
  /\ \/ S.pc = "check"
     \/ S.pc = "block" /\ S.have = 0 /\ S.left > 0
  /\ S' = Throw(S)
  /\ UNCHANGED <<conf, call, R, toS, toR, closed, seen>>

-----------------------------------------------------------------------------
(* Between two calls: the same objects again, or a pair split off.         *)

Enc(key, idx) == <<"enc", key, idx>>

SenderSplit(pty) ==
  [pty EXCEPT !.keys = [c \in Cols |-> Enc(pty.keys[c], pty.idx)], !.idx = 0,
              !.mal = TRUE, !.fs = FALSE, !.hash = "AesHash", !.pc = "start"]

\* The loop of splitBase runs over mGens, that is over the two sets of keys:
\* the columns after the second stay as the stack had them.
KeySets == 2
ReceiverSplit(pty) ==
  [pty EXCEPT !.keys = [b \in Bits |-> [c \in Cols |->
                          IF c <= KeySets THEN Enc(pty.keys[b][c], pty.idx)
                          ELSE <<"garbage", c, b>>]],
              !.idx = 0, !.fs = FALSE, !.hash = "AesHash", !.pc = "start",
              !.mal = conf.next # "iknp"]

Ended == S.pc = "done" /\ R.pc = "done"
Outputs ==
  IF conf.kind = "correlated"
  THEN {<<k, S.msgs[k][0]>> : k \in DOMAIN S.msgs}
  ELSE UNION {{<<S.msgs[k][b]>> : b \in Bits} : k \in DOMAIN S.msgs}

NextCall ==
  /\ Ended /\ call = 1 /\ conf.next # "stop"
  /\ call' = 2
  /\ seen' = {m[Len(m)] : m \in Outputs}
  /\ IF conf.next = "again"
     THEN /\ S' = [S EXCEPT !.pc = "start"]
          /\ R' = [R EXCEPT !.pc = "start"]
     ELSE S' = SenderSplit(S) /\ R' = ReceiverSplit(R)
  /\ UNCHANGED <<conf, toS, toR, closed>>

Next ==
  \/ ReceiverStart \/ ReceiverBlock \/ ReceiverCheck \/ ReceiverTemp \/ ReceiverFails
  \/ SenderStart \/ SenderReceive \/ SenderBlock \/ SenderSeed \/ SenderCheck
  \/ SenderTemp \/ SenderFails
  \/ NextCall

ReceiverNext == ReceiverStart \/ ReceiverBlock \/ ReceiverCheck \/ ReceiverTemp \/ ReceiverFails
SenderNext == \/ SenderStart \/ SenderReceive \/ SenderBlock \/ SenderSeed \/ SenderCheck
              \/ SenderTemp \/ SenderFails

Fairness == WF_vars(ReceiverNext) /\ WF_vars(SenderNext)

Spec == Init /\ [][Next]_vars /\ Fairness

-----------------------------------------------------------------------------
(* Properties.                                                             *)

Pcs == {"start", "block", "check", "temp", "done", "throw"}

\* The objects keep their shape: counters never pass the blocks of a call,
\* and only a call with a malicious check keeps the matrix.
TypeOK ==
  /\ call \in 1..2
  /\ closed \in BOOLEAN
  /\ \A pty \in {S, R} :
       /\ pty.pc \in Pcs
       /\ pty.i \in 0..NumBlocks(TRUE) /\ pty.left \in 0..NumBlocks(TRUE)
       /\ pty.have \in 0..CommStep
       /\ Len(pty.t) = (IF pty.mal THEN pty.i ELSE 0)
  /\ S.it \in 0..conf.n
  /\ Len(toS) <= NumBlocks(TRUE) + 1 /\ Len(toR) <= 2

\* A call both sides return from is an OT: the receiver holds the message of
\* its choice bit, the chosen one, or the correlated one - over partial
\* blocks, several messages of u, every hash and a second call - and never
\* both, although a receiver used another choice in one column.
OtCorrect ==
  Ended =>
    \A k \in 0..(conf.n - 1) :
      CASE conf.kind = "random" ->
             /\ R.msgs[k] = S.msgs[k][Choice(k)]
             /\ S.msgs[k][0] # S.msgs[k][1]
        [] conf.kind = "chosen" -> R.msgs[k] = Term("m", k, Choice(k))
        [] OTHER -> R.msgs[k] = IF Choice(k) = 1 THEN Correlate(k, S.msgs[k][0])
                                ELSE S.msgs[k][0]

\* A receiver that used two choices in column c gets past the check only if
\* the sender ignores that column, its base choice being zero.
CheatCaught ==
  conf.bad # 0 /\ S.pc \in {"temp", "done"} => conf.delta[conf.bad] = 0

\* No pad is used twice: the messages of a call, and those of a second call
\* of the same or of a split pair, are all different.
PadsFresh ==
  Ended =>
    /\ Cardinality(Outputs) = (IF conf.kind = "correlated" THEN 1 ELSE 2) * conf.n
    /\ {m[Len(m)] : m \in Outputs} \cap seen = {}

\* Two honest parties that were set up alike succeed (splitBase: "returns an
\* independent instance of this extender").
HonestSucceeds ==
  conf.bad = 0 /\ ~Refuses(S) => S.pc # "throw" /\ R.pc # "throw"

\* Whatever is refused, found out or closed, both coroutines end.
BothEnd == <>[](S.pc \in {"done", "throw"} /\ R.pc \in {"done", "throw"})
=============================================================================
