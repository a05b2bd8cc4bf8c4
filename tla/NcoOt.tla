------------------------------- MODULE NcoOt -------------------------------
(***************************************************************************)
(* 1-out-of-N OT extension: the interface NcoOtExtSender/Receiver and its  *)
(* two implementations KKRT (semi-honest, a pseudorandom code) and OOS (a  *)
(* linear code and a proof).  The receiver encodes one word per OT and     *)
(* streams the corrections; the sender can then encode any word.           *)
(*                                                                         *)
(* A row of the matrix is a formal value whose terms begin with their      *)
(* column.  A word is a set of bits; the linear code puts bit j into       *)
(* column j and into the last column.                                      *)
(***************************************************************************)
EXTENDS XorSpace, Sequences, SequencesExt

CONSTANTS
  BlockSize,    \* 128 rows
  SuperBlkSize, \* 8 blocks
  StatUnit,     \* 8: mStatSecParam must be a multiple of it
  WordBits,
  Kinds,        \* subset of {"kkrt", "oos", "oosmal"}
  Stats,        \* candidate values of mStatSecParam
  Plans,        \* sequences of sendCorrection counts
  Flows,        \* "chosen": sendChosen and receiveChosen, or "direct"
  Nexts,        \* after the first round: "again" or "split"
  Faults        \* columns of row 0 a faulty OOS receiver gets wrong; 0 none

NcoAssumption ==
  {BlockSize, SuperBlkSize, StatUnit, WordBits} \subseteq Nat \ {0}

Columns == WordBits + 1
Cols == 1..Columns
Bits == 0..1
Words == SUBSET (1..WordBits)
OTs(n) == 0..(n - 1)

VARIABLES
  conf,     \* parameters, the receiver's words and skips, the base choices
  call,     \* rounds begun
  S, R,
  toS, toR, closed,
  seen      \* rows of the round before

vars == <<conf, call, S, R, toS, toR, closed, seen>>

-----------------------------------------------------------------------------
(* Codes.                                                                  *)

One == <<"one">>
GeneratorSystematic(j) == {j}
Generator(j) == {j, Columns}
Linear(word) == XorAll(word, LAMBDA a : {<<c, a[2]>> : c \in Generator(a[1])})
Plain(w) == {<<j, One>> : j \in w}

\* The multi-key AES of the seed, xored with the word; or mCode.encode.
Code(w, key) ==
  IF conf.kind = "kkrt" THEN {<<c, <<"F", key, w>>>> : c \in Cols} ELSE Linear(Plain(w))

Masked(v) == {a \in v : S.delta[a[1]] = 1}
Hash(i, v) == Opaque(<<"H", IF conf.kind = "kkrt" THEN 0 ELSE i, v>>)

-----------------------------------------------------------------------------
(* The matrices of init: row r of the columns' streams.                    *)

Malicious == conf.kind = "oosmal"
Row(keys, base, r) == {<<c, keys[c], base + (r \div BlockSize), r % BlockSize>> : c \in Cols}

ReceiverRows ==
  IF conf.kind = "kkrt" THEN conf.n ELSE RoundUpTo(conf.n + conf.stat, BlockSize)
SenderRows ==
  RoundUpTo(conf.n + (IF conf.kind = "kkrt" THEN 0 ELSE conf.stat), BlockSize)
Advance(rows) == SuperBlkSize * DivCeil(DivCeil(rows, BlockSize), SuperBlkSize)

Total(plan) == FoldLeft(LAMBDA a, b : a + b, 0, plan)

Sender(keys, delta) ==
  [pc |-> "base", keys |-> keys, delta |-> delta, ctr |-> 0, t |-> <<>>,
   cor |-> <<>>, step |-> 1, key |-> <<>>, proof |-> <<>>]
Receiver(keys) ==
  [pc |-> "base", keys |-> keys, ctr |-> 0, t0 |-> <<>>, t1 |-> <<>>, step |-> 1,
   coded |-> {}, enc |-> <<>>, sent |-> 0, key |-> <<>>, seed |-> <<>>, msgs |-> <<>>]

Init ==
  /\ \E kind \in Kinds, stat \in Stats, plan \in Plans, flow \in Flows,
        next \in Nexts, bad \in Faults, swap \in [Cols -> Bits] :
       \E words \in [OTs(Total(plan)) -> Words], skip \in SUBSET OTs(Total(plan)),
          choice \in [Cols -> Bits] :
         /\ flow = "chosen" => Len(plan) = 1 /\ skip = {}
         /\ bad # 0 => kind = "oosmal"
         /\ kind = "kkrt" => swap = [c \in Cols |-> 0]
         \* any two code words differ in a column the sender masks with one
         /\ Cardinality({c \in Cols : choice[c] # swap[c]}) >= Columns - 1
         /\ conf = [kind |-> kind, stat |-> stat, plan |-> plan, n |-> Total(plan),
                    flow |-> flow, next |-> next, bad |-> bad, swap |-> swap,
                    words |-> words, skip |-> skip]
         /\ S = Sender([c \in Cols |-> <<"base", c, choice[c]>>], choice)
         /\ R = Receiver([b \in Bits |-> [c \in Cols |-> <<"base", c, b>>]])
  /\ call = 1
  /\ toS = <<>> /\ toR = <<>>
  /\ closed = FALSE
  /\ seen = {}

Throw(pty) == [pty EXCEPT !.pc = "throw"]

-----------------------------------------------------------------------------
(* setBaseOts.  The OOS receiver swaps its keys at random and says where.  *)

ReceiverBase ==
  /\ R.pc = "base" /\ ~closed
  /\ IF conf.kind = "kkrt" THEN R' = [R EXCEPT !.pc = "init"] /\ UNCHANGED toS
     ELSE /\ R' = [R EXCEPT !.pc = "init",
                     !.keys = [b \in Bits |-> [c \in Cols |->
                                 R.keys[(b + conf.swap[c]) % 2][c]]]]
          /\ toS' = Append(toS, conf.swap)
  /\ UNCHANGED <<conf, call, S, toR, closed, seen>>

SenderBaseKeepsChoices ==
  /\ S.pc = "base"
  /\ conf.kind # "kkrt" => toS # <<>>
  /\ S' = [S EXCEPT !.pc = "init"]
  /\ toS' = IF conf.kind = "kkrt" THEN toS ELSE Tail(toS)
  /\ UNCHANGED <<conf, call, R, toR, closed, seen>>

SenderBase ==
  /\ S.pc = "base"
  /\ IF conf.kind = "kkrt" THEN S' = [S EXCEPT !.pc = "init"] /\ UNCHANGED toS
     ELSE /\ toS # <<>>
          /\ S' = [S EXCEPT !.pc = "init",
                     !.delta = [c \in Cols |-> (S.delta[c] + Head(toS)[c]) % 2]]
          /\ toS' = Tail(toS)
  /\ UNCHANGED <<conf, call, R, toR, closed, seen>>

-----------------------------------------------------------------------------
(* init                                                                    *)

ReceiverInit ==
  /\ R.pc = "init"
  /\ R' = [R EXCEPT !.pc = IF conf.kind = "kkrt" THEN "seed" ELSE "encode",
             !.t0 = [r \in 0..(ReceiverRows - 1) |-> Row(R.keys[0], R.ctr, r)],
             !.t1 = [r \in 0..(ReceiverRows - 1) |-> Row(R.keys[1], R.ctr, r)],
             !.ctr = R.ctr + Advance(ReceiverRows),
             !.step = 1, !.coded = {}, !.sent = 0,
             !.enc = [r \in 0..(ReceiverRows - 1) |-> {}]]
  /\ UNCHANGED <<conf, call, S, toS, toR, closed, seen>>

ReceiverSeed ==
  /\ R.pc = "seed" /\ toR # <<>>
  /\ R' = [R EXCEPT !.pc = "encode", !.key = Head(toR)]
  /\ toR' = Tail(toR)
  /\ UNCHANGED <<conf, call, S, toS, closed, seen>>

SenderInitKeepsCor ==
  /\ S.pc = "init" /\ ~closed
  /\ S' = [S EXCEPT !.pc = "recv",
             !.t = [r \in 0..(SenderRows - 1) |-> Row(S.keys, S.ctr, r)],
             !.ctr = S.ctr + Advance(SenderRows),
             !.step = 1, !.key = <<"seed", call>>]
  /\ toR' = IF conf.kind = "kkrt" THEN Append(toR, <<"seed", call>>) ELSE toR
  /\ UNCHANGED <<conf, call, R, toS, closed, seen>>

SenderInit ==
  /\ S.pc = "init" /\ ~closed
  /\ S' = [S EXCEPT !.pc = "recv",
             !.t = [r \in 0..(SenderRows - 1) |-> Row(S.keys, S.ctr, r)],
             !.ctr = S.ctr + Advance(SenderRows),
             !.cor = <<>>, !.step = 1, !.key = <<"seed", call>>]
  /\ toR' = IF conf.kind = "kkrt" THEN Append(toR, <<"seed", call>>) ELSE toR
  /\ UNCHANGED <<conf, call, R, toS, closed, seen>>

-----------------------------------------------------------------------------
(* encode and zeroEncode, in any order within the next corrections to go.  *)

ChunkEnd == R.sent + conf.plan[R.step]
WrongBit(i) == If(conf.bad # 0 /\ i = 0, Opaque(<<conf.bad, One>>))

ReceiverEncode ==
  /\ R.pc = "encode" /\ R.step <= Len(conf.plan)
  /\ \E i \in (R.sent..(ChunkEnd - 1)) \ R.coded :
       LET code == IF i \in conf.skip THEN ZeroBlock ELSE Code(conf.words[i], R.key)
       IN  R' = [R EXCEPT !.coded = @ \cup {i},
                   !.t1[i] = Xor(Xor(code, WrongBit(i)), Xor(R.t0[i], @)),
                   !.enc[i] = Hash(i, R.t0[i])]
  /\ UNCHANGED <<conf, call, S, toS, toR, closed, seen>>

ReceiverSend ==
  /\ R.pc = "encode" /\ R.step <= Len(conf.plan)
  /\ (R.sent..(ChunkEnd - 1)) \subseteq R.coded
  /\ ~closed
  /\ toS' = Append(toS, [k \in 1..conf.plan[R.step] |-> R.t1[R.sent + k - 1]])
  /\ R' = [R EXCEPT !.sent = ChunkEnd, !.step = @ + 1]
  /\ UNCHANGED <<conf, call, S, toR, closed, seen>>

SenderRecv ==
  /\ S.pc = "recv" /\ S.step <= Len(conf.plan) /\ toS # <<>>
  /\ S' = [S EXCEPT !.cor = @ \o Head(toS), !.step = @ + 1]
  /\ toS' = Tail(toS)
  /\ UNCHANGED <<conf, call, R, toR, closed, seen>>

\* The sender's encode of a word, at an OT whose correction has arrived.
CorrectedUnmasked(i, v) == Xor(S.t[i], Xor(S.cor[i + 1], v))
Corrected(i, v) == Xor(S.t[i], Masked(Xor(S.cor[i + 1], v)))
SenderEncode(i, w) == Hash(i, Corrected(i, Code(w, S.key)))

-----------------------------------------------------------------------------
(* check: K more rows with random words, a challenge and the sums.         *)

RandomWord(l) == {<<j, <<"rnd", l>>>> : j \in 1..WordBits}
Ls == 0..(conf.stat - 1)

AfterCheck == IF conf.flow = "chosen" THEN "temp" ELSE "done"

ReceiverFinalize ==
  /\ R.pc = "encode" /\ R.step > Len(conf.plan)
  /\ IF ~Malicious THEN R' = [R EXCEPT !.pc = AfterCheck] /\ UNCHANGED toS
     ELSE /\ ~closed
          /\ LET t1(l) == Xor(Linear(RandomWord(l)),
                              Xor(R.t0[R.sent + l], R.t1[R.sent + l]))
             IN  toS' = Append(toS, [k \in 1..conf.stat |-> t1(k - 1)])
          /\ R' = [R EXCEPT !.pc = "challenge", !.sent = R.sent + conf.stat]
  /\ UNCHANGED <<conf, call, S, toR, closed, seen>>

\* Row i is in sum l when the challenge bit says so.
Chi(seed, l, i) == <<"chi", seed, l, i>>
Main == conf.n - 1
RowSum(seed, l, dummy, rows(_)) ==
  Times(<<"dummy", l>>, dummy) \cup UNION {Times(Chi(seed, l, i), rows(i)) : i \in 0..Main}

WordOfSkipped(i) == Plain(conf.words[i])
WordOf(i) == IF i \in conf.skip THEN {} ELSE Plain(conf.words[i])

ReceiverProve ==
  /\ R.pc = "challenge" /\ toR # <<>> /\ ~closed
  /\ toR' = Tail(toR)
  /\ toS' = toS \o
       <<[l \in Ls |-> RowSum(Head(toR), l, R.t0[conf.n + l], LAMBDA i : R.t0[i])],
         [l \in Ls |-> RowSum(Head(toR), l, RandomWord(l), WordOf)]>>
  /\ R' = [R EXCEPT !.pc = AfterCheck, !.seed = Head(toR)]
  /\ UNCHANGED <<conf, call, S, closed, seen>>

SenderCheckLeavesOpen ==
  /\ S.pc = "recv" /\ S.step > Len(conf.plan)
  /\ S' = IF ~Malicious THEN [S EXCEPT !.pc = AfterCheck]
          ELSE IF conf.stat % StatUnit # 0 THEN Throw(S)
          ELSE [S EXCEPT !.pc = "final"]
  /\ UNCHANGED <<conf, call, R, toS, toR, closed, seen>>

SenderCheck ==
  /\ S.pc = "recv" /\ S.step > Len(conf.plan)
  /\ IF ~Malicious THEN S' = [S EXCEPT !.pc = AfterCheck] /\ UNCHANGED closed
     ELSE IF conf.stat % StatUnit # 0
     THEN S' = Throw(S) /\ closed' = TRUE
     ELSE S' = [S EXCEPT !.pc = "final"] /\ UNCHANGED closed
  /\ UNCHANGED <<conf, call, R, toS, toR, seen>>

SenderChallenge ==
  /\ S.pc = "final" /\ toS # <<>> /\ ~closed
  /\ S' = [S EXCEPT !.pc = "tsum", !.cor = @ \o Head(toS)]
  /\ toS' = Tail(toS)
  /\ toR' = Append(toR, <<"seed", call>>)
  /\ UNCHANGED <<conf, call, R, closed, seen>>

SenderRecvT ==
  /\ S.pc = "tsum" /\ toS # <<>>
  /\ S' = [S EXCEPT !.pc = "wsum", !.proof = Head(toS)]
  /\ toS' = Tail(toS)
  /\ UNCHANGED <<conf, call, R, toR, closed, seen>>

Q(i) == Xor(S.t[i], Masked(S.cor[i + 1]))
TaggedLinear(v) ==
  XorAll(v, LAMBDA a : {<<a[1], <<c, a[2][2]>>>> : c \in Generator(a[2][1])})
TaggedMasked(v) == {a \in v : S.delta[a[2][1]] = 1}

\* tSum ^ qSum = C(wSum) & choices, for each of the sums.
VerifiesDummies(wSum) ==
  \A l \in Ls :
    LET dummy(v) == {a \in v : a[1] = <<"dummy", l>>}
    IN  Xor(dummy(S.proof[l]), dummy(RowSum(<<"seed", call>>, l, Q(conf.n + l), Q)))
        = dummy(TaggedMasked(TaggedLinear(wSum[l])))
Verifies(wSum) ==
  \A l \in Ls :
    Xor(S.proof[l], RowSum(<<"seed", call>>, l, Q(conf.n + l), Q))
      = TaggedMasked(TaggedLinear(wSum[l]))

SenderVerify ==
  /\ S.pc = "wsum" /\ toS # <<>>
  /\ toS' = Tail(toS)
  /\ IF Verifies(Head(toS))
     THEN S' = [S EXCEPT !.pc = AfterCheck] /\ UNCHANGED closed
     ELSE S' = Throw(S) /\ closed' = TRUE
  /\ UNCHANGED <<conf, call, R, toR, seen>>

-----------------------------------------------------------------------------
(* sendChosen and receiveChosen.                                           *)

Message(i, w) == Opaque(<<"m", i, w>>)

SenderTemp ==
  /\ S.pc = "temp"
  /\ IF closed THEN S' = Throw(S) /\ UNCHANGED toR
     ELSE /\ S' = [S EXCEPT !.pc = "done"]
          /\ toR' = Append(toR, [i \in OTs(conf.n) |-> [w \in Words |->
                                   Xor(SenderEncode(i, w), Message(i, w))]])
  /\ UNCHANGED <<conf, call, R, toS, closed, seen>>

ReceiverTemp ==
  /\ R.pc = "temp" /\ toR # <<>>
  /\ R' = [R EXCEPT !.pc = "done",
             !.msgs = [i \in OTs(conf.n) |->
                         Xor(R.enc[i], Head(toR)[i][conf.words[i]])]]
  /\ toR' = Tail(toR)
  /\ UNCHANGED <<conf, call, S, toS, closed, seen>>

\* A receive that finds the socket closed and empty, or a send on it.
SenderFails ==
  /\ closed
  /\ \/ S.pc \in {"recv", "tsum", "wsum"} /\ toS = <<>>
     \/ S.pc = "final"
  /\ S.pc = "recv" => S.step <= Len(conf.plan)
  /\ S' = Throw(S)
  /\ UNCHANGED <<conf, call, R, toS, toR, closed, seen>>

ReceiverFails ==
  /\ closed
  /\ \/ R.pc \in {"seed", "temp"} /\ toR = <<>>
     \/ R.pc = "encode" /\ R.step > Len(conf.plan) /\ Malicious
     \/ R.pc = "challenge"
  /\ R' = Throw(R)
  /\ UNCHANGED <<conf, call, S, toS, toR, closed, seen>>

-----------------------------------------------------------------------------
(* init can be called again, each time with new OTs; splitBase draws one   *)
(* block of every stream as a base OT of the new pair.                     *)

EncSame(key, ctr) == key
Enc(key, ctr) == <<"enc", key, ctr>>
Ended == S.pc = "done" /\ R.pc = "done"
UsedRows == {R.t0[r] : r \in DOMAIN R.t0} \cup {S.t[r] : r \in DOMAIN S.t}

NextCall ==
  /\ Ended /\ call = 1
  /\ call' = 2
  /\ seen' = UsedRows
  /\ IF conf.next = "again"
     THEN S' = [S EXCEPT !.pc = "init"] /\ R' = [R EXCEPT !.pc = "init"]
     ELSE /\ S' = [Sender([c \in Cols |-> Enc(S.keys[c], S.ctr)], S.delta)
                     EXCEPT !.pc = "init"]
          /\ R' = [Receiver([b \in Bits |-> [c \in Cols |-> Enc(R.keys[b][c], R.ctr)]])
                     EXCEPT !.pc = "init"]
  /\ UNCHANGED <<conf, toS, toR, closed>>

ReceiverNext ==
  ReceiverBase \/ ReceiverInit \/ ReceiverSeed \/ ReceiverEncode \/ ReceiverSend
  \/ ReceiverFinalize \/ ReceiverProve \/ ReceiverTemp \/ ReceiverFails
SenderNext ==
  SenderBase \/ SenderInit \/ SenderRecv \/ SenderCheck \/ SenderChallenge
  \/ SenderRecvT \/ SenderVerify \/ SenderTemp \/ SenderFails
Next == ReceiverNext \/ SenderNext \/ NextCall

Fairness == WF_vars(ReceiverNext) /\ WF_vars(SenderNext)
Spec == Init /\ [][Next]_vars /\ Fairness

-----------------------------------------------------------------------------
(* Properties.                                                             *)

\* Corrections and matrices stay within what init allocated on each side,
\* with the rows of the check.
TypeOK ==
  /\ S.pc \in {"base", "init", "recv", "final", "tsum", "wsum", "temp", "done", "throw"}
  /\ R.pc \in {"base", "init", "seed", "encode", "challenge", "temp", "done", "throw"}
  /\ R.pc \notin {"base", "init"} => R.sent <= Cardinality(DOMAIN R.t0)
  /\ S.pc \notin {"base", "init"} => Len(S.cor) <= Cardinality(DOMAIN S.t)
  /\ R.coded \subseteq OTs(conf.n) /\ closed \in BOOLEAN

\* As soon as a correction has arrived, the sender's encoding of a word is
\* the receiver's exactly when it is the word the receiver encoded, and of
\* an OT the receiver skipped it can encode no word that is not the zero
\* word of a linear code.
EncodingsAgree ==
  conf.bad = 0 /\ S.pc \notin {"base", "init"} =>
    \A i \in OTs(conf.n) : i < Len(S.cor) =>
      \A w \in Words :
        SenderEncode(i, w) = R.enc[i] <=>
          IF i \in conf.skip THEN conf.kind # "kkrt" /\ w = {} ELSE w = conf.words[i]

\* The receiver of sendChosen gets the message of its choice, also when it
\* was not honest but passed.
ChosenCorrect ==
  Ended /\ conf.flow = "chosen" =>
    \A i \in OTs(conf.n) : R.msgs[i] = Message(i, conf.words[i])

\* A row that is no code word passes the check only where the sender does
\* not look.
CheatCaught ==
  conf.bad # 0 /\ S.pc \in {"temp", "done"} => S.delta[conf.bad] = 0

\* Rows are never used twice, by a second init or by a split pair.
PadsFresh == Ended => UsedRows \cap seen = {}

\* Honest parties with a legal parameter are never refused.
HonestSucceeds ==
  conf.bad = 0 /\ (Malicious => conf.stat % StatUnit = 0) =>
    S.pc # "throw" /\ R.pc # "throw"

BothEnd == <>[](S.pc \in {"done", "throw"} /\ R.pc \in {"done", "throw"})
=============================================================================
