------------------------------- MODULE DotOt -------------------------------
(***************************************************************************)
(* Delta-OT extension: KosDotExtSender and KosDotExtReceiver.  Every pair  *)
(* of messages differs by one block mDelta of the sender; the rows of the  *)
(* extension matrix are compressed by a random linear code.                *)
(*                                                                         *)
(* The matrix is made SuperBlk rows at a time (8 * 128 in the code); after *)
(* the n rows of the messages come Extra rows (128) for the check, wherever*)
(* in a super block that is, and CommStep super blocks make a message.     *)
(***************************************************************************)
EXTENDS XorSpace, Sequences

CONSTANTS
  BlockSize, SuperBlkSize, CommStep,
  Columns,
  Sizes,    \* numbers of OTs in a call
  Deltas,   \* TRUE when setDelta was called before, FALSE when not
  Nexts,    \* what follows the first call: "again" or "split"
  Faults    \* 0, a column of row 0 the receiver gets wrong, or Columns + 1:
            \* it opens another seed than it committed to

DotAssumption ==
  {BlockSize, SuperBlkSize, CommStep, Columns} \subseteq Nat \ {0}

Cols == 1..Columns
Bits == 0..1
SuperRows == SuperBlkSize * BlockSize
Extra == BlockSize

VARIABLES
  conf, call,
  S, R,
  toS, toR, closed,
  mDelta,   \* the sender's, kept between calls
  seen      \* matrix rows of the calls before

vars == <<conf, call, S, R, toS, toR, closed, mDelta, seen>>

-----------------------------------------------------------------------------
Delta == {<<c, "one">> : c \in {k \in Cols : conf.delta[k] = 1}}
Expand(keys, ctr, j) == {<<c, keys[c], ctr, j>> : c \in Cols}
Masked(v) == {a \in v : conf.delta[a[1]] = 1}

\* LinearCode::encode with the code the sender's seed draws.
Encode(seed, v) == {<<"code", seed, a>> : a \in v}

\* roundUpTo(n, 128), and one block more for the check.
NumSuperBlocks == (DivCeil(conf.n, BlockSize) + SuperBlkSize) \div SuperBlkSize

\* choices2: the choices, the random bits of the check, zeros.
Choice2(i) ==
  IF i < conf.n THEN conf.choices[i]
  ELSE IF i < conf.n + Extra THEN (i + 1) % 2 ELSE 0

\* The receiver's rows and its u, one super block.
TRow(ctr, j) == Expand(R.keys[0], ctr, j)
Wrong(i) == If(conf.bad \in Cols /\ i = 0, Opaque(<<conf.bad, "one">>))
URow(blk, ctr, j) ==
  Xor(Xor(TRow(ctr, j), Expand(R.keys[1], ctr, j)),
      Xor(If(Choice2(blk * SuperRows + j) = 1, {<<c, "one">> : c \in Cols}),
          Wrong(blk * SuperRows + j)))

Party(keys) ==
  [pc |-> "start", keys |-> keys, ctr |-> 0, blk |-> 0, left |-> 0, u |-> <<>>,
   rows |-> <<>>, extra |-> <<>>, seed |-> <<>>, comm |-> <<>>, msgs |-> <<>>]

Init ==
  /\ \E n \in Sizes, next \in Nexts, bad \in Faults, preset \in Deltas :
       \E choices \in [0..(n - 1) -> Bits], delta \in [Cols -> Bits] :
         /\ \E c \in Cols : delta[c] = 1
         /\ conf = [n |-> n, next |-> next, bad |-> bad, preset |-> preset,
                    choices |-> choices, delta |-> delta]
         /\ S = Party([c \in Cols |-> <<"base", c, delta[c]>>])
         /\ R = Party([b \in Bits |-> [c \in Cols |-> <<"base", c, b>>]])
         /\ mDelta = IF preset THEN Opaque(<<"delta", 0>>) ELSE ZeroBlock
  /\ call = 1
  /\ toS = <<>> /\ toR = <<>>
  /\ closed = FALSE
  /\ seen = {}

Throw(pty) == [pty EXCEPT !.pc = "throw"]
Steps(blk) == Least(NumSuperBlocks - blk, CommStep)

-----------------------------------------------------------------------------
(* KosDotExtReceiver::receive                                              *)

MySeed == <<"seed", "R", call>>
Opened == IF conf.bad = Columns + 1 THEN <<"other", "R", call>> ELSE MySeed

ReceiverCommit ==
  /\ R.pc = "start" /\ ~closed
  /\ toS' = Append(toS, <<"comm", MySeed>>)
  /\ R' = [R EXCEPT !.pc = "block", !.blk = 0, !.left = Steps(0), !.u = <<>>,
                    !.rows = <<>>]
  /\ UNCHANGED <<conf, call, S, toR, closed, mDelta, seen>>

\* messageTemp has n + 128 rows: the last super block is cut.
TempRows == conf.n + Extra

ReceiverBlockWholeBuffers ==
  /\ R.pc = "block" /\ R.blk < NumSuperBlocks
  /\ LET buf == Append(R.u, [j \in 0..(SuperRows - 1) |-> URow(R.blk, R.ctr, j)])
         mCount == Least(TempRows - Len(R.rows), SuperRows)
         full == Len(buf) = CommStep
     IN  IF full /\ closed THEN R' = Throw(R) /\ UNCHANGED toS
         ELSE /\ R' = [R EXCEPT
                  !.u = IF full THEN <<>> ELSE buf,
                  !.left = IF full THEN Steps(R.blk + 1) ELSE R.left - 1,
                  !.rows = R.rows \o [k \in 1..mCount |-> TRow(R.ctr, k - 1)],
                  !.blk = R.blk + 1, !.ctr = R.ctr + 1]
              /\ toS' = IF full THEN Append(toS, buf) ELSE toS
  /\ UNCHANGED <<conf, call, S, toR, closed, mDelta, seen>>

ReceiverBlock ==
  /\ R.pc = "block" /\ R.blk < NumSuperBlocks
  /\ LET buf == Append(R.u, [j \in 0..(SuperRows - 1) |-> URow(R.blk, R.ctr, j)])
         mCount == Least(TempRows - Len(R.rows), SuperRows)
         full == R.left = 1
     IN  IF full /\ closed THEN R' = Throw(R) /\ UNCHANGED toS
         ELSE /\ R' = [R EXCEPT
                  !.u = IF full THEN <<>> ELSE buf,
                  !.left = IF full THEN Steps(R.blk + 1) ELSE R.left - 1,
                  !.rows = R.rows \o [k \in 1..mCount |-> TRow(R.ctr, k - 1)],
                  !.blk = R.blk + 1, !.ctr = R.ctr + 1]
              /\ toS' = IF full THEN Append(toS, buf) ELSE toS
  /\ UNCHANGED <<conf, call, S, toR, closed, mDelta, seen>>

\* recv(theirSeed), send(seed).
ReceiverOpen ==
  /\ R.pc = "block" /\ R.blk = NumSuperBlocks
  /\ toR # <<>> /\ ~closed
  /\ R' = [R EXCEPT !.pc = "offset", !.seed = Head(toR)]
  /\ toR' = Tail(toR)
  /\ toS' = Append(toS, Opened)
  /\ UNCHANGED <<conf, call, S, closed, mDelta, seen>>

\* Row dd of the check has challenge dd of the common seed.
Challenge(mine, theirs, dd) == <<"chi", mine, theirs, dd>>
SumRows(mine, theirs, rows(_)) ==
  UNION {Times(Challenge(mine, theirs, dd), rows(dd)) : dd \in 0..(TempRows - 1)}
SumChoicesOfMessages(mine, theirs) ==
  {Challenge(mine, theirs, dd) : dd \in {i \in 0..(conf.n - 1) : Choice2(i) = 1}}
SumChoices(mine, theirs) ==
  {Challenge(mine, theirs, dd) : dd \in {i \in 0..(TempRows - 1) : Choice2(i) = 1}}

\* recv(offset), then the sums and the compressed messages.
ReceiverProve ==
  /\ R.pc = "offset" /\ toR # <<>> /\ ~closed
  /\ toR' = Tail(toR)
  /\ R' = [R EXCEPT !.pc = "done",
             !.msgs = [k \in 0..(conf.n - 1) |->
                         Xor(Encode(R.seed, R.rows[k + 1]),
                             If(Choice2(k) = 1, Head(toR)))]]
  /\ toS' = Append(toS, [x |-> SumChoices(R.seed, Opened),
                         t |-> SumRows(R.seed, Opened, LAMBDA dd : R.rows[dd + 1])])
  /\ UNCHANGED <<conf, call, S, closed, mDelta, seen>>

ReceiverFails ==
  /\ closed
  /\ \/ R.pc = "start"
     \/ R.pc = "block" /\ R.blk = NumSuperBlocks
     \/ R.pc = "offset"
  /\ R' = Throw(R)
  /\ UNCHANGED <<conf, call, S, toS, toR, closed, mDelta, seen>>

-----------------------------------------------------------------------------
(* KosDotExtSender::send                                                   *)

SenderStart ==
  /\ S.pc = "start" /\ toS # <<>>
  /\ S' = [S EXCEPT !.pc = "block", !.blk = 0, !.left = 0, !.u = <<>>,
                    !.rows = <<>>, !.extra = <<>>, !.comm = Head(toS)]
  /\ toS' = Tail(toS)
  /\ UNCHANGED <<conf, call, R, toR, closed, mDelta, seen>>

SenderReceive ==
  /\ S.pc = "block" /\ S.blk < NumSuperBlocks /\ S.left = 0 /\ toS # <<>>
  /\ S' = [S EXCEPT !.left = Steps(S.blk), !.u = Head(toS)]
  /\ toS' = Tail(toS)
  /\ UNCHANGED <<conf, call, R, toR, closed, mDelta, seen>>

\* From mIterPartial on a super block is transposed aside and copied: first
\* what is left of the messages, then the rows of the check.
MIterPartial == conf.n - Least(SuperRows, conf.n)
MCount == Least(SuperRows, conf.n - Len(S.rows))
XCountUnbounded == SuperRows - MCount
XCount == Least(SuperRows - MCount, Extra - Len(S.extra))

SenderBlock ==
  /\ S.pc = "block" /\ S.left > 0
  /\ LET q == [k \in 1..SuperRows |->
                 Xor(Expand(S.keys, S.ctr, k - 1), Masked(Head(S.u)[k - 1]))]
         aside == Len(S.rows) >= MIterPartial
     IN  S' = [S EXCEPT
                 !.rows = S.rows \o SubSeq(q, 1, MCount),
                 !.extra = IF aside
                           THEN S.extra \o SubSeq(q, MCount + 1, MCount + XCount)
                           ELSE S.extra,
                 !.u = Tail(S.u), !.left = S.left - 1,
                 !.blk = S.blk + 1, !.ctr = S.ctr + 1]
  /\ UNCHANGED <<conf, call, R, toS, toR, closed, mDelta, seen>>

\* The seed of code and check, then the offset from the code word of the
\* base choices to mDelta, drawn now unless it is there.
SenderSeed == <<"seed", "S", call>>
CurDeltaNone(seed) == ZeroBlock
CurDelta(seed) == Encode(seed, Delta)
NewDeltaAlways == Opaque(<<"delta", call>>)
NewDelta == IF mDelta = ZeroBlock THEN Opaque(<<"delta", call>>) ELSE mDelta

SenderOffset ==
  /\ S.pc = "block" /\ S.blk = NumSuperBlocks
  /\ IF closed THEN S' = Throw(S) /\ UNCHANGED <<toR, mDelta>>
     ELSE /\ mDelta' = NewDelta
          /\ toR' = toR \o <<SenderSeed, Xor(CurDelta(SenderSeed), NewDelta)>>
          /\ S' = [S EXCEPT !.pc = "open", !.seed = SenderSeed]
  /\ UNCHANGED <<conf, call, R, toS, closed, seen>>

CommitUnchecked(seed) == TRUE
CommitOk(seed) == S.comm = <<"comm", seed>>

SenderOpened ==
  /\ S.pc = "open" /\ toS # <<>>
  /\ toS' = Tail(toS)
  /\ IF CommitOk(Head(toS))
     THEN /\ S' = [S EXCEPT !.pc = "check", !.comm = Head(toS),
                     !.msgs = [k \in 0..(conf.n - 1) |->
                        [b \in Bits |-> Xor(Encode(S.seed, S.rows[k + 1]),
                                            If(b = 1, mDelta))]]]
          /\ UNCHANGED closed
     ELSE S' = Throw(S) /\ closed' = TRUE
  /\ UNCHANGED <<conf, call, R, toR, mDelta, seen>>

\* t = x * Delta + q, over the rows of the messages and of the check.
QRow(dd) == IF dd < conf.n THEN S.rows[dd + 1] ELSE S.extra[dd - conf.n + 1]
TimesDelta(x) == {<<chi, d>> : chi \in x, d \in Delta}
VerifiesMessages(proof) ==
  LET main(v) == {a \in v : a[1][4] < conf.n}
  IN  main(proof.t) = main(Xor(TimesDelta(proof.x), SumRows(S.seed, S.comm, QRow)))
VerifiesChecks(proof) ==
  LET extra(v) == {a \in v : a[1][4] >= conf.n}
  IN  extra(proof.t) = extra(Xor(TimesDelta(proof.x), SumRows(S.seed, S.comm, QRow)))
Verifies(proof) ==
  proof.t = Xor(TimesDelta(proof.x), SumRows(S.seed, S.comm, QRow))

SenderCheck ==
  /\ S.pc = "check" /\ toS # <<>>
  /\ toS' = Tail(toS)
  /\ IF Verifies(Head(toS))
     THEN S' = [S EXCEPT !.pc = "done"] /\ UNCHANGED closed
     ELSE S' = Throw(S) /\ closed' = TRUE
  /\ UNCHANGED <<conf, call, R, toR, mDelta, seen>>

-----------------------------------------------------------------------------
(* A second call, on the same objects or on the pair split() returns: its  *)
(* base OTs are drawn from the generators, its mDelta is not set.          *)

EncSame(key, ctr) == key
Enc(key, ctr) == <<"enc", key, ctr>>
Ended == S.pc = "done" /\ R.pc = "done"
Used == {S.rows[k] : k \in 1..conf.n} \cup {S.extra[k] : k \in 1..Extra}

NextCall ==
  /\ Ended /\ call = 1
  /\ call' = 2
  /\ seen' = Used
  /\ IF conf.next = "again"
     THEN /\ S' = [S EXCEPT !.pc = "start"] /\ R' = [R EXCEPT !.pc = "start"]
          /\ UNCHANGED mDelta
     ELSE /\ S' = Party([c \in Cols |-> Enc(S.keys[c], S.ctr)])
          /\ R' = Party([b \in Bits |-> [c \in Cols |-> Enc(R.keys[b][c], R.ctr)]])
          /\ mDelta' = ZeroBlock
  /\ UNCHANGED <<conf, toS, toR, closed>>

Receiver == ReceiverCommit \/ ReceiverBlock \/ ReceiverOpen \/ ReceiverProve \/ ReceiverFails
Sender == SenderStart \/ SenderReceive \/ SenderBlock \/ SenderOffset \/ SenderOpened
          \/ SenderCheck
Next == Receiver \/ Sender \/ NextCall

Fairness == WF_vars(Receiver) /\ WF_vars(Sender)
Spec == Init /\ [][Next]_vars /\ Fairness

-----------------------------------------------------------------------------
(* Properties.                                                             *)

\* Neither party holds more rows than its buffers have: the sender's copy of
\* the rows of the check and the receiver's messageTemp never overflow.
TypeOK ==
  /\ S.pc \in {"start", "block", "open", "check", "done", "throw"}
  /\ R.pc \in {"start", "block", "offset", "done", "throw"}
  /\ Len(S.rows) <= conf.n /\ Len(S.extra) <= Extra
  /\ Len(R.rows) <= TempRows
  /\ closed \in BOOLEAN /\ call \in 1..2

\* When both return, the pair differs by mDelta and the receiver has the one
\* it chose, wherever the messages end in a super block, on a second call
\* and on a split pair, even if it used two choices in one row.
DotCorrect ==
  Ended =>
    \A k \in 0..(conf.n - 1) :
      /\ R.msgs[k] = S.msgs[k][conf.choices[k]]
      /\ Xor(S.msgs[k][0], S.msgs[k][1]) = mDelta
      /\ mDelta # ZeroBlock

\* The correlation asked for by setDelta, or drawn in the first call, is the
\* one of every later call of the object.
DeltaKept ==
  [][mDelta # ZeroBlock /\ mDelta' # ZeroBlock => mDelta' = mDelta]_mDelta

\* The receiver gets past the check with two choices in one row only if the
\* sender ignores the column, and never with a seed it did not commit to.
CheatCaught ==
  S.pc = "done" =>
    /\ conf.bad # Columns + 1
    /\ conf.bad \in Cols => conf.delta[conf.bad] = 0

\* Two honest parties never fail.
HonestSucceeds == conf.bad = 0 => S.pc # "throw" /\ R.pc # "throw"

\* No two rows of the matrix, of one call or of two, have the same pads.
PadsFresh == Ended => Cardinality(Used) = conf.n + Extra /\ Used \cap seen = {}

\* Both coroutines end.
BothEnd == <>[](S.pc \in {"done", "throw"} /\ R.pc \in {"done", "throw"})
=============================================================================
