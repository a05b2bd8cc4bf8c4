---------------------------- MODULE OtExtProofs ----------------------------
(***************************************************************************)
(* The calls of OtExt are oblivious transfers, for every number of OTs,    *)
(* columns, rows of a block and blocks of a message, every choice, base    *)
(* choice and setting, an honest receiver or one with two choices.         *)
(*                                                                         *)
(* The rows of both sides are given once and for all by their keys and the *)
(* block's index (T0Row, URow, QRow); Live says which of them a party, a   *)
(* message under way or the proof holds when nobody has thrown, and Dead   *)
(* why somebody has.  The sections: blocks and rows as numbers, the        *)
(* algebra of formal sums, what the check decides, from rows to messages,  *)
(* one lemma for each step of the sender, of the receiver and between two  *)
(* calls, and the theorems.                                                *)
(***************************************************************************)
EXTENDS OtExt, TLAPS

-----------------------------------------------------------------------------
(* Rows of the matrix.  A call begins at index Base of the generators.     *)

Ones == {<<c, "one">> : c \in Cols}
Base(pty) == IF pty.pc = "start" THEN pty.idx ELSE pty.idx - pty.i
NB == NumBlocks(S.mal)

T0Row(b, j) == Expand(R.keys[0], Base(R) + b, j)
URow(b, j) ==
    Xor(Xor(T0Row(b, j), Expand(R.keys[1], Base(R) + b, j)),
        Xor(If(BlockChoice(b, j) = 1, Ones), Wrong(b, j)))
QRow(b, j) == Xor(Expand(S.keys, Base(S) + b, j), Masked(URow(b, j)))

\* What the check verifies, row by row: t0 is q, with Delta where the choice is one.
Correlated(b, j) == T0Row(b, j) = Xor(QRow(b, j), If(BlockChoice(b, j) = 1, Delta))
AllCorrelated == \A b \in 0 .. (NB - 1), j \in Rows : Correlated(b, j)

KeysAlike == \A c \in Cols : S.keys[c] = R.keys[conf.delta[c]][c]

-----------------------------------------------------------------------------
(* The invariant of a call in which nobody has thrown.                     *)

IsSeq(s) == \E M : s \in Seq(M)
Fields == {"pc", "mal", "fs", "hash", "keys", "idx", "i", "left", "have", "u", "log", "t", "it", "msgs"}

ConfOk ==
    /\ conf.n \in Nat
    /\ conf.choices \in [0 .. (conf.n - 1) -> Bits]
    /\ conf.delta \in [Cols -> Bits]
    /\ \E c \in Cols : conf.delta[c] = 1
    /\ conf.extra \in [Rows -> Bits]
    /\ conf.kind \in {"random", "chosen", "correlated"}
    /\ conf.next \in Nexts /\ Nexts \subseteq {"stop", "again", "split"}
    /\ conf.bad \in 0 .. Columns
    /\ call \in 1 .. 2

\* The two objects were set up alike; without a check, with each other's keys.
Alike ==
    /\ DOMAIN S = Fields /\ DOMAIN R = Fields
    /\ S.mal \in BOOLEAN /\ R.mal = S.mal
    /\ S.fs \in BOOLEAN /\ R.fs = S.fs
    /\ S.hash \in {"NoHash", "RandomOracle", "AesHash"} /\ R.hash = S.hash
    /\ S.idx \in Nat /\ R.idx \in Nat
    /\ Base(S) \in Nat /\ Base(R) = Base(S)
    /\ conf.bad # 0 => S.mal
    /\ S.fs => S.mal
    /\ S.hash = "NoHash" => conf.n <= BlockSize
    /\ ~ S.mal \/ conf.next # "split" => KeysAlike

\* How far a party is, and what it holds of the rows.
SenderOk ==
    S.pc # "start" =>
        /\ ~ Refuses(S)
        /\ S.i \in Nat /\ S.have \in Nat /\ S.left \in Nat
        /\ S.i + S.have + S.left = NB
        /\ S.pc # "block" => S.have = 0 /\ S.left = 0
        /\ S.pc = "check" => S.mal
        /\ S.pc = "temp" => conf.kind # "random"
        /\ IsSeq(S.log)
        /\ IsSeq(S.u) /\ Len(S.u) = S.have
        /\ \A x \in 1 .. S.have : S.u[x] = [j \in Rows |-> URow(S.i + x - 1, j)]
        /\ S.it = IF Advances THEN Least(S.i * BlockSize, conf.n) ELSE 0
        /\ IsSeq(S.t)
        /\ S.mal => /\ Len(S.t) = S.i
                    /\ \A b \in 1 .. S.i : S.t[b] = [j \in Rows |-> QRow(b - 1, j)]
        /\ \A k \in 0 .. (conf.n - 1), b \in Bits : k \div BlockSize < S.i =>
             S.msgs[k][b] = HashRow(S.hash, S.mal, k,
                              Xor(QRow(k \div BlockSize, k % BlockSize), If(b = 1, Delta)))

ReceiverOk ==
    R.pc # "start" =>
        /\ R.i \in Nat /\ R.have \in Nat /\ R.left \in Nat
        /\ R.i + R.have + R.left = NB
        /\ R.pc # "block" => R.have = 0 /\ R.left = 0
        /\ R.pc = "temp" => conf.kind # "random"
        /\ IsSeq(R.log)
        /\ IsSeq(R.u) /\ Len(R.u) <= R.i
        /\ R.have = 0 => R.u = <<>>
        /\ R.have > 0 => Len(R.u) + R.have = Least(CommStep, NB - (R.i - Len(R.u)))
        /\ \A x \in 1 .. Len(R.u) :
             R.u[x] = [j \in Rows |-> URow(R.i - Len(R.u) + x - 1, j)]
        /\ IsSeq(R.t)
        /\ R.mal => /\ Len(R.t) = R.i
                    /\ \A b \in 1 .. R.i : R.t[b] = [j \in Rows |-> T0Row(b - 1, j)]
        /\ R.pc # "done" \/ conf.kind = "random" =>
             \A k \in 0 .. (conf.n - 1) : k \div BlockSize < R.i =>
               R.msgs[k] = HashRow(R.hash, R.mal, k, T0Row(k \div BlockSize, k % BlockSize))

\* The messages of u under way: blocks from the first one the sender has not got
\* to the last one the receiver has sent; behind them the proof.
Got == IF S.pc = "start" THEN 0 ELSE NB - S.left
Sent == IF R.pc = "start" THEN 0 ELSE R.i - Len(R.u)
Proofs == IF S.mal /\ R.pc \in {"temp", "done"} /\ S.pc \in {"start", "block", "check"} THEN 1 ELSE 0
Parts == Len(toS) - Proofs
First(p) == Got + (p - 1) * CommStep
Chunk(s) == [x \in 1 .. Least(CommStep, NB - s) |-> [j \in Rows |-> URow(s + x - 1, j)]]
Seed == IF R.fs THEN <<"fs", R.log>> ELSE <<"seed", call>>

Stream ==
    /\ IsSeq(toS) /\ Parts \in Nat
    /\ Sent = Least(NB, Got + Parts * CommStep)
    /\ \A p \in 1 .. Parts : First(p) < NB /\ toS[p] = Chunk(First(p))
    /\ Proofs = 1 => toS[Len(toS)] = ReceiverSums(R.t, Seed)

\* With Fiat-Shamir both sides hash the same messages.
SLog == IF S.pc = "start" THEN <<>> ELSE S.log
RLog == IF R.pc = "start" THEN <<>> ELSE R.log
Logs ==
    S.fs => /\ Len(RLog) = Len(SLog) + Parts
            /\ \A p \in 1 .. Len(SLog) : RLog[p] = SLog[p]
            /\ \A p \in 1 .. Parts : RLog[Len(SLog) + p] = toS[p]

\* The messages to the receiver: the seed of the check, then the masked pairs.
Back ==
    /\ IsSeq(toR)
    /\ S.mal /\ S.pc \in {"temp", "done"} => R.pc \in {"temp", "done"}
    /\ S.mal /\ ~ S.fs /\ R.pc \in {"temp", "done"} => S.pc \in {"check", "temp", "done"}
    /\ R.pc = "done" /\ conf.kind # "random" => S.pc = "done"
    /\ toR = IF R.pc \in {"start", "block"} /\ S.pc = "check" /\ ~ S.fs THEN <<<<"seed", call>>>>
             ELSE IF R.pc # "done" /\ S.pc = "done" /\ conf.kind # "random" THEN <<Temp>>
             ELSE <<>>

\* What the sender's check has established, and what the receiver ends with.
Checked == S.mal /\ S.pc \in {"temp", "done"} => AllCorrelated

Transferred(k) ==
    CASE conf.kind = "chosen" -> R.msgs[k] = Term("m", k, Choice(k))
      [] conf.kind = "correlated" ->
           R.msgs[k] = IF Choice(k) = 1 THEN Correlate(k, S.msgs[k][0]) ELSE S.msgs[k][0]
      [] OTHER -> TRUE
Delivered == R.pc = "done" => \A k \in 0 .. (conf.n - 1) : Transferred(k)

Live ==
    /\ S.pc \in {"start", "block", "check", "temp", "done"}
    /\ R.pc \in {"start", "block", "temp", "done"}
    /\ ~ closed
    /\ Alike /\ SenderOk /\ ReceiverOk /\ Stream /\ Logs /\ Back /\ Checked /\ Delivered

\* A party throws when the setting is refused or a row is wrong: the sender,
\* or a receiver whose sender will refuse too.
Dead ==
    /\ DOMAIN S = Fields
    /\ S.pc = "throw" \/ (S.pc = "start" /\ Refuses(S) /\ R.pc = "throw")
    /\ Refuses(S) \/ conf.bad # 0 \/ conf.next = "split"

IInv == ConfOk /\ (Live \/ Dead)

-----------------------------------------------------------------------------
(* Arithmetic of blocks.                                                   *)

\* Quotient and remainder.
LEMMA DivDef ==
    ASSUME NEW m \in Nat \ {0}, NEW x \in Nat
    PROVE  /\ x \div m \in Nat /\ x % m \in 0 .. (m - 1)
           /\ x = (x \div m) * m + (x % m)
<1>1. x \div m \in Int /\ x % m \in 0 .. (m - 1) /\ x = (x \div m) * m + (x % m)
    BY SMT
<1>2. x \div m >= 0
    BY <1>1, SMT
<1> QED
    BY <1>1, <1>2

\* The remainder is the only number in range.
LEMMA DivUnique ==
    ASSUME NEW m \in Nat \ {0}, NEW q \in Int, NEW r \in 0 .. (m - 1)
    PROVE  (q * m + r) \div m = q /\ (q * m + r) % m = r
BY SMTT(30)

\* A product with a larger factor is larger by one multiple at least.
LEMMA MulStep ==
    ASSUME NEW m \in Nat \ {0}, NEW p \in Nat, NEW q \in Nat, p < q
    PROVE  p * m + m <= q * m
<1>1. q = p + 1 + (q - (p + 1)) /\ q - (p + 1) \in Nat
    OBVIOUS
<1> DEFINE d == q - (p + 1)
<1>2. q * m = p * m + m + d * m
    BY <1>1, SMT
<1>3. d * m >= 0
    BY <1>1, SMT
<1>4. p * m \in Nat /\ q * m \in Nat /\ d * m \in Int
    BY <1>1, SMT
<1> QED
    BY <1>2, <1>3, <1>4

\* The number of blocks is the least one whose rows are enough.
LEMMA CeilDef ==
    ASSUME NEW m \in Nat \ {0}, NEW x \in Nat
    PROVE  /\ DivCeil(x, m) \in Nat
           /\ x <= DivCeil(x, m) * m /\ DivCeil(x, m) * m < x + m
<1> DEFINE y == x + m - 1
<1>1. y \in Nat
    OBVIOUS
<1>a. y = x + m - 1
    OBVIOUS
<1> HIDE DEF y
<1>2. /\ y \div m \in Nat /\ y % m \in 0 .. (m - 1)
      /\ y = (y \div m) * m + (y % m)
    BY <1>1, DivDef
<1>3. (y \div m) * m \in Nat
    BY <1>2
<1> QED
    BY <1>1, <1>2, <1>3, <1>a DEF DivCeil

\* A number is in a block exactly when its quotient is below the number of blocks.
LEMMA InBlock ==
    ASSUME NEW m \in Nat \ {0}, NEW x \in Nat, NEW k \in 0 .. (x - 1)
    PROVE  k \div m \in 0 .. (DivCeil(x, m) - 1)
<1> DEFINE q == k \div m
           d == DivCeil(x, m)
<1>a. k \in Nat
    OBVIOUS
<1>1. q \in Nat /\ k % m \in 0 .. (m - 1) /\ k = q * m + (k % m)
  <2> HIDE DEF d
  <2> QED
    BY <1>a, DivDef
<1>2. d \in Nat /\ x <= d * m /\ d * m \in Nat /\ q * m \in Nat
    BY CeilDef, <1>1
<1>3. ASSUME ~ (q < d) PROVE FALSE
  <2> HIDE DEF q, d
  <2>1. d * m <= q * m
    <3>1. CASE q = d
        BY <3>1, <1>2
    <3>2. CASE d < q
        BY <3>2, <1>1, <1>2, MulStep
    <3> QED
        BY <3>1, <3>2, <1>1, <1>2, <1>3
  <2> QED
    BY <1>1, <1>2, <2>1
<1> QED
    BY <1>1, <1>2, <1>3

\* One block more for the check.
LEMMA CeilMore ==
    ASSUME NEW m \in Nat \ {0}, NEW x \in Nat
    PROVE  DivCeil(x + m, m) = DivCeil(x, m) + 1
<1> DEFINE y == x + m - 1
<1>a. y \in Nat /\ y = x + m - 1
    OBVIOUS
<1> HIDE DEF y
<1>1. y \div m \in Nat /\ y % m \in 0 .. (m - 1) /\ y = (y \div m) * m + (y % m)
    BY <1>a, DivDef
<1> DEFINE q == y \div m
           r == y % m
<1>2. (q + 1) * m + r = y + m
    BY <1>1, SMT
<1>b. q \in Int /\ q + 1 \in Int /\ r \in 0 .. (m - 1)
    BY <1>1
<1> HIDE DEF q, r
<1>3. ((q + 1) * m + r) \div m = q + 1
    BY <1>b, DivUnique
<1>4. x + m + m - 1 = y + m
    BY <1>a
<1>5. DivCeil(x, m) = q
    BY <1>a DEF DivCeil, q
<1> QED
    BY <1>5, <1>2, <1>3, <1>4 DEF DivCeil

\* What fits in one block is one block at most.
LEMMA CeilOne ==
    ASSUME NEW m \in Nat \ {0}, NEW x \in Nat, x <= m
    PROVE  DivCeil(x, m) <= 1
<1> DEFINE d == DivCeil(x, m)
<1>1. d \in Nat /\ d * m < x + m
    BY CeilDef
<1> HIDE DEF d
<1>2. ASSUME d > 1 PROVE FALSE
  <2>1. 1 * m + m <= d * m
    BY <1>1, <1>2, MulStep
  <2>2. d * m \in Nat
    BY <1>1
  <2> QED
    BY <1>1, <2>1, <2>2
<1> QED
    BY <1>1, <1>2 DEF d

-----------------------------------------------------------------------------
(* Sums of formal terms.                                                   *)

\* What is in a sum.
LEMMA XorMember ==
    ASSUME NEW u, NEW v
    PROVE  \A a : a \in Xor(u, v) <=> ~ (a \in u <=> a \in v)
BY DEF Xor

\* A conditional term.
LEMMA IfMember ==
    ASSUME NEW bit, NEW v
    PROVE  \A a : a \in If(bit, v) <=> bit /\ a \in v
BY DEF If, ZeroBlock

\* Two values are equal when they have the same terms.
LEMMA SameTerms ==
    ASSUME NEW u, NEW v, \A a : a \in u <=> a \in v
    PROVE  u = v
OBVIOUS

\* Adding a value a second time takes it away.
LEMMA XorTwice ==
    ASSUME NEW u, NEW v
    PROVE  Xor(u, Xor(u, v)) = v
<1>1. \A a : a \in Xor(u, Xor(u, v)) <=> a \in v
    BY XorMember
<1> QED
    BY <1>1, SameTerms, Zenon

\* Nothing added.
LEMMA XorZero ==
    ASSUME NEW u
    PROVE  Xor(u, ZeroBlock) = u
<1>1. \A a : a \in Xor(u, ZeroBlock) <=> a \in u
    BY XorMember DEF ZeroBlock
<1> QED
    BY <1>1, SameTerms, Zenon

\* Adding something changes a value.
LEMMA XorChanges ==
    ASSUME NEW u, NEW v, NEW a, a \in v
    PROVE  Xor(u, v) # u
BY XorMember

\* The terms of the expanded keys, of the ones and of Delta begin with their column.
LEMMA KeyTerms ==
    ASSUME NEW keys, NEW ctr, NEW j
    PROVE  \A a : a \in Expand(keys, ctr, j) <=>
             a[1] \in Cols /\ a = <<a[1], keys[a[1]], ctr, j>>
<1> TAKE a
<1>1. ASSUME a \in Expand(keys, ctr, j)
      PROVE  a[1] \in Cols /\ a = <<a[1], keys[a[1]], ctr, j>>
  <2>1. PICK c \in Cols : a = <<c, keys[c], ctr, j>>
      BY <1>1 DEF Expand
  <2>2. a[1] = c
      BY <2>1
  <2> QED
      BY <2>1, <2>2
<1>2. ASSUME a[1] \in Cols, a = <<a[1], keys[a[1]], ctr, j>>
      PROVE  a \in Expand(keys, ctr, j)
    BY <1>2, Zenon DEF Expand
<1> QED
    BY <1>1, <1>2

LEMMA OneTerms ==
    \A a : /\ a \in Ones <=> a[1] \in Cols /\ a = <<a[1], "one">>
           /\ a \in Delta <=> a[1] \in Cols /\ conf.delta[a[1]] = 1 /\ a = <<a[1], "one">>
<1> TAKE a
<1>1. ASSUME NEW c, a = <<c, "one">> PROVE a[1] = c
    BY <1>1
<1>2. a \in Ones <=> \E c \in Cols : a = <<c, "one">>
    BY Zenon DEF Ones
<1>3. a \in Delta <=> \E c \in Cols : conf.delta[c] = 1 /\ a = <<c, "one">>
  <2>1. a \in Delta <=> \E c \in {k \in Cols : conf.delta[k] = 1} : a = <<c, "one">>
      BY Zenon DEF Delta
  <2> QED
      BY <2>1
<1> QED
    BY <1>1, <1>2, <1>3, Zenon

\* The sender's row of two keys set up alike is the receiver's row, plus Delta
\* where the choice bit is one.
LEMMA RowsOfKeys ==
    ASSUME KeysAlike, conf.delta \in [Cols -> Bits], NEW ctr, NEW j, NEW bit \in BOOLEAN
    PROVE  LET t0 == Expand(R.keys[0], ctr, j)
               t1 == Expand(R.keys[1], ctr, j)
               q == Expand(S.keys, ctr, j)
           IN  t0 = Xor(Xor(q, Masked(Xor(Xor(t0, t1), Xor(If(bit, Ones), ZeroBlock)))), If(bit, Delta))
<1> DEFINE t0 == Expand(R.keys[0], ctr, j)
           t1 == Expand(R.keys[1], ctr, j)
           q == Expand(S.keys, ctr, j)
           u == Xor(Xor(t0, t1), Xor(If(bit, Ones), ZeroBlock))
           one(a) == <<a[1], "one">>
           key(keys, a) == <<a[1], keys[a[1]], ctr, j>>
<1>1. ASSUME NEW a
      PROVE  a \in t0 <=> a \in Xor(Xor(q, Masked(u)), If(bit, Delta))
  <2>1. /\ a \in t0 <=> a[1] \in Cols /\ a = key(R.keys[0], a)
        /\ a \in t1 <=> a[1] \in Cols /\ a = key(R.keys[1], a)
        /\ a \in q <=> a[1] \in Cols /\ a = key(S.keys, a)
      BY KeyTerms
  <2>2. /\ a \in Ones <=> a[1] \in Cols /\ a = one(a)
        /\ a \in Delta <=> a[1] \in Cols /\ conf.delta[a[1]] = 1 /\ a = one(a)
      BY OneTerms
  <2>3. a[1] \in Cols => /\ conf.delta[a[1]] \in {0, 1}
                         /\ conf.delta[a[1]] = 0 => key(S.keys, a) = key(R.keys[0], a)
                         /\ conf.delta[a[1]] = 1 => key(S.keys, a) = key(R.keys[1], a)
      BY DEF KeysAlike, Bits
  <2>4. a \in Masked(u) <=> a \in u /\ conf.delta[a[1]] = 1
      BY DEF Masked
  <2> HIDE DEF t0, t1, q, one, key
  <2>5. a \in u <=> ~ (~ (a \in t0 <=> a \in t1) <=> (bit /\ a \in Ones))
      BY XorMember, IfMember, XorZero
  <2>6. a \in Xor(Xor(q, Masked(u)), If(bit, Delta)) <=>
          ~ (~ (a \in q <=> a \in Masked(u)) <=> (bit /\ a \in Delta))
      BY XorMember, IfMember
  <2> HIDE DEF u
  <2> QED
      BY <2>1, <2>2, <2>3, <2>4, <2>5, <2>6
<1> HIDE DEF t0, t1, q, u
<1>2. t0 = Xor(Xor(q, Masked(u)), If(bit, Delta))
    BY <1>1, SameTerms, Zenon
<1> QED
    BY <1>2 DEF t0, t1, q, u

-----------------------------------------------------------------------------
(* The check compares the rows one by one: the challenges keep them apart. *)

\* The challenge of block b of n + 1, and the blocks summed with theirs.
Chi(n, seed, b) == IF b = n + 1 THEN UnitChallenge ELSE Challenge(seed, b)
BlockSum(n, seed, t) ==
    Combine(UnitChallenge, t[n + 1]) \cup UNION {Combine(Challenge(seed, b), t[b]) : b \in 1 .. n}
ChoiceSum(n, seed) ==
    CombineChoices(UnitChallenge, LAMBDA j : conf.extra[j])
      \cup UNION {CombineChoices(Challenge(seed, b),
                    LAMBDA j : Choice((b - 1) * BlockSize + j)) : b \in 1 .. n}

LEMMA ChiDiffer ==
    ASSUME NEW n \in Nat, NEW seed, NEW b \in 1 .. (n + 1), NEW c \in 1 .. (n + 1),
           Chi(n, seed, b) = Chi(n, seed, c)
    PROVE  b = c
<1>1. \A x, y : Challenge(seed, x) = Challenge(seed, y) => x = y
    BY DEF Challenge
<1>2. \A x : Challenge(seed, x) # UnitChallenge
    BY DEF Challenge, UnitChallenge
<1> QED
    BY <1>1, <1>2 DEF Chi

\* What a block contributes.
LEMMA CombineHolds ==
    ASSUME NEW chi, NEW block
    PROVE  /\ \A c, j, a : <<c, j, a>> \in Combine(chi, block) <=> c = chi /\ j \in Rows /\ a \in block[j]
           /\ \A x \in Combine(chi, block) : \E j \in Rows : \E a : x = <<chi, j, a>>
<1>1. ASSUME NEW x
      PROVE  x \in Combine(chi, block) <=> \E j \in Rows : \E a \in block[j] : x = <<chi, j, a>>
  <2>1. x \in Combine(chi, block) <=> \E j \in Rows : x \in {<<chi, j, a>> : a \in block[j]}
      BY DEF Combine
  <2>2. ASSUME NEW j \in Rows
        PROVE  x \in {<<chi, j, a>> : a \in block[j]} <=> \E a \in block[j] : x = <<chi, j, a>>
      OBVIOUS
  <2> QED
      BY <2>1, <2>2, Zenon
<1>2. ASSUME NEW c, NEW j, NEW a
      PROVE  <<c, j, a>> \in Combine(chi, block) <=> c = chi /\ j \in Rows /\ a \in block[j]
  <2>1. \A i, e : <<c, j, a>> = <<chi, i, e>> <=> c = chi /\ j = i /\ a = e
      OBVIOUS
  <2>2. <<c, j, a>> \in Combine(chi, block) <=> \E i \in Rows : \E e \in block[i] : <<c, j, a>> = <<chi, i, e>>
      BY <1>1, Zenon
  <2> QED
      BY <2>1, <2>2
<1> QED
    BY <1>1, <1>2, Zenon

\* Every term of the sum of the blocks belongs to one block.
LEMMA BlockSumHolds ==
    ASSUME NEW n \in Nat, NEW seed, NEW t
    PROVE  /\ \A b \in 1 .. (n + 1), j \in Rows : \A a :
                <<Chi(n, seed, b), j, a>> \in BlockSum(n, seed, t) <=> a \in t[b][j]
           /\ \A x \in BlockSum(n, seed, t) :
                \E b \in 1 .. (n + 1), j \in Rows : \E a : x = <<Chi(n, seed, b), j, a>>
<1>1. ASSUME NEW x
      PROVE  x \in BlockSum(n, seed, t) <=> \E b \in 1 .. (n + 1) : x \in Combine(Chi(n, seed, b), t[b])
  <2>1. x \in BlockSum(n, seed, t) <=> \/ x \in Combine(UnitChallenge, t[n + 1])
                                       \/ \E b \in 1 .. n : x \in Combine(Challenge(seed, b), t[b])
      BY DEF BlockSum
  <2>2. \A b \in 1 .. n : Chi(n, seed, b) = Challenge(seed, b) /\ b \in 1 .. (n + 1)
      BY DEF Chi
  <2>3. Chi(n, seed, n + 1) = UnitChallenge /\ n + 1 \in 1 .. (n + 1)
      BY DEF Chi
  <2>4. \A b \in 1 .. (n + 1) : b \in 1 .. n \/ b = n + 1
      OBVIOUS
  <2> QED
      BY <2>1, <2>2, <2>3, <2>4, Zenon
<1>2. ASSUME NEW b \in 1 .. (n + 1), NEW j \in Rows, NEW a
      PROVE  <<Chi(n, seed, b), j, a>> \in BlockSum(n, seed, t) <=> a \in t[b][j]
  <2>1. \A c \in 1 .. (n + 1) : <<Chi(n, seed, b), j, a>> \in Combine(Chi(n, seed, c), t[c])
                               <=> Chi(n, seed, b) = Chi(n, seed, c) /\ a \in t[c][j]
      BY CombineHolds, Zenon
  <2>2. \A c \in 1 .. (n + 1) : Chi(n, seed, b) = Chi(n, seed, c) => b = c
      BY ChiDiffer
  <2> QED
      BY <1>1, <2>1, <2>2, Zenon
<1>3. ASSUME NEW x \in BlockSum(n, seed, t)
      PROVE  \E b \in 1 .. (n + 1), j \in Rows : \E a : x = <<Chi(n, seed, b), j, a>>
  <2>1. PICK b \in 1 .. (n + 1) : x \in Combine(Chi(n, seed, b), t[b])
      BY <1>1
  <2>2. \E j \in Rows : \E a : x = <<Chi(n, seed, b), j, a>>
      BY <2>1, CombineHolds
  <2> QED
      BY <2>2
<1> QED
    BY <1>2, <1>3

\* The summed choices times Delta hold Delta in the rows whose bit is one.
LEMMA ChoiceSumHolds ==
    ASSUME NEW n \in Nat, n = MainBlocks, NEW seed
    PROVE  /\ \A b \in 1 .. (n + 1), j \in Rows : \A d :
                <<Chi(n, seed, b), j, d>> \in TimesDelta(ChoiceSum(n, seed))
                  <=> BlockChoice(b - 1, j) = 1 /\ d \in Delta
           /\ \A x \in TimesDelta(ChoiceSum(n, seed)) :
                \E b \in 1 .. (n + 1), j \in Rows : \E d : x = <<Chi(n, seed, b), j, d>>
<1> DEFINE X == ChoiceSum(n, seed)
           bit(b, j) == BlockChoice(b - 1, j) = 1
<1>1. ASSUME NEW x
      PROVE  x \in X <=> \E b \in 1 .. (n + 1), j \in Rows : bit(b, j) /\ x = <<Chi(n, seed, b), j>>
  <2>1. x \in X <=> \/ \E j \in Rows : conf.extra[j] = 1 /\ x = <<UnitChallenge, j>>
                    \/ \E b \in 1 .. n : \E j \in Rows :
                         Choice((b - 1) * BlockSize + j) = 1 /\ x = <<Challenge(seed, b), j>>
      BY DEF ChoiceSum, CombineChoices
  <2>2. \A b \in 1 .. n : /\ Chi(n, seed, b) = Challenge(seed, b) /\ b \in 1 .. (n + 1)
                          /\ \A j \in Rows : bit(b, j) <=> Choice((b - 1) * BlockSize + j) = 1
      BY DEF Chi, BlockChoice
  <2>3. /\ Chi(n, seed, n + 1) = UnitChallenge /\ n + 1 \in 1 .. (n + 1)
        /\ \A j \in Rows : bit(n + 1, j) <=> conf.extra[j] = 1
      BY DEF Chi, BlockChoice
  <2>4. \A b \in 1 .. (n + 1) : b \in 1 .. n \/ b = n + 1
      OBVIOUS
  <2> HIDE DEF X, bit
  <2> QED
      BY <2>1, <2>2, <2>3, <2>4, Zenon
<1>2. ASSUME NEW x
      PROVE  x \in TimesDelta(X) <=> \E b \in 1 .. (n + 1), j \in Rows : \E d \in Delta :
                                       bit(b, j) /\ x = <<Chi(n, seed, b), j, d>>
  <2> HIDE DEF X, bit
  <2>1. x \in TimesDelta(X) <=> \E a \in X : \E d \in Delta : x = <<a[1], a[2], d>>
      BY DEF TimesDelta
  <2>2. \A b, j : <<Chi(n, seed, b), j>>[1] = Chi(n, seed, b) /\ <<Chi(n, seed, b), j>>[2] = j
      OBVIOUS
  <2>3. ASSUME NEW a \in X, NEW d \in Delta, x = <<a[1], a[2], d>>
        PROVE  \E b \in 1 .. (n + 1), j \in Rows : \E e \in Delta :
                 bit(b, j) /\ x = <<Chi(n, seed, b), j, e>>
    <3>1. PICK b \in 1 .. (n + 1), j \in Rows : bit(b, j) /\ a = <<Chi(n, seed, b), j>>
        BY <1>1
    <3>2. x = <<Chi(n, seed, b), j, d>>
        BY <2>2, <2>3, <3>1
    <3> QED
        BY <3>1, <3>2, Zenon
  <2>4. ASSUME NEW b \in 1 .. (n + 1), NEW j \in Rows, NEW d \in Delta, bit(b, j),
               x = <<Chi(n, seed, b), j, d>>
        PROVE  \E a \in X : \E e \in Delta : x = <<a[1], a[2], e>>
    <3> DEFINE a == <<Chi(n, seed, b), j>>
    <3>1. a \in X
        BY <1>1, <2>4, Zenon
    <3>2. x = <<a[1], a[2], d>>
        BY <2>2, <2>4
    <3> HIDE DEF a
    <3> QED
        BY <3>1, <3>2
  <2> QED
      BY <2>1, <2>3, <2>4, Zenon
<1>3. ASSUME NEW b \in 1 .. (n + 1), NEW j \in Rows, NEW d
      PROVE  <<Chi(n, seed, b), j, d>> \in TimesDelta(X) <=> bit(b, j) /\ d \in Delta
  <2> HIDE DEF X, bit
  <2>1. ASSUME NEW c \in 1 .. (n + 1), NEW i, NEW e
        PROVE  <<Chi(n, seed, b), j, d>> = <<Chi(n, seed, c), i, e>> <=> c = b /\ i = j /\ e = d
    <3>1. Chi(n, seed, b) = Chi(n, seed, c) => b = c
        BY ChiDiffer
    <3> QED
        BY <3>1
  <2> QED
      BY <1>2, <2>1, Zenon
<1>4. ASSUME NEW x \in TimesDelta(X)
      PROVE  \E b \in 1 .. (n + 1), j \in Rows : \E d : x = <<Chi(n, seed, b), j, d>>
  <2> HIDE DEF X, bit
  <2> QED
      BY <1>2
<1> QED
    BY <1>3, <1>4, Zenon

-----------------------------------------------------------------------------
(* What the check establishes.                                             *)

\* The blocks of a call: those of the caller's messages, one more for a check.
LEMMA BlocksOf ==
    ASSUME OtExtAssumption, ConfOk
    PROVE  /\ BlockSize \in Nat \ {0} /\ CommStep \in Nat \ {0} /\ conf.n \in Nat
           /\ MainBlocks \in Nat /\ NB \in Nat
           /\ S.mal => NB = MainBlocks + 1
           /\ ~ S.mal => NB = MainBlocks
<1>1. BlockSize \in Nat \ {0} /\ CommStep \in Nat \ {0} /\ conf.n \in Nat
    BY DEF OtExtAssumption, ConfOk
<1>2. MainBlocks \in Nat
    BY <1>1, CeilDef DEF MainBlocks
<1>3. DivCeil(conf.n + BlockSize, BlockSize) = MainBlocks + 1
    BY <1>1, CeilMore DEF MainBlocks
<1>4. conf.n + 0 = conf.n
    BY <1>1
<1> QED
    BY <1>1, <1>2, <1>3, <1>4 DEF NB, NumBlocks, MainBlocks

\* The two objects hold the matrix of the call.
SenderMatrix == /\ Len(S.t) = NB
                /\ \A b \in 1 .. NB : S.t[b] = [j \in Rows |-> QRow(b - 1, j)]
ReceiverMatrix == /\ Len(R.t) = NB
                  /\ \A b \in 1 .. NB : R.t[b] = [j \in Rows |-> T0Row(b - 1, j)]

\* A proof the receiver sent is accepted exactly when every row is correlated.
LEMMA CheckMeans ==
    ASSUME OtExtAssumption, ConfOk, S.mal, SenderMatrix, ReceiverMatrix, NEW seed,
           seed = IF S.fs THEN <<"fs", S.log>> ELSE <<"seed", call>>
    PROVE  Verifies(ReceiverSums(R.t, seed)) <=> AllCorrelated
<1> DEFINE n == MainBlocks
           T == BlockSum(n, seed, R.t)
           Q == BlockSum(n, seed, S.t)
           D == TimesDelta(ChoiceSum(n, seed))
           term(b, j, a) == <<Chi(n, seed, b), j, a>>
<1>1. n \in Nat /\ NB = n + 1
    BY BlocksOf
<1>2. Len(R.t) - 1 = n /\ Len(S.t) - 1 = n
    BY <1>1 DEF SenderMatrix, ReceiverMatrix
<1>3. ReceiverSums(R.t, seed) = [x |-> ChoiceSum(n, seed), t |-> T]
    BY <1>2 DEF ReceiverSums, ChoiceSum, BlockSum
<1>4. SenderSum(seed) = Q
    BY <1>2 DEF SenderSum, BlockSum
<1>5. Verifies(ReceiverSums(R.t, seed)) <=> T = Xor(D, Q)
    BY <1>3, <1>4 DEF Verifies
<1>6. ASSUME NEW b \in 1 .. (n + 1), NEW j \in Rows, NEW a
      PROVE  /\ term(b, j, a) \in T <=> a \in T0Row(b - 1, j)
             /\ term(b, j, a) \in Q <=> a \in QRow(b - 1, j)
             /\ term(b, j, a) \in D <=> BlockChoice(b - 1, j) = 1 /\ a \in Delta
  <2>1. R.t[b][j] = T0Row(b - 1, j) /\ S.t[b][j] = QRow(b - 1, j)
    <3> HIDE DEF n, T, Q, D, term
    <3>1. b \in 1 .. NB
        BY <1>1
    <3>2. R.t[b] = [i \in Rows |-> T0Row(b - 1, i)] /\ S.t[b] = [i \in Rows |-> QRow(b - 1, i)]
        BY <3>1, Zenon DEF SenderMatrix, ReceiverMatrix
    <3> QED
        BY <3>2
  <2>2. term(b, j, a) \in T <=> a \in R.t[b][j]
      BY <1>1, BlockSumHolds, Zenon
  <2>3. term(b, j, a) \in Q <=> a \in S.t[b][j]
      BY <1>1, BlockSumHolds, Zenon
  <2>4. term(b, j, a) \in D <=> BlockChoice(b - 1, j) = 1 /\ a \in Delta
      BY <1>1, ChoiceSumHolds, Zenon
  <2> QED
      BY <2>1, <2>2, <2>3, <2>4
<1>7. ASSUME NEW x, x \in T \/ x \in Q \/ x \in D
      PROVE  \E b \in 1 .. (n + 1), j \in Rows : \E a : x = term(b, j, a)
  <2>1. x \in T => \E b \in 1 .. (n + 1), j \in Rows : \E a : x = term(b, j, a)
      BY <1>1, BlockSumHolds
  <2>2. x \in Q => \E b \in 1 .. (n + 1), j \in Rows : \E a : x = term(b, j, a)
      BY <1>1, BlockSumHolds
  <2>3. x \in D => \E b \in 1 .. (n + 1), j \in Rows : \E a : x = term(b, j, a)
      BY <1>1, ChoiceSumHolds
  <2> QED
      BY <1>7, <2>1, <2>2, <2>3
<1>8. ASSUME NEW b \in 1 .. (n + 1), NEW j \in Rows
      PROVE  Correlated(b - 1, j) <=> \A a : term(b, j, a) \in T <=> term(b, j, a) \in Xor(D, Q)
  <2> HIDE DEF T, Q, D, term, n
  <2> DEFINE c == BlockChoice(b - 1, j) = 1
             r == Xor(QRow(b - 1, j), If(c, Delta))
  <2>1. ASSUME NEW a
        PROVE  a \in r <=> term(b, j, a) \in Xor(D, Q)
    <3> HIDE DEF c
    <3>1. a \in r <=> ~ (a \in QRow(b - 1, j) <=> c /\ a \in Delta)
        BY XorMember, IfMember
    <3>2. term(b, j, a) \in Xor(D, Q) <=> ~ (term(b, j, a) \in D <=> term(b, j, a) \in Q)
        BY XorMember
    <3>3. /\ term(b, j, a) \in Q <=> a \in QRow(b - 1, j)
          /\ term(b, j, a) \in D <=> c /\ a \in Delta
        BY <1>6 DEF c
    <3> QED
        BY <3>1, <3>2, <3>3
  <2>2. Correlated(b - 1, j) <=> T0Row(b - 1, j) = r
      BY DEF Correlated
  <2> HIDE DEF r
  <2>3. T0Row(b - 1, j) = r <=> \A a : a \in T0Row(b - 1, j) <=> a \in r
      BY SameTerms, Zenon
  <2>4. \A a : a \in T0Row(b - 1, j) <=> term(b, j, a) \in T
      BY <1>6
  <2> QED
      BY <2>1, <2>2, <2>3, <2>4
<1>9. AllCorrelated <=> \A b \in 1 .. (n + 1), j \in Rows : Correlated(b - 1, j)
  <2>1. \A b \in 0 .. (NB - 1) : b + 1 \in 1 .. (n + 1) /\ (b + 1) - 1 = b
      BY <1>1
  <2>2. \A b \in 1 .. (n + 1) : b - 1 \in 0 .. (NB - 1)
      BY <1>1
  <2> QED
      BY <2>1, <2>2 DEF AllCorrelated
<1> HIDE DEF T, Q, D, term, n
<1>10. T = Xor(D, Q) <=> \A b \in 1 .. (n + 1), j \in Rows : \A a :
                           term(b, j, a) \in T <=> term(b, j, a) \in Xor(D, Q)
  <2>1. ASSUME \A b \in 1 .. (n + 1), j \in Rows : \A a :
                 term(b, j, a) \in T <=> term(b, j, a) \in Xor(D, Q),
               NEW x
        PROVE  x \in T <=> x \in Xor(D, Q)
    <3>1. x \in Xor(D, Q) => x \in D \/ x \in Q
        BY XorMember
    <3>2. CASE x \in T \/ x \in Q \/ x \in D
      <4>1. PICK b \in 1 .. (n + 1), j \in Rows : \E a : x = term(b, j, a)
          BY <1>7, <3>2
      <4>2. PICK a : x = term(b, j, a)
          BY <4>1
      <4> QED
          BY <2>1, <4>2
    <3> QED
        BY <3>1, <3>2
  <2> QED
      BY <2>1, SameTerms
<1> QED
    BY <1>5, <1>8, <1>9, <1>10

\* Keys set up alike and no fault: every row is correlated.
LEMMA HonestRows ==
    ASSUME OtExtAssumption, ConfOk, KeysAlike, conf.bad = 0, Base(S) = Base(R)
    PROVE  \A b, j : Correlated(b, j)
<1> TAKE b, j
<1>1. Wrong(b, j) = ZeroBlock
    BY DEF Wrong, If
<1>2. conf.delta \in [Cols -> Bits]
    BY DEF ConfOk
<1> DEFINE bit == BlockChoice(b, j) = 1
<1>3. bit \in BOOLEAN
    OBVIOUS
<1> HIDE DEF bit
<1>4. LET t0 == Expand(R.keys[0], Base(R) + b, j)
          t1 == Expand(R.keys[1], Base(R) + b, j)
          q == Expand(S.keys, Base(R) + b, j)
      IN  t0 = Xor(Xor(q, Masked(Xor(Xor(t0, t1), Xor(If(bit, Ones), ZeroBlock)))), If(bit, Delta))
    BY <1>2, <1>3, RowsOfKeys, Zenon
<1> QED
    BY <1>1, <1>4 DEF Correlated, QRow, URow, T0Row, bit

\* A column with two choices shows in the first row unless it is masked out.
LEMMA CheatShows ==
    ASSUME OtExtAssumption, ConfOk, conf.bad # 0, Correlated(0, 0)
    PROVE  conf.delta[conf.bad] = 0
<1> DEFINE c == conf.bad
           a == <<c, "one">>
           bit == BlockChoice(0, 0) = 1
<1>1. c \in Cols /\ conf.delta[c] \in {0, 1}
    BY DEF ConfOk, OtExtAssumption, Cols, Bits
<1>2. a[1] = c
    OBVIOUS
<1>3. ASSUME NEW keys, NEW ctr PROVE a \notin Expand(keys, ctr, 0)
  <2>1. a # <<a[1], keys[a[1]], ctr, 0>>
      BY <1>2
  <2> HIDE DEF a
  <2> QED
      BY <2>1, KeyTerms
<1>4. (a \in Ones) /\ (a \in Delta <=> conf.delta[c] = 1)
  <2>1. a[1] \in Cols /\ a = <<a[1], "one">> /\ a[1] = c
      BY <1>1, <1>2
  <2> HIDE DEF a, c
  <2> QED
      BY <2>1, OneTerms
<1>5. a \in Wrong(0, 0)
    BY DEF Wrong, If, Opaque
<1>6. a \in Masked(URow(0, 0)) <=> a \in URow(0, 0) /\ conf.delta[c] = 1
    BY <1>2 DEF Masked
<1> HIDE DEF a, bit
<1>7. a \in URow(0, 0) <=> ~ bit
  <2> DEFINE e0 == Expand(R.keys[0], Base(R) + 0, 0)
             e1 == Expand(R.keys[1], Base(R) + 0, 0)
             w == Wrong(0, 0)
  <2>1. URow(0, 0) = Xor(Xor(e0, e1), Xor(If(bit, Ones), w))
      BY DEF URow, T0Row, bit
  <2>2. a \notin e0 /\ a \notin e1 /\ a \in w /\ a \in Ones
      BY <1>3, <1>4, <1>5
  <2> HIDE DEF e0, e1, w
  <2>3. a \in If(bit, Ones) <=> bit
      BY <2>2, IfMember
  <2>4. a \in Xor(If(bit, Ones), w) <=> ~ bit
      BY <2>2, <2>3, XorMember
  <2>5. a \notin Xor(e0, e1)
      BY <2>2, XorMember
  <2> QED
      BY <2>1, <2>4, <2>5, XorMember
<1>8. ~ (a \in T0Row(0, 0))
    BY <1>3 DEF T0Row
<1>9. a \in Xor(QRow(0, 0), If(bit, Delta)) <=> ~ (a \in Masked(URow(0, 0)) <=> bit /\ a \in Delta)
    BY <1>3, XorMember, IfMember DEF QRow
<1>10. T0Row(0, 0) = Xor(QRow(0, 0), If(bit, Delta))
    BY DEF Correlated, bit
<1> QED
    BY <1>1, <1>4, <1>6, <1>7, <1>8, <1>9, <1>10

-----------------------------------------------------------------------------
(* What two parties hold at the end of a call whose rows are correlated.   *)

\* The row of a message and its choice bit.
LEMMA RowOf ==
    ASSUME OtExtAssumption, ConfOk, NEW k \in 0 .. (conf.n - 1)
    PROVE  /\ k \div BlockSize \in 0 .. (MainBlocks - 1) /\ k \div BlockSize \in 0 .. (NB - 1)
           /\ k % BlockSize \in Rows
           /\ BlockChoice(k \div BlockSize, k % BlockSize) = Choice(k)
           /\ Choice(k) \in Bits
<1> DEFINE b == k \div BlockSize
           j == k % BlockSize
<1>1. /\ BlockSize \in Nat \ {0} /\ conf.n \in Nat /\ MainBlocks \in Nat /\ k \in Nat
      /\ NB = MainBlocks \/ NB = MainBlocks + 1
    BY BlocksOf
<1>2. b \in 0 .. (MainBlocks - 1)
    BY <1>1, InBlock DEF MainBlocks
<1>3. j \in 0 .. (BlockSize - 1) /\ k = b * BlockSize + j
    BY <1>1, DivDef
<1>4. Choice(k) \in Bits
    BY <1>1 DEF Choice, ConfOk
<1> HIDE DEF b, j
<1>5. b \in 0 .. (NB - 1) /\ b < MainBlocks
    BY <1>1, <1>2
<1>6. BlockChoice(b, j) = Choice(k)
    BY <1>3, <1>5 DEF BlockChoice
<1> QED
    BY <1>2, <1>3, <1>4, <1>5, <1>6 DEF b, j, Rows

\* Different rows have different hashes.
LEMMA HashInjective ==
    ASSUME NEW hash, NEW mal, NEW k, NEW v, NEW w,
           HashRow(hash, mal, k, v) = HashRow(hash, mal, k, w)
    PROVE  v = w
<1>1. \A x, y : Opaque(x) = Opaque(y) => x = y
    BY DEF Opaque
<1>2. \A tag, x, y : <<"H", tag, x>> = <<"H", tag, y>> => x = y
    OBVIOUS
<1>3. CASE hash = "NoHash"
    BY <1>3 DEF HashRow
<1>4. CASE hash = "RandomOracle"
  <2>1. Opaque(<<"H", <<"ro", k>>, v>>) = Opaque(<<"H", <<"ro", k>>, w>>)
      BY <1>4 DEF HashRow
  <2> QED
      BY <2>1, <1>1, <1>2
<1>5. CASE hash = "AesHash" /\ mal
  <2>1. Opaque(<<"H", <<"tmmo", k>>, v>>) = Opaque(<<"H", <<"tmmo", k>>, w>>)
      BY <1>5 DEF HashRow
  <2> QED
      BY <2>1, <1>1, <1>2
<1>6. CASE hash # "NoHash" /\ hash # "RandomOracle" /\ ~ (hash = "AesHash" /\ mal)
  <2>1. Opaque(<<"H", <<"aes">>, v>>) = Opaque(<<"H", <<"aes">>, w>>)
      BY <1>6 DEF HashRow
  <2> QED
      BY <2>1, <1>1, <1>2
<1> QED
    BY <1>3, <1>4, <1>5, <1>6

\* The receiver's row is the sender's for the choice bit; the two of the sender differ.
LEMMA RowsTransfer ==
    ASSUME OtExtAssumption, ConfOk, AllCorrelated, NEW k \in 0 .. (conf.n - 1)
    PROVE  LET t0 == T0Row(k \div BlockSize, k % BlockSize)
               q == QRow(k \div BlockSize, k % BlockSize)
           IN  /\ t0 = Xor(q, If(Choice(k) = 1, Delta))
               /\ Xor(q, If(0 = 1, Delta)) # Xor(q, If(1 = 1, Delta))
<1> DEFINE b == k \div BlockSize
           j == k % BlockSize
           q == QRow(b, j)
<1>1. b \in 0 .. (NB - 1) /\ j \in Rows /\ BlockChoice(b, j) = Choice(k)
    BY RowOf
<1> HIDE DEF b, j
<1>2. T0Row(b, j) = Xor(q, If(Choice(k) = 1, Delta))
    BY <1>1 DEF AllCorrelated, Correlated
<1>3. If(0 = 1, Delta) = ZeroBlock /\ If(1 = 1, Delta) = Delta
    BY DEF If
<1>4. PICK a : a \in Delta
  <2>1. PICK c \in Cols : conf.delta[c] = 1
      BY DEF ConfOk
  <2>2. <<c, "one">> \in Delta
      BY <2>1 DEF Delta
  <2> QED
      BY <2>2
<1> HIDE DEF q
<1>5. Xor(q, ZeroBlock) = q /\ Xor(q, Delta) # q
    BY <1>4, XorZero, XorChanges
<1>6. Xor(q, If(0 = 1, Delta)) # Xor(q, If(1 = 1, Delta))
    BY <1>3, <1>5
<1> QED
    BY <1>2, <1>6 DEF q, b, j

\* So a random transfer is right.
LEMMA MessagesTransfer ==
    ASSUME OtExtAssumption, ConfOk, Alike, SenderOk, ReceiverOk, AllCorrelated,
           S.pc \in {"temp", "done"}, R.pc \in {"temp", "done"},
           R.pc # "done" \/ conf.kind = "random",
           NEW k \in 0 .. (conf.n - 1)
    PROVE  /\ R.msgs[k] = S.msgs[k][Choice(k)]
           /\ S.msgs[k][0] # S.msgs[k][1]
<1> DEFINE b == k \div BlockSize
           t0 == T0Row(b, k % BlockSize)
           q == QRow(b, k % BlockSize)
           v(e) == Xor(q, If(e = 1, Delta))
<1>1. b \in 0 .. (NB - 1) /\ Choice(k) \in Bits
    BY RowOf
<1>2. NB \in Nat
    BY BlocksOf
<1>3. S.i = NB /\ R.i = NB
    BY <1>2 DEF SenderOk, ReceiverOk
<1>4. k \div BlockSize < S.i /\ k \div BlockSize < R.i
  <2> HIDE DEF b
  <2>1. b < S.i /\ b < R.i
      BY <1>1, <1>2, <1>3
  <2> QED
      BY <2>1 DEF b
<1>5. R.msgs[k] = HashRow(R.hash, R.mal, k, t0)
    BY <1>4 DEF ReceiverOk
<1>6. \A e \in Bits : S.msgs[k][e] = HashRow(S.hash, S.mal, k, v(e))
    BY <1>4 DEF SenderOk
<1>7. R.hash = S.hash /\ R.mal = S.mal
    BY DEF Alike
<1>8. t0 = v(Choice(k)) /\ v(0) # v(1)
    BY RowsTransfer
<1> HIDE DEF t0, v
<1>9. R.msgs[k] = S.msgs[k][Choice(k)]
    BY <1>1, <1>5, <1>6, <1>7, <1>8
<1>10. S.msgs[k][0] # S.msgs[k][1]
  <2>1. 0 \in Bits /\ 1 \in Bits
      BY DEF Bits
  <2>2. ASSUME S.msgs[k][0] = S.msgs[k][1] PROVE FALSE
    <3>1. HashRow(S.hash, S.mal, k, v(0)) = HashRow(S.hash, S.mal, k, v(1))
        BY <1>6, <2>1, <2>2, Zenon
    <3>2. v(0) = v(1)
        BY <3>1, HashInjective, Zenon
    <3> QED
        BY <3>2, <1>8
  <2> QED
      BY <2>2
<1> QED
    BY <1>9, <1>10

\* And what the receiver makes of the sender's masked pair is its output.
LEMMA UnmaskRight ==
    ASSUME OtExtAssumption, ConfOk, conf.kind # "random", NEW k \in 0 .. (conf.n - 1),
           R.msgs[k] = S.msgs[k][Choice(k)]
    PROVE  Unmask(k, Temp) = IF conf.kind = "chosen" THEN Term("m", k, Choice(k))
                             ELSE IF Choice(k) = 1 THEN Correlate(k, S.msgs[k][0])
                                  ELSE S.msgs[k][0]
<1>1. Choice(k) \in Bits /\ Bits = {0, 1}
    BY RowOf DEF Bits
<1> DEFINE h(b) == S.msgs[k][b]
<1>2. CASE conf.kind = "chosen"
  <2>1. Temp[k] = [b \in Bits |-> Xor(h(b), Term("m", k, b))]
      BY <1>2 DEF Temp
  <2> HIDE DEF h
  <2>2. Temp[k][Choice(k)] = Xor(h(Choice(k)), Term("m", k, Choice(k)))
      BY <1>1, <2>1
  <2>3. Unmask(k, Temp) = Xor(h(Choice(k)), Xor(h(Choice(k)), Term("m", k, Choice(k))))
      BY <1>2, <2>2 DEF Unmask, h
  <2> QED
      BY <1>2, <2>3, XorTwice
<1>3. CASE conf.kind # "chosen"
  <2>1. Temp[k] = Xor(h(1), Correlate(k, h(0)))
      BY <1>3 DEF Temp
  <2> HIDE DEF h
  <2>2. Unmask(k, Temp) = Xor(h(Choice(k)), If(Choice(k) = 1, Xor(h(1), Correlate(k, h(0)))))
      BY <1>3, <2>1 DEF Unmask, h
  <2>3. CASE Choice(k) = 1
    <3>1. Unmask(k, Temp) = Xor(h(1), Xor(h(1), Correlate(k, h(0))))
        BY <2>2, <2>3 DEF If
    <3> QED
        BY <1>3, <2>3, <3>1, XorTwice DEF h
  <2>4. CASE Choice(k) = 0
    <3>1. Unmask(k, Temp) = Xor(h(0), ZeroBlock)
        BY <2>2, <2>4 DEF If
    <3> QED
        BY <1>3, <2>4, <3>1, XorZero DEF h
  <2> QED
      BY <1>1, <2>3, <2>4
<1> QED
    BY <1>2, <1>3

\* The rows of a call the sender has finished are correlated.
LEMMA RowsRight ==
    ASSUME OtExtAssumption, ConfOk, Alike, Checked, S.pc \in {"temp", "done"}
    PROVE  AllCorrelated
<1>1. CASE S.mal
    BY <1>1 DEF Checked
<1>2. CASE ~ S.mal
  <2>1. KeysAlike /\ conf.bad = 0 /\ Base(S) = Base(R)
      BY <1>2 DEF Alike
  <2> QED
      BY <2>1, HonestRows DEF AllCorrelated
<1> QED
    BY <1>1, <1>2

\* The properties of a call in progress.
LEMMA LiveCorrect ==
    ASSUME OtExtAssumption, ConfOk, Live
    PROVE  OtCorrect /\ CheatCaught
<1>1. CheatCaught
  <2> SUFFICES ASSUME conf.bad # 0, S.pc \in {"temp", "done"} PROVE conf.delta[conf.bad] = 0
      BY DEF CheatCaught
  <2>1. S.mal /\ Alike
      BY DEF Live, Alike
  <2>2. AllCorrelated
      BY RowsRight DEF Live
  <2>3. 0 \in 0 .. (NB - 1) /\ 0 \in Rows
      BY <2>1, BlocksOf DEF Rows
  <2>4. Correlated(0, 0)
      BY <2>2, <2>3 DEF AllCorrelated
  <2> QED
      BY <2>4, CheatShows
<1>2. OtCorrect
  <2> SUFFICES ASSUME Ended, NEW k \in 0 .. (conf.n - 1)
               PROVE  CASE conf.kind = "random" ->
                             /\ R.msgs[k] = S.msgs[k][Choice(k)]
                             /\ S.msgs[k][0] # S.msgs[k][1]
                        [] conf.kind = "chosen" -> R.msgs[k] = Term("m", k, Choice(k))
                        [] OTHER -> R.msgs[k] = IF Choice(k) = 1 THEN Correlate(k, S.msgs[k][0])
                                                ELSE S.msgs[k][0]
      BY DEF OtCorrect
  <2>1. S.pc = "done" /\ R.pc = "done" /\ conf.kind \in {"random", "chosen", "correlated"}
      BY DEF Ended, ConfOk
  <2>2. CASE conf.kind = "random"
    <3>1. AllCorrelated
        BY <2>1, RowsRight DEF Live
    <3>2. R.msgs[k] = S.msgs[k][Choice(k)] /\ S.msgs[k][0] # S.msgs[k][1]
        BY <2>1, <2>2, <3>1, MessagesTransfer DEF Live
    <3> QED
        BY <2>2, <3>2
  <2>3. CASE conf.kind # "random"
    <3>1. Transferred(k)
        BY <2>1 DEF Live, Delivered
    <3> QED
        BY <2>1, <2>3, <3>1 DEF Transferred
  <2> QED
      BY <2>2, <2>3
<1> QED
    BY <1>1, <1>2

-----------------------------------------------------------------------------
(* What a step of a call leaves alone.                                     *)

SameSet(p, q) == p.mal = q.mal /\ p.fs = q.fs /\ p.hash = q.hash /\ p.keys = q.keys
Steady ==
    /\ conf' = conf /\ call' = call
    /\ SameSet(S', S) /\ SameSet(R', R)
    /\ Base(S)' = Base(S) /\ Base(R)' = Base(R)

\* The rows stay what they are.
LEMMA RowsFrame ==
    ASSUME Steady
    PROVE  /\ \A b, j : /\ T0Row(b, j)' = T0Row(b, j) /\ URow(b, j)' = URow(b, j)
                        /\ QRow(b, j)' = QRow(b, j)
           /\ NB' = NB
           /\ AllCorrelated' <=> AllCorrelated
           /\ KeysAlike' <=> KeysAlike
           /\ Refuses(S)' <=> Refuses(S)
           /\ Delta' = Delta
<1>1. /\ conf' = conf /\ S'.keys = S.keys /\ R'.keys = R.keys /\ S'.mal = S.mal /\ S'.hash = S.hash
      /\ Base(S)' = Base(S) /\ Base(R)' = Base(R)
    BY DEF Steady, SameSet
<1>2. \A b, j : T0Row(b, j)' = T0Row(b, j)
    BY <1>1 DEF T0Row
<1>3. \A b, j : BlockChoice(b, j)' = BlockChoice(b, j) /\ Wrong(b, j)' = Wrong(b, j)
    BY <1>1 DEF BlockChoice, Wrong, Choice, MainBlocks
<1>4. \A b, j : URow(b, j)' = URow(b, j)
    BY <1>1, <1>2, <1>3 DEF URow
<1>5. \A b, j : QRow(b, j)' = QRow(b, j)
    BY <1>1, <1>4 DEF QRow, Masked
<1>6. NB' = NB
    BY <1>1 DEF NB, NumBlocks
<1>7. Delta' = Delta
    BY <1>1 DEF Delta
<1>8. \A b, j : Correlated(b, j)' <=> Correlated(b, j)
    BY <1>2, <1>3, <1>5, <1>7 DEF Correlated
<1>9. AllCorrelated' <=> AllCorrelated
    BY <1>6, <1>8 DEF AllCorrelated
<1>10. (KeysAlike' <=> KeysAlike) /\ (Refuses(S)' <=> Refuses(S))
    BY <1>1 DEF KeysAlike, Refuses
<1> QED
    BY <1>2, <1>4, <1>5, <1>6, <1>7, <1>9, <1>10

\* The sums of a proof depend on the inputs of the call alone.
LEMMA SumsFrame ==
    ASSUME conf' = conf, NEW t, NEW seed
    PROVE  ReceiverSums(t, seed)' = ReceiverSums(t, seed)
<1> DEFINE n == Len(t) - 1
           one(x) == \E j \in Rows : conf.extra[j] = 1 /\ x = <<UnitChallenge, j>>
           more(x) == \E b \in 1 .. n : \E j \in Rows :
                        Choice((b - 1) * BlockSize + j) = 1 /\ x = <<Challenge(seed, b), j>>
<1>1. \A x : x \in ChoiceSum(n, seed) <=> one(x) \/ more(x)
  <2> HIDE DEF n
  <2> QED
      BY DEF ChoiceSum, CombineChoices
<1>2. \A x : x \in ChoiceSum(n, seed)' <=> one(x)' \/ more(x)'
  <2> HIDE DEF n
  <2> QED
      BY DEF ChoiceSum, CombineChoices
<1>3. \A x : (one(x)' <=> one(x)) /\ (more(x)' <=> more(x))
  <2>1. conf'.extra = conf.extra /\ \A i : Choice(i)' = Choice(i)
      BY DEF Choice
  <2> QED
      BY <2>1
<1>4. ChoiceSum(n, seed)' = ChoiceSum(n, seed)
  <2> HIDE DEF n, one, more
  <2>1. \A x : x \in ChoiceSum(n, seed)' <=> x \in ChoiceSum(n, seed)
      BY <1>1, <1>2, <1>3, Zenon
  <2> QED
      BY <2>1, SameTerms, Zenon
<1>5. ReceiverSums(t, seed) = [x |-> ChoiceSum(n, seed), t |-> BlockSum(n, seed, t)]
    BY DEF ReceiverSums, ChoiceSum, BlockSum
<1>6. ReceiverSums(t, seed)' = [x |-> ChoiceSum(n, seed)', t |-> BlockSum(n, seed, t)]
    BY DEF ReceiverSums, ChoiceSum, BlockSum
<1> QED
    BY <1>4, <1>5, <1>6

LEMMA ConfFrame ==
    ASSUME ConfOk, conf' = conf, call' \in 1 .. 2
    PROVE  ConfOk'
BY DEF ConfOk

LEMMA AlikeFrame ==
    ASSUME Alike, Steady, DOMAIN S' = Fields, DOMAIN R' = Fields, S'.idx \in Nat, R'.idx \in Nat
    PROVE  Alike'
<1>1. KeysAlike' <=> KeysAlike
    BY RowsFrame
<1> QED
    BY <1>1 DEF Alike, Steady, SameSet

LEMMA SenderFrame ==
    ASSUME SenderOk, Steady, S' = S
    PROVE  SenderOk'
<1>1. /\ \A b, j : URow(b, j)' = URow(b, j) /\ QRow(b, j)' = QRow(b, j)
      /\ NB' = NB /\ Delta' = Delta /\ conf' = conf
    BY RowsFrame DEF Steady
<1> QED
    BY <1>1 DEF SenderOk, Refuses, Advances

LEMMA ReceiverFrame ==
    ASSUME ReceiverOk, Steady, R' = R
    PROVE  ReceiverOk'
<1>1. /\ \A b, j : URow(b, j)' = URow(b, j) /\ T0Row(b, j)' = T0Row(b, j)
      /\ NB' = NB /\ conf' = conf
    BY RowsFrame DEF Steady
<1> QED
    BY <1>1 DEF ReceiverOk

\* Nothing sent or taken, and a proof that is under way is still that of R.t.
LEMMA StreamFrame ==
    ASSUME Stream, Logs, Steady, toS' = toS, Got' = Got, Sent' = Sent, Proofs' = Proofs,
           Proofs = 1 => R'.t = R.t /\ R'.log = R.log,
           SLog' = SLog, RLog' = RLog
    PROVE  Stream' /\ Logs'
<1>1. /\ \A b, j : URow(b, j)' = URow(b, j)
      /\ NB' = NB /\ conf' = conf /\ call' = call /\ S'.fs = S.fs /\ R'.fs = R.fs
    BY RowsFrame DEF Steady, SameSet
<1>2. \A s : Chunk(s)' = Chunk(s)
    BY <1>1 DEF Chunk
<1>3. Parts' = Parts /\ \A p : First(p)' = First(p)
    BY DEF Parts, First
<1>4. Proofs = 1 => Seed' = Seed
    BY <1>1 DEF Seed
<1>5. Proofs = 1 => ReceiverSums(R.t, Seed)' = ReceiverSums(R.t, Seed)
  <2>1. \A t, s : ReceiverSums(t, s)' = ReceiverSums(t, s)
      BY <1>1, SumsFrame
  <2> SUFFICES ASSUME Proofs = 1 PROVE ReceiverSums(R.t, Seed)' = ReceiverSums(R.t, Seed)
      OBVIOUS
  <2>2. R'.t = R.t /\ Seed' = Seed
      BY <1>4
  <2> QED
      BY <2>1, <2>2
<1>6. Stream'
    BY <1>1, <1>2, <1>3, <1>5 DEF Stream
<1>7. Logs'
    BY <1>1, <1>3 DEF Logs
<1> QED
    BY <1>6, <1>7

LEMMA DeliveredFrame ==
    ASSUME Delivered, conf' = conf, R'.pc = R.pc, R'.msgs = R.msgs,
           R.pc = "done" => S'.msgs = S.msgs
    PROVE  Delivered'
<1>1. R.pc = "done" => \A k : Transferred(k)' <=> Transferred(k)
    BY Zenon DEF Transferred, Choice
<1> QED
    BY <1>1 DEF Delivered

-----------------------------------------------------------------------------
(* The steps of the sender.                                                *)

\* Numbers every step needs.
LEMMA Counts ==
    ASSUME OtExtAssumption, ConfOk, Live
    PROVE  /\ BlockSize \in Nat \ {0} /\ CommStep \in Nat \ {0} /\ conf.n \in Nat /\ NB \in Nat
           /\ S.idx \in Nat /\ R.idx \in Nat /\ Base(S) \in Nat /\ Base(R) = Base(S)
           /\ S.pc # "start" => /\ S.i \in Nat /\ S.have \in Nat /\ S.left \in Nat
                                /\ S.i + S.have + S.left = NB
                                /\ S.idx - S.i = Base(S) /\ S.idx = Base(S) + S.i
           /\ R.pc # "start" => /\ R.i \in Nat /\ R.have \in Nat /\ R.left \in Nat
                                /\ R.i + R.have + R.left = NB
                                /\ R.idx - R.i = Base(R) /\ R.idx = Base(R) + R.i
           /\ Len(toS) \in Nat /\ Parts \in Nat /\ Proofs \in 0 .. 1 /\ Len(toS) = Parts + Proofs
<1>1. BlockSize \in Nat \ {0} /\ CommStep \in Nat \ {0} /\ conf.n \in Nat /\ NB \in Nat
    BY BlocksOf
<1>2. S.idx \in Nat /\ R.idx \in Nat /\ Base(S) \in Nat /\ Base(R) = Base(S)
    BY DEF Live, Alike
<1>3. S.pc # "start" => S.i \in Nat /\ S.have \in Nat /\ S.left \in Nat /\ S.i + S.have + S.left = NB
    BY DEF Live, SenderOk
<1>4. R.pc # "start" => R.i \in Nat /\ R.have \in Nat /\ R.left \in Nat /\ R.i + R.have + R.left = NB
    BY DEF Live, ReceiverOk
<1>5. Len(toS) \in Nat /\ Parts \in Nat /\ Proofs \in 0 .. 1
    BY DEF Live, Stream, IsSeq, Proofs
<1>6. Len(toS) = Parts + Proofs
    BY <1>5 DEF Parts
<1>7. S.pc # "start" => S.idx - S.i = Base(S) /\ S.idx = Base(S) + S.i
    BY <1>2, <1>3 DEF Base
<1>8. R.pc # "start" => R.idx - R.i = Base(R) /\ R.idx = Base(R) + R.i
    BY <1>2, <1>4 DEF Base
<1> QED
    BY <1>1, <1>2, <1>3, <1>4, <1>5, <1>6, <1>7, <1>8

LEMMA SenderStartLive ==
    ASSUME OtExtAssumption, ConfOk, Live, SenderStart, ~ Refuses(S)
    PROVE  Live'
<1>1. /\ S.pc = "start" /\ DOMAIN S = Fields
      /\ conf' = conf /\ call' = call /\ R' = R /\ toS' = toS /\ toR' = toR
      /\ ~ closed /\ ~ closed'
    BY DEF SenderStart, Live, Alike
<1>2. /\ DOMAIN S' = Fields /\ S'.pc = "block" /\ S'.idx = S.idx /\ S'.i = 0 /\ S'.have = 0
      /\ S'.left = NB /\ S'.u = <<>> /\ S'.log = <<>> /\ S'.t = <<>> /\ S'.it = 0
      /\ SameSet(S', S)
    BY <1>1 DEF SenderStart, Fresh, Fields, SameSet, NB
<1>3. Steady
  <2>1. Base(S)' = Base(S)
      BY <1>1, <1>2, Counts DEF Base
  <2> QED
      BY <1>1, <1>2, <2>1 DEF Steady, SameSet
<1>4. NB' = NB /\ NB \in Nat /\ conf.n \in Nat /\ (Refuses(S)' <=> Refuses(S)) /\ BlockSize \in Nat
    BY <1>3, RowsFrame, Counts
<1>5. Alike'
    BY <1>1, <1>2, <1>3, AlikeFrame, Counts DEF Live, Alike
<1>6. SenderOk'
  <2>1. S'.it = Least(0 * BlockSize, conf.n) /\ S'.it = 0
      BY <1>2, <1>4 DEF Least
  <2>2. <<>> \in Seq({}) /\ Len(<<>>) = 0
      OBVIOUS
  <2>3. \A k \in 0 .. (conf.n - 1) : ~ (k \div BlockSize < 0)
    <3> TAKE k \in 0 .. (conf.n - 1)
    <3>1. k \in Nat /\ BlockSize \in Nat \ {0}
        BY <1>4, Counts
    <3>2. k \div BlockSize \in Nat
        BY <3>1, DivDef
    <3> QED
        BY <3>2
  <2>4. conf' = conf
      BY <1>1
  <2> QED
      BY <1>2, <1>4, <2>1, <2>2, <2>3, <2>4 DEF SenderOk, IsSeq
<1>7. ReceiverOk'
    BY <1>1, <1>3, ReceiverFrame DEF Live
<1>8. Stream' /\ Logs'
  <2>1. Got' = Got
      BY <1>1, <1>2, <1>4 DEF Got
  <2>2. Sent' = Sent /\ RLog' = RLog
      BY <1>1 DEF Sent, RLog
  <2>3. SLog' = SLog
      BY <1>1, <1>2 DEF SLog
  <2>4. Proofs' = Proofs
      BY <1>1, <1>2 DEF Proofs, SameSet
  <2> QED
      BY <1>1, <1>3, <2>1, <2>2, <2>3, <2>4, StreamFrame DEF Live
<1>9. Back'
    BY <1>1, <1>2 DEF Live, Back, SameSet
<1>10. Checked' /\ Delivered'
    BY <1>1, <1>2, DeliveredFrame DEF Live, Checked, Back, SameSet, Delivered, Transferred
<1> QED
    BY <1>1, <1>2, <1>5, <1>6, <1>7, <1>8, <1>9, <1>10 DEF Live

\* Taking the first message of the stream.
Fit(c, N, G, P) == \A p \in 1 .. P : G + (p - 1) * c < N
Taken(c, N, G, P) ==
    LET G2 == G + Least(c, N - G)
    IN  /\ \A p \in 1 .. (P - 1) : G2 + (p - 1) * c = G + p * c
        /\ Least(N, G2 + (P - 1) * c) = Least(N, G + P * c)

LEMMA TakeChunk ==
    ASSUME NEW c \in Nat \ {0}, NEW N \in Nat, NEW G \in Nat, NEW P \in Nat, G < N, P >= 1,
           Fit(c, N, G, P)
    PROVE  Taken(c, N, G, P)
<1> USE DEF Fit, Taken
<1>1. ASSUME P >= 2 PROVE G + c < N
  <2>1. 2 \in 1 .. P
      BY <1>1
  <2>2. G + (2 - 1) * c < N
      BY <2>1
  <2> QED
      BY <2>2
<1>2. ASSUME NEW p \in Nat, p >= 1 PROVE p * c = (p - 1) * c + c /\ (p - 1) * c \in Nat
  <2>1. p - 1 \in Nat /\ p = (p - 1) + 1
      BY <1>2
  <2>2. ((p - 1) + 1) * c = (p - 1) * c + c
      BY <2>1, SMT
  <2> QED
      BY <2>1, <2>2
<1>3. CASE G + c <= N
  <2>1. Least(c, N - G) = c
      BY <1>3 DEF Least
  <2>2. \A p \in 1 .. (P - 1) : G + c + (p - 1) * c = G + p * c
    <3> TAKE p \in 1 .. (P - 1)
    <3>1. p \in Nat /\ p >= 1
        OBVIOUS
    <3> QED
        BY <3>1, <1>2
  <2>3. G + c + (P - 1) * c = G + P * c
      BY <1>2
  <2> QED
      BY <2>1, <2>2, <2>3
<1>4. CASE ~ (G + c <= N)
  <2>1. P = 1
      BY <1>1, <1>4
  <2>2. Least(c, N - G) = N - G
      BY <1>4 DEF Least
  <2>3. Least(N, G + (N - G) + (1 - 1) * c) = N /\ Least(N, G + 1 * c) = N
      BY <1>4 DEF Least
  <2>4. \A p \in 1 .. (1 - 1) : FALSE
      OBVIOUS
  <2> QED
      BY <2>1, <2>2, <2>3, <2>4
<1> QED
    BY <1>3, <1>4

\* Putting one more at its end.
Put(c, N, G, P, s) ==
    /\ G + P * c = s
    /\ Least(N, G + (P + 1) * c) = s + Least(c, N - s)
Room(c, N, G, P, s) == s < N /\ s = Least(N, G + P * c)

LEMMA PutChunk ==
    ASSUME NEW c \in Nat \ {0}, NEW N \in Nat, NEW G \in Nat, NEW P \in Nat, NEW s \in Nat,
           Room(c, N, G, P, s)
    PROVE  Put(c, N, G, P, s)
<1> USE DEF Put, Room
<1>1. P * c \in Nat /\ (P + 1) * c = P * c + c
    BY SMT
<1>2. G + P * c = s
    BY <1>1 DEF Least
<1>3. G + (P + 1) * c = s + c
    BY <1>1, <1>2
<1>4. Least(N, s + c) = s + Least(c, N - s)
    BY DEF Least
<1> QED
    BY <1>2, <1>3, <1>4

LEMMA SenderReceiveLive ==
    ASSUME OtExtAssumption, ConfOk, Live, SenderReceive
    PROVE  Live'
<1> DEFINE step == Least(S.left, CommStep)
           G == NB - S.left
           P == Parts
<1>1. /\ S.pc = "block" /\ S.have = 0 /\ S.left > 0 /\ toS # <<>> /\ DOMAIN S = Fields
      /\ conf' = conf /\ call' = call /\ R' = R /\ toR' = toR /\ closed' = closed /\ ~ closed
      /\ toS' = Tail(toS)
    BY DEF SenderReceive, Live, Alike
<1>2. /\ DOMAIN S' = Fields /\ S'.pc = "block" /\ S'.idx = S.idx /\ S'.i = S.i
      /\ S'.t = S.t /\ S'.it = S.it /\ S'.msgs = S.msgs /\ SameSet(S', S)
      /\ S'.left = S.left - step /\ S'.have = step /\ S'.u = Head(toS)
      /\ S'.log = IF S.fs THEN Append(S.log, Head(toS)) ELSE S.log
    BY <1>1 DEF SenderReceive, Fields, SameSet
<1>3. Steady
  <2>1. Base(S)' = Base(S)
      BY <1>1, <1>2 DEF Base
  <2> QED
      BY <1>1, <1>2, <2>1 DEF Steady, SameSet
<1>4. /\ NB' = NB /\ NB \in Nat /\ (Refuses(S)' <=> Refuses(S)) /\ Delta' = Delta
      /\ \A b, j : URow(b, j)' = URow(b, j) /\ QRow(b, j)' = QRow(b, j)
    BY <1>3, RowsFrame, Counts
<1>5. Alike'
    BY <1>1, <1>2, <1>3, AlikeFrame, Counts DEF Live, Alike
<1>6. /\ CommStep \in Nat \ {0} /\ S.left \in Nat /\ S.i \in Nat /\ S.i + S.left = NB
      /\ G \in Nat /\ G = S.i /\ G < NB /\ Got = G
    BY <1>1, Counts DEF Got
<1>7. step \in Nat /\ step >= 1 /\ step <= S.left /\ step = Least(CommStep, NB - G)
    BY <1>6 DEF Least
<1>8. /\ P \in Nat /\ Proofs \in 0 .. 1 /\ Len(toS) = P + Proofs /\ IsSeq(toS)
      /\ Sent = Least(NB, G + P * CommStep)
      /\ \A p \in 1 .. P : First(p) < NB /\ toS[p] = Chunk(First(p))
      /\ Proofs = 1 => toS[Len(toS)] = ReceiverSums(R.t, Seed)
    BY <1>6, Counts DEF Live, Stream
<1>9. P >= 1
  <2>1. ASSUME P = 0 PROVE FALSE
    <3>1. Len(toS) > 0
        BY <1>1, <1>8 DEF IsSeq
    <3>2. Proofs = 1
        BY <1>8, <2>1, <3>1
    <3>3. R.pc \in {"temp", "done"}
        BY <3>2 DEF Proofs
    <3>4. R.i = NB /\ Sent = NB
        BY <3>3, Counts DEF Live, ReceiverOk, Sent
    <3>5. Least(NB, G + 0 * CommStep) = G
        BY <1>6 DEF Least
    <3> QED
        BY <1>6, <1>8, <2>1, <3>4, <3>5
  <2> QED
      BY <2>1, <1>8
<1>10. Head(toS) = Chunk(G)
  <2>1. First(1) = G
      BY <1>6 DEF First
  <2>2. toS[1] = Chunk(G)
      BY <1>8, <1>9, <2>1
  <2> QED
      BY <2>2
<1>11. Chunk(G) = [x \in 1 .. step |-> [j \in Rows |-> URow(S.i + x - 1, j)]]
    BY <1>6, <1>7 DEF Chunk
<1> HIDE DEF step, G, P
<1>12. SenderOk'
  <2>1. IsSeq(S'.u) /\ Len(S'.u) = step
        /\ \A x \in 1 .. step : S'.u[x] = [j \in Rows |-> URow(S.i + x - 1, j)]
    <3> DEFINE f(x) == [j \in Rows |-> URow(S.i + x - 1, j)]
               M == {f(x) : x \in 1 .. step}
    <3>1. S'.u = [x \in 1 .. step |-> f(x)]
        BY <1>2, <1>10, <1>11
    <3> HIDE DEF f
    <3>2. S'.u \in Seq(M) /\ Len(S'.u) = step
        BY <3>1, <1>7
    <3>3. \A x \in 1 .. step : S'.u[x] = f(x)
        BY <3>1
    <3> QED
        BY <3>2, <3>3 DEF IsSeq, f
  <2>2. IsSeq(S'.log)
    <3>1. PICK M : S.log \in Seq(M)
        BY <1>1 DEF Live, SenderOk, IsSeq
    <3>2. S'.log \in Seq(M \cup {Head(toS)})
        BY <1>2, <3>1
    <3> QED
        BY <3>2 DEF IsSeq
  <2>3. S'.i + S'.have + S'.left = NB /\ S'.have \in Nat /\ S'.left \in Nat /\ S'.i \in Nat
      BY <1>2, <1>6, <1>7
  <2>4. S.pc # "start" /\ SenderOk
      BY <1>1 DEF Live
  <2> QED
      BY <1>1, <1>2, <1>4, <2>1, <2>2, <2>3, <2>4 DEF SenderOk, Advances, SameSet
<1>13. ReceiverOk'
    BY <1>1, <1>3, ReceiverFrame DEF Live
<1>14. Proofs' = Proofs /\ Sent' = Sent /\ RLog' = RLog
    BY <1>1, <1>2 DEF Proofs, Sent, RLog, SameSet
<1>15. Len(toS') = Len(toS) - 1 /\ IsSeq(toS') /\ \A p \in 1 .. (Len(toS) - 1) : toS'[p] = toS[p + 1]
    BY <1>1, <1>8 DEF IsSeq
<1>16. Parts' = P - 1 /\ Got' = G + step
  <2>1. Parts' = P - 1
      BY <1>8, <1>9, <1>14, <1>15 DEF Parts
  <2>2. Got' = NB' - S'.left
      BY <1>2 DEF Got
  <2> QED
      BY <2>1, <2>2, <1>2, <1>4, <1>6, <1>7 DEF G
<1>17. /\ \A p \in 1 .. (P - 1) : G + step + (p - 1) * CommStep = G + p * CommStep
       /\ Least(NB, G + step + (P - 1) * CommStep) = Least(NB, G + P * CommStep)
  <2>1. \A p \in 1 .. P : G + (p - 1) * CommStep < NB
      BY <1>6, <1>8 DEF First
  <2>2. Fit(CommStep, NB, G, P)
      BY <2>1 DEF Fit
  <2>3. Taken(CommStep, NB, G, P)
      BY <1>4, <1>6, <1>8, <1>9, <2>2, TakeChunk
  <2> QED
      BY <1>7, <2>3 DEF Taken
<1>18. Stream'
  <2>1. \A s : Chunk(s)' = Chunk(s)
      BY <1>4 DEF Chunk
  <2>2. Sent' = Least(NB', Got' + Parts' * CommStep)
      BY <1>4, <1>8, <1>14, <1>16, <1>17
  <2>3. ASSUME NEW p \in 1 .. (P - 1)
        PROVE  First(p)' = First(p + 1) /\ p + 1 \in 1 .. P
    <3>1. First(p)' = G + step + (p - 1) * CommStep
        BY <1>16 DEF First
    <3>2. First(p + 1) = G + ((p + 1) - 1) * CommStep /\ (p + 1) - 1 = p
        BY <1>6 DEF First
    <3> QED
        BY <3>1, <3>2, <1>8, <1>17
  <2>4. ASSUME NEW p \in 1 .. (P - 1)
        PROVE  First(p)' < NB' /\ toS'[p] = Chunk(First(p))'
    <3>1. First(p + 1) < NB /\ toS[p + 1] = Chunk(First(p + 1))
        BY <1>8, <2>3
    <3>2. toS'[p] = toS[p + 1]
        BY <1>8, <1>15
    <3>3. Chunk(First(p))' = Chunk(First(p)')
        BY <1>4 DEF Chunk
    <3> QED
        BY <1>4, <2>3, <3>1, <3>2, <3>3
  <2>5. Proofs' = 1 => toS'[Len(toS')] = ReceiverSums(R.t, Seed)'
    <3> SUFFICES ASSUME Proofs = 1 PROVE toS'[Len(toS')] = ReceiverSums(R.t, Seed)'
        BY <1>14
    <3>1. toS'[Len(toS')] = toS[Len(toS)]
        BY <1>8, <1>9, <1>15
    <3>2. Seed' = Seed /\ R' = R
        BY <1>1 DEF Seed
    <3>3. \A t, s : ReceiverSums(t, s)' = ReceiverSums(t, s)
        BY <1>1, SumsFrame
    <3>4. ReceiverSums(R.t, Seed)' = ReceiverSums(R.t, Seed)
        BY <3>2, <3>3
    <3> QED
        BY <1>8, <3>1, <3>4
  <2> QED
      BY <1>8, <1>9, <1>15, <1>16, <2>2, <2>4, <2>5 DEF Stream
<1>19. Logs'
  <2> SUFFICES ASSUME S.fs
               PROVE  /\ Len(RLog)' = Len(SLog)' + Parts'
                      /\ \A p \in 1 .. Len(SLog)' : RLog'[p] = SLog'[p]
                      /\ \A p \in 1 .. Parts' : RLog'[Len(SLog)' + p] = toS'[p]
      BY <1>2 DEF Logs, SameSet
  <2>1. /\ Len(RLog) = Len(SLog) + P
        /\ \A p \in 1 .. Len(SLog) : RLog[p] = SLog[p]
        /\ \A p \in 1 .. P : RLog[Len(SLog) + p] = toS[p]
      BY DEF Live, Logs, P
  <2>2. SLog = S.log /\ SLog' = Append(S.log, toS[1]) /\ IsSeq(S.log)
      BY <1>1, <1>2 DEF SLog, Live, SenderOk
  <2>3. /\ Len(SLog) \in Nat /\ Len(SLog)' = Len(SLog) + 1
        /\ \A p \in 1 .. Len(SLog) : SLog'[p] = SLog[p]
        /\ SLog'[Len(SLog) + 1] = toS[1]
      BY <2>2 DEF IsSeq
  <2>4. \A p \in 1 .. (P - 1) : toS'[p] = toS[p + 1] /\ p + 1 \in 1 .. P
                               /\ Len(SLog) + 1 + p = Len(SLog) + (p + 1)
      BY <1>8, <1>15, <2>3
  <2>5. \A p \in 1 .. (Len(SLog) + 1) : p \in 1 .. Len(SLog) \/ p = Len(SLog) + 1
      BY <2>3
  <2>6. RLog[Len(SLog) + 1] = toS[1]
      BY <1>8, <1>9, <2>1
  <2>7. \A p \in 1 .. Len(SLog)' : RLog'[p] = SLog'[p]
      BY <1>14, <2>1, <2>3, <2>5, <2>6
  <2>8. \A p \in 1 .. (P - 1) : RLog[Len(SLog) + 1 + p] = toS'[p]
      BY <2>1, <2>4
  <2>9. Len(RLog) = Len(SLog) + 1 + (P - 1)
      BY <1>8, <2>1, <2>3
  <2> QED
      BY <1>14, <1>16, <2>3, <2>7, <2>8, <2>9
<1>20. Back'
    BY <1>1, <1>2 DEF Live, Back, SameSet
<1>21. Checked' /\ Delivered'
    BY <1>1, <1>2, DeliveredFrame DEF Live, Checked
<1> QED
    BY <1>1, <1>2, <1>5, <1>12, <1>13, <1>18, <1>19, <1>20, <1>21 DEF Live

\* The messages written with block i are those whose quotient is i.
Written(m, n, i, it, k) ==
    /\ k \in it .. (it + Least(m, n - it) - 1) <=> k \div m = i
    /\ k \div m = i => k - it = k % m /\ i * m + (k - it) = k

LEMMA BlockRange ==
    ASSUME NEW m \in Nat \ {0}, NEW n \in Nat, NEW i \in Nat, NEW it, it = Least(i * m, n),
           NEW k \in 0 .. (n - 1)
    PROVE  Written(m, n, i, it, k)
<1> USE DEF Written
<1> DEFINE q == k \div m
           r == k % m
<1>1. k \in Nat /\ k < n
    OBVIOUS
<1>2. q \in Nat /\ r \in 0 .. (m - 1) /\ k = q * m + r
    BY <1>1, DivDef
<1> HIDE DEF q, r
<1>3. q * m \in Nat /\ i * m \in Nat
    BY <1>2, SMT
<1>4. q < i => q * m + m <= i * m
    BY <1>2, MulStep
<1>5. i < q => i * m + m <= q * m
    BY <1>2, MulStep
<1>6. CASE i * m < n
  <2>1. it = i * m
      BY <1>6 DEF Least
  <2>2. k \in it .. (it + Least(m, n - it) - 1) <=> k >= i * m /\ k < i * m + m
      BY <1>1, <1>3, <1>6, <2>1 DEF Least
  <2>3. k >= i * m /\ k < i * m + m <=> q = i
    <3>1. CASE q = i
        BY <3>1, <1>2, <1>3
    <3>2. CASE q < i
        BY <3>2, <1>2, <1>3, <1>4
    <3>3. CASE i < q
        BY <3>3, <1>2, <1>3, <1>5
    <3> QED
        BY <3>1, <3>2, <3>3, <1>2
  <2>4. q = i => k - it = r /\ i * m + (k - it) = k
      BY <1>2, <1>3, <2>1
  <2> QED
      BY <2>2, <2>3, <2>4 DEF q, r
<1>7. CASE ~ (i * m < n)
  <2>1. it = n
      BY <1>7 DEF Least
  <2>2. Least(m, n - it) = 0
      BY <2>1 DEF Least
  <2>3. k \notin it .. (it + Least(m, n - it) - 1)
      BY <1>1, <2>1, <2>2
  <2>4. q # i
      BY <1>1, <1>2, <1>3, <1>7
  <2> QED
      BY <2>3, <2>4 DEF q
<1> QED
    BY <1>6, <1>7

\* Where the sender writes: also without a hash, whose call has one block.
LEMMA WritesAt ==
    ASSUME OtExtAssumption, ConfOk, Live, S.pc = "block", S.have > 0
    PROVE  /\ S.it = Least(S.i * BlockSize, conf.n)
           /\ (IF Advances THEN Least(S.it + BlockSize, conf.n) ELSE S.it)
                = IF Advances THEN Least((S.i + 1) * BlockSize, conf.n) ELSE 0
<1>1. /\ BlockSize \in Nat \ {0} /\ conf.n \in Nat /\ S.i \in Nat /\ S.i + S.have + S.left = NB
      /\ S.have \in Nat /\ S.left \in Nat
    BY Counts
<1>2. S.it = IF Advances THEN Least(S.i * BlockSize, conf.n) ELSE 0
    BY DEF Live, SenderOk
<1>3. S.i * BlockSize \in Nat /\ (S.i + 1) * BlockSize = S.i * BlockSize + BlockSize
    BY <1>1, SMT
<1>4. CASE Advances
  <2>1. S.it = Least(S.i * BlockSize, conf.n)
      BY <1>2, <1>4
  <2>2. Least(S.it + BlockSize, conf.n) = Least((S.i + 1) * BlockSize, conf.n)
      BY <1>1, <1>3, <2>1 DEF Least
  <2> QED
      BY <1>4, <2>1, <2>2
<1>5. CASE ~ Advances
  <2>1. S.hash = "NoHash" /\ conf.n <= BlockSize /\ ~ S.mal
      BY <1>5 DEF Advances, Live, Alike, SenderOk, Refuses
  <2>2. NB <= 1
      BY <1>1, <2>1, BlocksOf, CeilOne DEF MainBlocks
  <2>3. S.i = 0
      BY <1>1, <2>2
  <2>4. Least(0 * BlockSize, conf.n) = 0
      BY <1>1 DEF Least
  <2> QED
      BY <1>2, <1>5, <2>3, <2>4
<1> QED
    BY <1>4, <1>5

LEMMA SenderBlockLive ==
    ASSUME OtExtAssumption, ConfOk, Live, SenderBlock
    PROVE  Live'
<1>1. /\ S.pc = "block" /\ S.have > 0 /\ DOMAIN S = Fields
      /\ conf' = conf /\ call' = call /\ R' = R /\ toS' = toS /\ toR' = toR /\ closed' = closed
      /\ ~ closed
    BY DEF SenderBlock, Live, Alike
<1>2. /\ DOMAIN S' = Fields /\ S'.pc = "block" /\ S'.idx = S.idx + 1 /\ S'.i = S.i + 1
      /\ S'.left = S.left /\ S'.have = S.have - 1 /\ S'.log = S.log /\ SameSet(S', S)
      /\ S'.u = (IF S.u = <<>> THEN <<>> ELSE Tail(S.u))
      /\ S'.it = (IF Advances THEN Least(S.it + BlockSize, conf.n) ELSE S.it)
      /\ S'.t = (IF S.mal THEN Append(S.t, QBlock) ELSE S.t)
      /\ S'.msgs = SenderMsgs(QBlock)
    BY <1>1 DEF SenderBlock, Fields, SameSet, NextIdx
<1>3. /\ S.i \in Nat /\ S.have \in Nat /\ S.left \in Nat /\ S.i + S.have + S.left = NB /\ NB \in Nat
      /\ S.idx \in Nat /\ S.idx = Base(S) + S.i /\ S.idx - S.i = Base(S)
      /\ BlockSize \in Nat \ {0} /\ conf.n \in Nat
    BY <1>1, Counts
<1>4. Steady
  <2>1. Base(S)' = Base(S)
    <3>1. Base(S)' = (S.idx + 1) - (S.i + 1)
        BY <1>2 DEF Base
    <3> QED
        BY <1>3, <3>1
  <2> QED
      BY <1>1, <1>2, <2>1 DEF Steady, SameSet
<1>5. /\ NB' = NB /\ (Refuses(S)' <=> Refuses(S)) /\ Delta' = Delta
      /\ \A b, j : URow(b, j)' = URow(b, j) /\ QRow(b, j)' = QRow(b, j)
    BY <1>4, RowsFrame
<1>6. Alike'
    BY <1>1, <1>2, <1>3, <1>4, AlikeFrame, Counts DEF Live, Alike
<1>7. /\ IsSeq(S.u) /\ Len(S.u) = S.have
      /\ \A x \in 1 .. S.have : S.u[x] = [j \in Rows |-> URow(S.i + x - 1, j)]
      /\ IsSeq(S.log) /\ IsSeq(S.t) /\ ~ Refuses(S)
      /\ S.mal => /\ Len(S.t) = S.i
                  /\ \A b \in 1 .. S.i : S.t[b] = [j \in Rows |-> QRow(b - 1, j)]
    BY <1>1 DEF Live, SenderOk
<1>8. QBlock = [j \in Rows |-> QRow(S.i, j)]
  <2>1. S.u # <<>> /\ Head(S.u) = [j \in Rows |-> URow(S.i, j)]
    <3>1. S.u # <<>> /\ Head(S.u) = S.u[1]
        BY <1>1, <1>7 DEF IsSeq
    <3>2. 1 \in 1 .. S.have /\ S.i + 1 - 1 = S.i
        BY <1>1, <1>3
    <3> QED
        BY <1>7, <3>1, <3>2
  <2>2. \A j \in Rows : Head(S.u)[j] = URow(S.i, j)
      BY <2>1
  <2>3. \A j : QRow(S.i, j) = Xor(Expand(S.keys, S.idx, j), Masked(URow(S.i, j)))
      BY <1>3 DEF QRow
  <2> QED
      BY <2>1, <2>2, <2>3 DEF QBlock
<1>9. ASSUME NEW k \in 0 .. (conf.n - 1), NEW b \in Bits, k \div BlockSize < S.i + 1
      PROVE  S'.msgs[k][b] = HashRow(S.hash, S.mal, k,
                               Xor(QRow(k \div BlockSize, k % BlockSize), If(b = 1, Delta)))
  <2> DEFINE range == S.it .. (S.it + Least(BlockSize, conf.n - S.it) - 1)
             row(e) == [c \in Bits |-> HashRow(S.hash, S.mal, S.i * BlockSize + (k - S.it),
                                         Xor(e[k - S.it], If(c = 1, Delta)))]
  <2>1. S.it = Least(S.i * BlockSize, conf.n)
      BY <1>1, WritesAt
  <2>2. /\ k \in range <=> k \div BlockSize = S.i
        /\ k \div BlockSize = S.i => k - S.it = k % BlockSize /\ S.i * BlockSize + (k - S.it) = k
    <3>1. Written(BlockSize, conf.n, S.i, S.it, k)
        BY <1>3, <2>1, BlockRange
    <3> QED
        BY <3>1 DEF Written
  <2>3. S'.msgs[k] = IF k \in range THEN row(QBlock) ELSE S.msgs[k]
      BY <1>2 DEF SenderMsgs
  <2>4. k % BlockSize \in Rows /\ k \div BlockSize \in Nat
      BY RowOf
  <2> HIDE DEF range
  <2>5. CASE k \div BlockSize = S.i
    <3>1. S'.msgs[k][b] = HashRow(S.hash, S.mal, S.i * BlockSize + (k - S.it),
                                  Xor(QBlock[k - S.it], If(b = 1, Delta)))
        BY <2>2, <2>3, <2>5
    <3>2. QBlock[k % BlockSize] = QRow(S.i, k % BlockSize)
        BY <1>8, <2>4
    <3> QED
        BY <2>2, <2>5, <3>1, <3>2
  <2>6. CASE k \div BlockSize # S.i
    <3>1. k \div BlockSize < S.i
        BY <1>3, <1>9, <2>4, <2>6
    <3>2. S'.msgs[k] = S.msgs[k]
        BY <2>2, <2>3, <2>6
    <3> QED
        BY <1>1, <3>1, <3>2 DEF Live, SenderOk
  <2> QED
      BY <2>5, <2>6
<1>10. IsSeq(S'.u) /\ Len(S'.u) = S'.have
       /\ \A x \in 1 .. S'.have : S'.u[x] = [j \in Rows |-> URow(S'.i + x - 1, j)]
  <2>1. S'.u = Tail(S.u)
      BY <1>1, <1>2, <1>7 DEF IsSeq
  <2>2. /\ IsSeq(S'.u) /\ Len(S'.u) = S.have - 1
        /\ \A x \in 1 .. (S.have - 1) : S'.u[x] = S.u[x + 1]
      BY <1>1, <1>7, <2>1 DEF IsSeq
  <2>3. \A x \in 1 .. (S.have - 1) : x + 1 \in 1 .. S.have /\ S.i + (x + 1) - 1 = (S.i + 1) + x - 1
      BY <1>3
  <2> QED
      BY <1>2, <1>7, <2>2, <2>3
<1>11. IsSeq(S'.t) /\ (S.mal => /\ Len(S'.t) = S.i + 1
                               /\ \A b \in 1 .. (S.i + 1) : S'.t[b] = [j \in Rows |-> QRow(b - 1, j)])
  <2>1. CASE ~ S.mal
      BY <1>2, <1>7, <2>1
  <2>2. CASE S.mal
    <3>1. S'.t = Append(S.t, QBlock)
        BY <1>2, <2>2
    <3>2. PICK M : S.t \in Seq(M)
        BY <1>7 DEF IsSeq
    <3>3. S'.t \in Seq(M \cup {QBlock})
        BY <3>1, <3>2
    <3>4. /\ Len(S'.t) = S.i + 1
          /\ \A b \in 1 .. S.i : S'.t[b] = S.t[b]
          /\ S'.t[S.i + 1] = QBlock
        BY <1>3, <1>7, <2>2, <3>1, <3>2
    <3>5. ASSUME NEW b \in 1 .. (S.i + 1) PROVE S'.t[b] = [j \in Rows |-> QRow(b - 1, j)]
      <4>1. CASE b = S.i + 1
        <5>1. b - 1 = S.i
            BY <1>3, <4>1
        <5> QED
            BY <1>8, <3>4, <4>1, <5>1
      <4>2. CASE b # S.i + 1
        <5>1. b \in 1 .. S.i
            BY <1>3, <4>2
        <5> QED
            BY <1>7, <2>2, <3>4, <5>1
      <4> QED
          BY <4>1, <4>2
    <3> QED
        BY <3>3, <3>4, <3>5 DEF IsSeq
  <2> QED
      BY <2>1, <2>2
<1>12. SenderOk'
  <2>1. S'.i \in Nat /\ S'.have \in Nat /\ S'.left \in Nat /\ S'.i + S'.have + S'.left = NB
    <3>1. S'.i = S.i + 1 /\ S'.have = S.have - 1 /\ S'.left = S.left /\ S.have > 0
        BY <1>1, <1>2
    <3> QED
        BY <1>3, <3>1
  <2>2. S'.it = IF Advances' THEN Least(S'.i * BlockSize, conf'.n) ELSE 0
    <3>1. (Advances' <=> Advances) /\ conf' = conf /\ S'.i = S.i + 1
        BY <1>1, <1>2 DEF Advances, SameSet
    <3> QED
        BY <1>1, <1>2, <3>1, WritesAt
  <2>3. \A k \in 0 .. (conf'.n - 1), b \in Bits : k \div BlockSize < S'.i =>
          S'.msgs[k][b] = HashRow(S'.hash, S'.mal, k,
                            Xor(QRow(k \div BlockSize, k % BlockSize)', If(b = 1, Delta')))
    <3>1. conf' = conf /\ S'.hash = S.hash /\ S'.mal = S.mal /\ S'.i = S.i + 1
        BY <1>1, <1>2 DEF SameSet
    <3> QED
        BY <1>5, <1>9, <3>1
  <2>4. /\ IsSeq(S'.u) /\ Len(S'.u) = S'.have
        /\ \A x \in 1 .. S'.have : S'.u[x] = [j \in Rows |-> URow(S.i + x - 1, j)']
      BY <1>5, <1>10
  <2>5. /\ IsSeq(S'.t)
        /\ S'.mal => /\ Len(S'.t) = S'.i
                     /\ \A b \in 1 .. S'.i : S'.t[b] = [j \in Rows |-> QRow(b - 1, j)']
    <3>1. S'.mal = S.mal /\ S'.i = S.i + 1
        BY <1>2 DEF SameSet
    <3> QED
        BY <1>5, <1>11, <3>1
  <2>6. ~ Refuses(S)' /\ IsSeq(S'.log) /\ S'.pc = "block" /\ NB' = NB
      BY <1>2, <1>5, <1>7
  <2> QED
      BY <2>1, <2>2, <2>3, <2>4, <2>5, <2>6 DEF SenderOk
<1>13. ReceiverOk'
    BY <1>1, <1>4, ReceiverFrame DEF Live
<1>14. Stream' /\ Logs'
  <2>1. Got' = Got /\ Sent' = Sent /\ RLog' = RLog /\ SLog' = SLog
      BY <1>1, <1>2, <1>5 DEF Got, Sent, RLog, SLog
  <2>2. Proofs' = Proofs
      BY <1>1, <1>2 DEF Proofs, SameSet
  <2> QED
      BY <1>1, <1>4, <2>1, <2>2, StreamFrame DEF Live
<1>15. Back'
    BY <1>1, <1>2 DEF Live, Back, SameSet
<1>16. Checked'
    BY <1>2 DEF Checked
<1>17. Delivered'
    BY <1>1, <1>2 DEF Live, Back, Delivered, Transferred, ConfOk
<1> QED
    BY <1>1, <1>2, <1>6, <1>12, <1>13, <1>14, <1>15, <1>16, <1>17 DEF Live

\* A sender that has written its blocks moves on.
LEMMA SenderMoves ==
    ASSUME OtExtAssumption, ConfOk, Live, S.pc # "start", S.have = 0, S.left = 0,
           conf' = conf, call' = call, R' = R,
           NEW x \in {"check", "temp", "done"}, S' = [S EXCEPT !.pc = x],
           x = "check" => S.mal, x = "temp" => conf.kind # "random"
    PROVE  /\ Steady /\ Alike' /\ SenderOk' /\ ReceiverOk'
           /\ S'.pc = x /\ SameSet(S', S) /\ S'.msgs = S.msgs
           /\ Got = NB /\ Got' = Got /\ Sent' = Sent /\ SLog' = SLog /\ RLog' = RLog
<1>1. DOMAIN S = Fields
    BY DEF Live, Alike
<1>2. /\ DOMAIN S' = Fields /\ S'.pc = x /\ S'.idx = S.idx /\ S'.i = S.i /\ S'.have = S.have
      /\ S'.left = S.left /\ S'.u = S.u /\ S'.log = S.log /\ S'.t = S.t /\ S'.it = S.it
      /\ S'.msgs = S.msgs /\ SameSet(S', S)
    BY <1>1 DEF Fields, SameSet
<1>3. Steady
  <2>1. Base(S)' = Base(S) /\ Base(R)' = Base(R)
      BY <1>2 DEF Base
  <2> QED
      BY <1>2, <2>1 DEF Steady, SameSet
<1>4. Alike'
    BY <1>1, <1>2, <1>3, AlikeFrame, Counts DEF Live, Alike
<1>5. SenderOk'
  <2>1. /\ NB' = NB /\ (Refuses(S)' <=> Refuses(S)) /\ Delta' = Delta
        /\ \A b, j : URow(b, j)' = URow(b, j) /\ QRow(b, j)' = QRow(b, j)
      BY <1>3, RowsFrame
  <2>2. SenderOk
      BY DEF Live
  <2> QED
      BY <1>2, <2>1, <2>2 DEF SenderOk, Advances, SameSet
<1>6. ReceiverOk'
    BY <1>3, ReceiverFrame DEF Live
<1>7. Got = NB /\ Got' = Got
  <2>1. NB' = NB /\ NB \in Nat
      BY <1>3, RowsFrame, Counts
  <2> QED
      BY <1>2, <2>1 DEF Got
<1>8. Sent' = Sent /\ SLog' = SLog /\ RLog' = RLog
    BY <1>2 DEF Sent, SLog, RLog
<1> QED
    BY <1>2, <1>3, <1>4, <1>5, <1>6, <1>7, <1>8

LEMMA SenderSeedLive ==
    ASSUME OtExtAssumption, ConfOk, Live, SenderSeed
    PROVE  Live'
<1>1. /\ S.pc = "block" /\ S.have = 0 /\ S.left = 0
      /\ conf' = conf /\ call' = call /\ R' = R /\ toS' = toS /\ closed' = closed /\ ~ closed
      /\ S.mal \in BOOLEAN /\ S.fs \in BOOLEAN
    BY DEF SenderSeed, Live, Alike
<1> DEFINE x == IF S.mal THEN "check" ELSE IF conf.kind = "random" THEN "done" ELSE "temp"
<1>2. S' = [S EXCEPT !.pc = x]
    BY <1>1 DEF SenderSeed, AfterSend
<1>3. /\ x \in {"check", "temp", "done"}
      /\ x = "check" <=> S.mal
      /\ x = "temp" => conf.kind # "random"
      /\ x = "done" => conf.kind = "random"
    OBVIOUS
<1>4. /\ Steady /\ Alike' /\ SenderOk' /\ ReceiverOk' /\ S'.pc = x /\ SameSet(S', S)
      /\ S'.msgs = S.msgs /\ Got' = Got /\ Sent' = Sent /\ SLog' = SLog /\ RLog' = RLog
  <2>1. x = "check" => S.mal
      BY <1>3
  <2>2. x = "temp" => conf.kind # "random"
      BY <1>3
  <2> HIDE DEF x
  <2> QED
      BY <1>1, <1>2, <1>3, <2>1, <2>2, SenderMoves
<1>5. Stream' /\ Logs'
  <2>1. Proofs' = Proofs
      BY <1>1, <1>4 DEF Proofs, SameSet
  <2> QED
      BY <1>1, <1>4, <2>1, StreamFrame DEF Live
<1>6. Back'
  <2>1. toR = <<>>
      BY <1>1 DEF Live, Back
  <2>2. toR' = IF S.mal /\ ~ S.fs THEN <<<<"seed", call>>>> ELSE <<>>
      BY <1>1, <2>1 DEF SenderSeed
  <2>3. S.mal /\ ~ S.fs => R.pc \in {"start", "block"}
      BY <1>1 DEF Live, Back
  <2>4. R.pc = "done" /\ conf.kind # "random" => FALSE
      BY <1>1 DEF Live, Back
  <2>5. IsSeq(toR')
    <3>1. <<<<"seed", call>>>> \in Seq({<<"seed", call>>}) /\ <<>> \in Seq({})
        OBVIOUS
    <3> QED
        BY <2>2, <3>1 DEF IsSeq
  <2>6. S.fs => S.mal
      BY DEF Live, Alike
  <2>7. S'.mal = S.mal /\ S'.fs = S.fs /\ S'.pc = x /\ R' = R /\ conf' = conf /\ call' = call
      BY <1>1, <1>4 DEF SameSet
  <2>8. CASE S.mal
    <3>1. x = "check"
        BY <2>8
    <3> QED
        BY <2>2, <2>3, <2>4, <2>5, <2>7, <2>8, <3>1 DEF Back
  <2>9. CASE ~ S.mal
    <3>1. (x = "done" /\ conf.kind = "random") \/ (x = "temp" /\ conf.kind # "random")
        BY <2>9
    <3> HIDE DEF x
    <3> QED
        BY <2>2, <2>4, <2>5, <2>6, <2>7, <2>9, <3>1 DEF Back
  <2> QED
      BY <2>8, <2>9
<1>7. Checked' /\ Delivered'
  <2>1. Checked'
      BY <1>3, <1>4 DEF Checked, SameSet
  <2>2. Delivered'
      BY <1>1, <1>4, DeliveredFrame DEF Live
  <2> QED
      BY <2>1, <2>2
<1> QED
    BY <1>1, <1>3, <1>4, <1>5, <1>6, <1>7 DEF Live

\* What the sender compares at its check: the proof of the receiver, with its seed.
LEMMA ProofArrives ==
    ASSUME OtExtAssumption, ConfOk, Live, S.pc = "check", toS # <<>>
    PROVE  /\ S.mal /\ Parts = 0 /\ Proofs = 1 /\ Len(toS) = 1 /\ R.pc \in {"temp", "done"}
           /\ Head(toS) = ReceiverSums(R.t, Seed)
           /\ Seed = IF S.fs THEN <<"fs", S.log>> ELSE <<"seed", call>>
           /\ SenderMatrix /\ ReceiverMatrix
<1>1. S.mal /\ S.have = 0 /\ S.left = 0 /\ SenderOk /\ ReceiverOk
    BY DEF Live, SenderOk
<1>2. /\ Len(toS) = Parts + Proofs /\ Parts \in Nat /\ Proofs \in 0 .. 1 /\ NB \in Nat
      /\ S.i \in Nat /\ S.i = NB /\ CommStep \in Nat
    BY <1>1, Counts
<1>3. Parts = 0
  <2>1. ASSUME Parts >= 1 PROVE FALSE
    <3>1. 1 \in 1 .. Parts
        BY <1>2, <2>1
    <3>2. First(1) < NB
        BY <3>1 DEF Live, Stream
    <3>3. First(1) = NB
        BY <1>1, <1>2 DEF First, Got
    <3> QED
        BY <1>2, <3>2, <3>3
  <2> QED
      BY <1>2, <2>1
<1>4. Len(toS) > 0
    BY DEF Live, Stream, IsSeq
<1>5. Proofs = 1 /\ Len(toS) = 1
    BY <1>2, <1>3, <1>4
<1>6. R.pc \in {"temp", "done"}
    BY <1>5 DEF Proofs
<1>7. Head(toS) = ReceiverSums(R.t, Seed)
    BY <1>5 DEF Live, Stream, IsSeq
<1>8. S.fs => R.log = S.log
  <2> SUFFICES ASSUME S.fs PROVE R.log = S.log
      OBVIOUS
  <2>1. RLog = R.log /\ SLog = S.log /\ IsSeq(R.log) /\ IsSeq(S.log)
      BY <1>1, <1>6 DEF RLog, SLog, SenderOk, ReceiverOk
  <2>2. Len(R.log) = Len(S.log) /\ \A p \in 1 .. Len(S.log) : R.log[p] = S.log[p]
      BY <1>3, <2>1 DEF Live, Logs, IsSeq
  <2> QED
      BY <2>1, <2>2 DEF IsSeq
<1>9. Seed = IF S.fs THEN <<"fs", S.log>> ELSE <<"seed", call>>
    BY <1>8 DEF Seed, Live, Alike
<1>10. SenderMatrix
    BY <1>1, <1>2 DEF SenderOk, SenderMatrix
<1>11. ReceiverMatrix
  <2>1. R.have = 0 /\ R.left = 0 /\ R.i \in Nat /\ R.i + R.have + R.left = NB
      BY <1>1, <1>6 DEF ReceiverOk
  <2>2. R.i = NB
      BY <2>1
  <2>3. R.mal
      BY <1>1 DEF Live, Alike
  <2> QED
      BY <1>1, <1>6, <2>2, <2>3 DEF ReceiverOk, ReceiverMatrix
<1> QED
    BY <1>1, <1>3, <1>5, <1>6, <1>7, <1>9, <1>10, <1>11

\* The proof is accepted exactly when the rows are correlated.
LEMMA AcceptsCorrelated ==
    ASSUME OtExtAssumption, ConfOk, Live, S.pc = "check", toS # <<>>
    PROVE  Verifies(Head(toS)) <=> AllCorrelated
<1> DEFINE seed == IF S.fs THEN <<"fs", S.log>> ELSE <<"seed", call>>
<1>1. S.mal /\ SenderMatrix /\ ReceiverMatrix /\ Head(toS) = ReceiverSums(R.t, seed)
    BY ProofArrives
<1>2. seed = IF S.fs THEN <<"fs", S.log>> ELSE <<"seed", call>>
    OBVIOUS
<1> HIDE DEF seed
<1>3. Verifies(ReceiverSums(R.t, seed)) <=> AllCorrelated
    BY <1>1, <1>2, CheckMeans
<1> QED
    BY <1>1, <1>3

LEMMA SenderCheckLive ==
    ASSUME OtExtAssumption, ConfOk, Live, SenderCheck, Verifies(Head(toS))
    PROVE  Live'
<1> DEFINE x == IF conf.kind = "random" THEN "done" ELSE "temp"
<1>1. /\ S.pc = "check" /\ S.have = 0 /\ S.left = 0 /\ toS # <<>>
      /\ conf' = conf /\ call' = call /\ R' = R /\ toS' = Tail(toS) /\ toR' = toR
      /\ closed' = closed /\ ~ closed /\ S' = [S EXCEPT !.pc = x]
    BY DEF SenderCheck, AfterSend, Live, SenderOk
<1>2. (x = "done" /\ conf.kind = "random") \/ (x = "temp" /\ conf.kind # "random")
    OBVIOUS
<1> HIDE DEF x
<1>3. /\ Steady /\ Alike' /\ SenderOk' /\ ReceiverOk' /\ S'.pc = x /\ SameSet(S', S)
      /\ S'.msgs = S.msgs /\ Got = NB /\ Got' = Got /\ Sent' = Sent /\ SLog' = SLog /\ RLog' = RLog
    BY <1>1, <1>2, SenderMoves
<1>4. /\ S.mal /\ Parts = 0 /\ Proofs = 1 /\ Len(toS) = 1 /\ R.pc \in {"temp", "done"}
    BY <1>1, ProofArrives
<1>5. toS' = <<>> /\ IsSeq(toS') /\ Len(toS') = 0
  <2>1. toS' = <<>> /\ <<>> \in Seq({})
      BY <1>1, <1>4 DEF Live, Stream, IsSeq
  <2> QED
      BY <2>1 DEF IsSeq
<1>6. Proofs' = 0 /\ Parts' = 0
  <2>1. Proofs' = 0
      BY <1>2, <1>3 DEF Proofs
  <2> QED
      BY <1>5, <2>1 DEF Parts
<1>7. Stream'
  <2>1. NB' = NB /\ CommStep \in Nat /\ NB \in Nat
      BY <1>3, RowsFrame, Counts
  <2>2. Sent = Least(NB, NB + 0 * CommStep)
      BY <1>3, <1>4 DEF Live, Stream
  <2>3. Sent' = Least(NB', Got' + Parts' * CommStep)
      BY <1>3, <1>6, <2>1, <2>2
  <2> QED
      BY <1>5, <1>6, <2>3 DEF Stream
<1>8. Logs'
  <2>1. S.fs => Len(RLog) = Len(SLog) + 0 /\ \A p \in 1 .. Len(SLog) : RLog[p] = SLog[p]
      BY <1>4 DEF Live, Logs
  <2> QED
      BY <1>3, <1>6, <2>1 DEF Logs, SameSet
<1>9. Back'
  <2>1. toR = <<>> /\ ~ (R.pc = "done" /\ conf.kind # "random")
      BY <1>1, <1>4 DEF Live, Back
  <2> QED
      BY <1>1, <1>2, <1>3, <1>4, <2>1 DEF Live, Back, SameSet
<1>10. Checked'
  <2>1. AllCorrelated
      BY <1>1, AcceptsCorrelated
  <2>2. AllCorrelated'
      BY <1>3, <2>1, RowsFrame
  <2> QED
      BY <2>2 DEF Checked
<1>11. Delivered'
    BY <1>1, <1>3, DeliveredFrame DEF Live
<1> QED
    BY <1>1, <1>2, <1>3, <1>7, <1>8, <1>9, <1>10, <1>11 DEF Live

LEMMA SenderTempLive ==
    ASSUME OtExtAssumption, ConfOk, Live, SenderTemp
    PROVE  Live'
<1>1. /\ S.pc = "temp" /\ S.have = 0 /\ S.left = 0 /\ conf.kind # "random"
      /\ conf' = conf /\ call' = call /\ R' = R /\ toS' = toS /\ toR' = Append(toR, Temp)
      /\ closed' = closed /\ ~ closed /\ S' = [S EXCEPT !.pc = "done"]
    BY DEF SenderTemp, Live, SenderOk
<1>2. /\ Steady /\ Alike' /\ SenderOk' /\ ReceiverOk' /\ S'.pc = "done" /\ SameSet(S', S)
      /\ S'.msgs = S.msgs /\ Got' = Got /\ Sent' = Sent /\ SLog' = SLog /\ RLog' = RLog
  <2>1. "done" \in {"check", "temp", "done"} /\ "done" # "check" /\ "done" # "temp"
      OBVIOUS
  <2> QED
      BY <1>1, <2>1, SenderMoves
<1>3. Stream' /\ Logs'
  <2>1. Proofs' = Proofs
      BY <1>1, <1>2 DEF Proofs, SameSet
  <2> QED
      BY <1>1, <1>2, <2>1, StreamFrame DEF Live
<1>4. Back'
  <2>1. toR = <<>> /\ R.pc # "done"
      BY <1>1 DEF Live, Back
  <2>2. toR' = <<Temp>> /\ Temp' = Temp
      BY <1>1, <1>2, <2>1 DEF Temp
  <2>3. IsSeq(toR')
    <3>1. <<Temp>> \in Seq({Temp})
        OBVIOUS
    <3> QED
        BY <2>2, <3>1 DEF IsSeq
  <2>4. S.mal => R.pc \in {"temp", "done"}
      BY <1>1 DEF Live, Back
  <2> QED
      BY <1>1, <1>2, <2>1, <2>2, <2>3, <2>4 DEF Back, SameSet
<1>5. Checked'
  <2>1. AllCorrelated' <=> AllCorrelated
      BY <1>2, RowsFrame
  <2> QED
      BY <1>1, <1>2, <2>1 DEF Live, Checked, SameSet
<1>6. Delivered'
    BY <1>1, <1>2, DeliveredFrame DEF Live
<1> QED
    BY <1>1, <1>2, <1>3, <1>4, <1>5, <1>6 DEF Live

-----------------------------------------------------------------------------
(* The steps of the receiver.                                              *)

LEMMA ReceiverStartLive ==
    ASSUME OtExtAssumption, ConfOk, Live, ReceiverStart, ~ Refuses(R)
    PROVE  Live'
<1>1. /\ R.pc = "start" /\ DOMAIN R = Fields /\ R.mal = S.mal /\ S.mal \in BOOLEAN
      /\ conf' = conf /\ call' = call /\ S' = S /\ toS' = toS /\ toR' = toR
      /\ ~ closed /\ ~ closed'
    BY DEF ReceiverStart, Live, Alike
<1>2. /\ DOMAIN R' = Fields /\ R'.pc = "block" /\ R'.idx = R.idx /\ R'.i = 0 /\ R'.have = 0
      /\ R'.left = MainBlocks + (IF R.mal THEN 1 ELSE 0)
      /\ R'.u = <<>> /\ R'.log = <<>> /\ R'.t = <<>> /\ SameSet(R', R)
    BY <1>1 DEF ReceiverStart, Fresh, Fields, SameSet
<1>3. R'.left = NB /\ NB \in Nat /\ conf.n \in Nat /\ BlockSize \in Nat \ {0}
    BY <1>1, <1>2, BlocksOf
<1>4. Steady
  <2>1. Base(R)' = Base(R)
      BY <1>1, <1>2, Counts DEF Base
  <2>2. Base(S)' = Base(S)
      BY <1>1 DEF Base
  <2> QED
      BY <1>1, <1>2, <2>1, <2>2 DEF Steady, SameSet
<1>5. NB' = NB
    BY <1>4, RowsFrame
<1>6. Alike'
    BY <1>1, <1>2, <1>4, AlikeFrame, Counts DEF Live, Alike
<1>7. ReceiverOk'
  <2>1. IsSeq(<<>>) /\ Len(<<>>) = 0
    <3>1. <<>> \in Seq({})
        OBVIOUS
    <3> QED
        BY <3>1 DEF IsSeq
  <2>2. ASSUME NEW k \in 0 .. (conf.n - 1) PROVE ~ (k \div BlockSize < 0)
    <3>1. k \in Nat
        BY <1>3
    <3>2. k \div BlockSize \in Nat
        BY <1>3, <3>1, DivDef
    <3> QED
        BY <3>2
  <2>3. (/\ R.i \in Nat /\ R.have \in Nat /\ R.left \in Nat /\ R.i + R.have + R.left = NB
         /\ R.pc = "block" /\ Len(R.u) = 0 /\ R.have = 0 /\ R.u = <<>>
         /\ IsSeq(R.log) /\ IsSeq(R.u) /\ IsSeq(R.t) /\ Len(R.t) = R.i /\ R.i = 0)'
      BY <1>2, <1>3, <1>5, <2>1
  <2>4. \A x : x \notin 1 .. 0
      OBVIOUS
  <2>5. (\A k \in 0 .. (conf.n - 1) : ~ (k \div BlockSize < R.i))'
      BY <1>1, <1>2, <2>2
  <2>6. (/\ \A x \in 1 .. Len(R.u) : FALSE
         /\ \A b \in 1 .. R.i : FALSE)'
      BY <2>3, <2>4
  <2> QED
      BY <2>3, <2>5, <2>6 DEF ReceiverOk
<1>8. SenderOk'
    BY <1>1, <1>4, SenderFrame DEF Live
<1>9. Stream' /\ Logs'
  <2>1. Got' = Got /\ SLog' = SLog
      BY <1>1, <1>5 DEF Got, SLog
  <2>2. Sent' = Sent /\ RLog' = RLog
    <3>1. R'.i - Len(R'.u) = 0
      <4>1. Len(<<>>) = 0
          OBVIOUS
      <4>2. R'.i = 0 /\ R'.u = <<>>
          BY <1>2
      <4>3. Len(R'.u) = 0
          BY <4>1, <4>2, Zenon
      <4>4. R'.i = 0
          BY <4>2
      <4> QED
          BY <4>3, <4>4
    <3> QED
        BY <1>1, <1>2, <3>1 DEF Sent, RLog
  <2>3. Proofs' = Proofs /\ Proofs = 0
      BY <1>1, <1>2 DEF Proofs
  <2> QED
      BY <1>1, <1>4, <2>1, <2>2, <2>3, StreamFrame DEF Live
<1>10. Back'
  <2>1. Temp' = Temp
      BY <1>1 DEF Temp
  <2> QED
      BY <1>1, <1>2, <2>1 DEF Live, Back
<1>11. Checked'
  <2>1. AllCorrelated' <=> AllCorrelated
      BY <1>4, RowsFrame
  <2> QED
      BY <1>1, <1>2, <2>1 DEF Live, Checked
<1>12. Delivered'
    BY <1>2 DEF Delivered
<1> QED
    BY <1>1, <1>2, <1>6, <1>7, <1>8, <1>9, <1>10, <1>11, <1>12 DEF Live

LEMMA ReceiverBlockLive ==
    ASSUME OtExtAssumption, ConfOk, Live, ReceiverBlock
    PROVE  Live'
<1> DEFINE step == IF R.have = 0 THEN Least(R.left, CommStep) ELSE R.have
           left == IF R.have = 0 THEN R.left - step ELSE R.left
           buf == Append(R.u, UBlock)
           full == step = 1
           L == Len(R.u)
<1>1. /\ R.pc = "block" /\ R.left + R.have > 0 /\ DOMAIN R = Fields
      /\ conf' = conf /\ call' = call /\ S' = S /\ toR' = toR /\ closed' = closed /\ ~ closed
    BY DEF ReceiverBlock, Live, Alike
<1>2. /\ R' = [R EXCEPT !.have = step - 1, !.left = left,
                 !.u = IF full THEN <<>> ELSE buf,
                 !.log = IF full /\ R.fs THEN Append(R.log, buf) ELSE R.log,
                 !.idx = NextIdx(R.idx), !.i = R.i + 1,
                 !.t = IF R.mal THEN Append(R.t, T0Block) ELSE R.t,
                 !.msgs = ReceiverMsgs(R.i, T0Block)]
      /\ toS' = IF full THEN Append(toS, buf) ELSE toS
    BY <1>1, Zenon DEF ReceiverBlock
<1> HIDE DEF step, left, buf, full
<1>3. /\ DOMAIN R' = Fields /\ R'.pc = "block" /\ R'.idx = R.idx + 1 /\ R'.i = R.i + 1
      /\ R'.have = step - 1 /\ R'.left = left /\ SameSet(R', R)
      /\ R'.u = (IF full THEN <<>> ELSE buf)
      /\ R'.log = (IF full /\ R.fs THEN Append(R.log, buf) ELSE R.log)
      /\ R'.t = (IF R.mal THEN Append(R.t, T0Block) ELSE R.t)
      /\ R'.msgs = ReceiverMsgs(R.i, T0Block)
    BY <1>1, <1>2 DEF Fields, SameSet, NextIdx
<1>4. /\ R.i \in Nat /\ R.have \in Nat /\ R.left \in Nat /\ R.i + R.have + R.left = NB /\ NB \in Nat
      /\ R.idx \in Nat /\ R.idx = Base(R) + R.i /\ R.idx - R.i = Base(R)
      /\ BlockSize \in Nat \ {0} /\ conf.n \in Nat /\ CommStep \in Nat \ {0}
    BY <1>1, Counts
<1>5. /\ IsSeq(R.u) /\ L \in Nat /\ L <= R.i /\ IsSeq(R.log) /\ IsSeq(R.t)
      /\ R.have = 0 => R.u = <<>> /\ L = 0
      /\ R.have > 0 => L + R.have = Least(CommStep, NB - (R.i - L))
      /\ \A x \in 1 .. L : R.u[x] = [j \in Rows |-> URow(R.i - L + x - 1, j)]
      /\ R.mal => /\ Len(R.t) = R.i
                  /\ \A b \in 1 .. R.i : R.t[b] = [j \in Rows |-> T0Row(b - 1, j)]
    BY <1>1 DEF Live, ReceiverOk, IsSeq
<1>6. /\ step \in Nat /\ step >= 1 /\ left \in Nat /\ R.i + step + left = NB
      /\ L + step = Least(CommStep, NB - (R.i - L))
  <2>1. CASE R.have = 0
    <3>1. step = Least(R.left, CommStep) /\ left = R.left - step /\ L = 0
        BY <1>5, <2>1 DEF step, left
    <3>2. NB - (R.i - 0) = R.left /\ R.left > 0
        BY <1>1, <1>4, <2>1
    <3> HIDE DEF L
    <3>3. /\ R.i \in Nat /\ R.left \in Nat /\ CommStep \in Nat \ {0} /\ NB \in Nat
          /\ R.i + R.left = NB
        BY <1>4, <2>1
    <3>4. step \in Nat /\ step >= 1 /\ step <= R.left /\ step = Least(CommStep, R.left)
        BY <3>1, <3>2, <3>3 DEF Least
    <3>5. left \in Nat /\ R.i + step + left = NB
        BY <3>1, <3>3, <3>4
    <3> QED
        BY <3>1, <3>2, <3>4, <3>5
  <2>2. CASE R.have # 0
    <3>1. step = R.have /\ left = R.left
        BY <2>2 DEF step, left
    <3> QED
        BY <1>4, <1>5, <2>2, <3>1
  <2> QED
      BY <2>1, <2>2
<1>7. Steady
  <2>1. Base(R)' = Base(R)
    <3>1. Base(R)' = (R.idx + 1) - (R.i + 1)
        BY <1>3 DEF Base
    <3> QED
        BY <1>4, <3>1
  <2>2. Base(S)' = Base(S)
      BY <1>1 DEF Base
  <2> QED
      BY <1>1, <1>3, <2>1, <2>2 DEF Steady, SameSet
<1>8. /\ NB' = NB
      /\ \A b, j : URow(b, j)' = URow(b, j) /\ T0Row(b, j)' = T0Row(b, j)
    BY <1>7, RowsFrame
<1>9. Alike'
    BY <1>1, <1>3, <1>4, <1>7, AlikeFrame, Counts DEF Live, Alike
<1>10. UBlock = [j \in Rows |-> URow(R.i, j)] /\ T0Block = [j \in Rows |-> T0Row(R.i, j)]
    BY <1>4 DEF UBlock, URow, T0Block, T0Row, Ones
<1>11. /\ IsSeq(buf) /\ Len(buf) = L + 1
       /\ \A x \in 1 .. (L + 1) : buf[x] = [j \in Rows |-> URow((R.i - L) + x - 1, j)]
  <2>1. PICK M : R.u \in Seq(M)
      BY <1>5 DEF IsSeq
  <2>2. buf \in Seq(M \cup {UBlock})
      BY <2>1 DEF buf
  <2>3. Len(buf) = L + 1 /\ (\A x \in 1 .. L : buf[x] = R.u[x]) /\ buf[L + 1] = UBlock
      BY <2>1 DEF buf
  <2>4. (R.i - L) + (L + 1) - 1 = R.i
      BY <1>4, <1>5
  <2>5. ASSUME NEW x \in 1 .. (L + 1) PROVE buf[x] = [j \in Rows |-> URow((R.i - L) + x - 1, j)]
    <3>1. CASE x = L + 1
        BY <1>10, <2>3, <2>4, <3>1
    <3>2. CASE x # L + 1
      <4>1. x \in 1 .. L
          BY <1>5, <3>2
      <4> QED
          BY <1>5, <2>3, <4>1
    <3> QED
        BY <3>1, <3>2
  <2> QED
      BY <2>2, <2>3, <2>5 DEF IsSeq
<1> HIDE DEF L
<1>12. /\ IsSeq(R'.u) /\ Len(R'.u) <= R'.i
       /\ R'.have = 0 => R'.u = <<>>
       /\ R'.have > 0 => Len(R'.u) + R'.have = Least(CommStep, NB - (R'.i - Len(R'.u)))
       /\ \A x \in 1 .. Len(R'.u) :
            R'.u[x] = [j \in Rows |-> URow(R.i - Len(R.u) + x - 1, j)']
  <2>1. CASE full
    <3>1. R'.u = <<>> /\ R'.have = 0 /\ R'.i \in Nat
        BY <1>3, <1>4, <2>1 DEF full
    <3>2. IsSeq(<<>>) /\ Len(<<>>) = 0
      <4>1. <<>> \in Seq({})
          OBVIOUS
      <4> QED
          BY <4>1 DEF IsSeq
    <3> QED
        BY <3>1, <3>2
  <2>2. CASE ~ full
    <3>1. R'.u = buf /\ R'.have = step - 1 /\ R'.i = R.i + 1 /\ step # 1
        BY <1>3, <2>2 DEF full
    <3>2. Len(R'.u) = L + 1 /\ R'.i - Len(R'.u) = R.i - L
        BY <1>4, <1>5, <1>11, <3>1
    <3>3. Len(R'.u) + R'.have = Least(CommStep, NB - (R'.i - Len(R'.u)))
        BY <1>5, <1>6, <3>1, <3>2
    <3>4. ASSUME NEW x \in 1 .. Len(R'.u)
          PROVE  R'.u[x] = [j \in Rows |-> URow(R.i - Len(R.u) + x - 1, j)']
      <4>1. x \in 1 .. (L + 1) /\ R'.u[x] = buf[x]
          BY <3>1, <3>2
      <4> QED
          BY <1>8, <1>11, <3>2, <4>1
    <3>5. R'.have # 0 /\ IsSeq(R'.u) /\ Len(R'.u) <= R'.i
        BY <1>4, <1>5, <1>6, <1>11, <3>1, <3>2
    <3> QED
        BY <3>3, <3>4, <3>5
  <2> QED
      BY <2>1, <2>2
<1>13. IsSeq(R'.t) /\ (R.mal => /\ Len(R'.t) = R.i + 1
                               /\ \A b \in 1 .. (R.i + 1) : R'.t[b] = [j \in Rows |-> T0Row(b - 1, j)])
  <2>1. CASE ~ R.mal
      BY <1>3, <1>5, <2>1
  <2>2. CASE R.mal
    <3>1. R'.t = Append(R.t, T0Block)
        BY <1>3, <2>2
    <3>2. PICK M : R.t \in Seq(M)
        BY <1>5 DEF IsSeq
    <3>3. R'.t \in Seq(M \cup {T0Block})
        BY <3>1, <3>2
    <3>4. /\ Len(R'.t) = R.i + 1
          /\ \A b \in 1 .. R.i : R'.t[b] = R.t[b]
          /\ R'.t[R.i + 1] = T0Block
        BY <1>4, <1>5, <2>2, <3>1, <3>2
    <3>5. ASSUME NEW b \in 1 .. (R.i + 1) PROVE R'.t[b] = [j \in Rows |-> T0Row(b - 1, j)]
      <4>1. CASE b = R.i + 1
        <5>1. b - 1 = R.i
            BY <1>4, <4>1
        <5> QED
            BY <1>10, <3>4, <4>1, <5>1
      <4>2. CASE b # R.i + 1
        <5>1. b \in 1 .. R.i
            BY <1>4, <4>2
        <5> QED
            BY <1>5, <2>2, <3>4, <5>1
      <4> QED
          BY <4>1, <4>2
    <3> QED
        BY <3>3, <3>4, <3>5 DEF IsSeq
  <2> QED
      BY <2>1, <2>2
<1>14. ASSUME NEW k \in 0 .. (conf.n - 1), k \div BlockSize < R.i + 1
       PROVE  R'.msgs[k] = HashRow(R.hash, R.mal, k, T0Row(k \div BlockSize, k % BlockSize))
  <2>1. R'.msgs[k] = IF k \div BlockSize = R.i THEN HashRow(R.hash, R.mal, k, T0Block[k % BlockSize])
                     ELSE R.msgs[k]
      BY <1>3 DEF ReceiverMsgs
  <2>2. k % BlockSize \in Rows /\ k \div BlockSize \in Nat
      BY RowOf
  <2>3. CASE k \div BlockSize = R.i
      BY <1>10, <2>1, <2>2, <2>3
  <2>4. CASE k \div BlockSize # R.i
    <3>1. k \div BlockSize < R.i
        BY <1>4, <1>14, <2>2, <2>4
    <3> QED
        BY <1>1, <2>1, <2>4, <3>1 DEF Live, ReceiverOk
  <2> QED
      BY <2>3, <2>4
<1>15. ReceiverOk'
  <2>1. R'.i \in Nat /\ R'.have \in Nat /\ R'.left \in Nat /\ R'.i + R'.have + R'.left = NB
    <3>1. R'.i = R.i + 1 /\ R'.have = step - 1 /\ R'.left = left
        BY <1>3
    <3> QED
        BY <1>4, <1>6, <3>1
  <2>2. IsSeq(R'.log)
    <3>1. PICK M : R.log \in Seq(M)
        BY <1>5 DEF IsSeq
    <3>2. R'.log \in Seq(M \cup {buf})
        BY <1>3, <3>1
    <3> QED
        BY <3>2 DEF IsSeq
  <2>3. R'.mal => /\ Len(R'.t) = R'.i
                  /\ \A b \in 1 .. R'.i : R'.t[b] = [j \in Rows |-> T0Row(b - 1, j)']
    <3>1. R'.mal = R.mal /\ R'.i = R.i + 1
        BY <1>3 DEF SameSet
    <3> QED
        BY <1>8, <1>13, <3>1
  <2>4. \A k \in 0 .. (conf'.n - 1) : k \div BlockSize < R'.i =>
          R'.msgs[k] = HashRow(R'.hash, R'.mal, k, T0Row(k \div BlockSize, k % BlockSize)')
    <3>1. R'.mal = R.mal /\ R'.hash = R.hash /\ R'.i = R.i + 1 /\ conf' = conf
        BY <1>1, <1>3 DEF SameSet
    <3> QED
        BY <1>8, <1>14, <3>1
  <2>5. IsSeq(R'.t) /\ R'.pc = "block" /\ NB' = NB
      BY <1>3, <1>8, <1>13
  <2> QED
      BY <1>12, <2>1, <2>2, <2>3, <2>4, <2>5 DEF ReceiverOk
<1>16. SenderOk'
    BY <1>1, <1>7, SenderFrame DEF Live
<1>17. Got' = Got /\ SLog' = SLog /\ Proofs = 0 /\ Proofs' = 0
    BY <1>1, <1>3, <1>8 DEF Got, SLog, Proofs
<1>18. Sent = R.i - L /\ RLog = R.log /\ RLog' = R'.log
    BY <1>1, <1>3 DEF Sent, RLog, L
<1>19. Sent' = (IF full THEN R.i + 1 ELSE Sent)
  <2>1. Sent' = R'.i - Len(R'.u)
      BY <1>3 DEF Sent
  <2>2. CASE full
      BY <1>3, <1>4, <2>1, <2>2
  <2>3. CASE ~ full
    <3>1. R'.i = R.i + 1 /\ Len(R'.u) = L + 1
        BY <1>3, <1>11, <2>3
    <3> QED
        BY <1>4, <1>5, <1>18, <2>1, <2>3, <3>1
  <2> QED
      BY <2>2, <2>3
<1>20. Stream' /\ Logs'
  <2>1. CASE ~ full
    <3>1. toS' = toS /\ Sent' = Sent /\ RLog' = RLog
        BY <1>2, <1>3, <1>18, <1>19, <2>1
    <3> QED
        BY <1>7, <1>17, <3>1, StreamFrame DEF Live
  <2>2. CASE full
    <3> DEFINE P == Parts
               s == R.i - L
    <3>1. /\ P \in Nat /\ Len(toS) = P /\ IsSeq(toS) /\ Got \in Nat
          /\ s = Least(NB, Got + P * CommStep)
          /\ \A p \in 1 .. P : First(p) < NB /\ toS[p] = Chunk(First(p))
      <4>1. Got \in Nat
        <5>1. S.pc # "start" => S.left \in Nat /\ S.i \in Nat /\ S.have \in Nat /\ S.i + S.have + S.left = NB
            BY Counts
        <5> QED
            BY <1>4, <5>1 DEF Got
      <4>2. P \in Nat /\ Len(toS) = P
          BY <1>17, Counts
      <4> QED
          BY <1>18, <4>1, <4>2 DEF Live, Stream
    <3>2. s \in Nat /\ s < NB /\ step = 1 /\ L + 1 = Least(CommStep, NB - s) /\ R.i + 1 = s + (L + 1)
      <4>1. /\ step = 1 /\ L \in Nat /\ R.i \in Nat /\ L <= R.i /\ left \in Nat /\ NB \in Nat
            /\ R.i + step + left = NB /\ L + step = Least(CommStep, NB - (R.i - L))
          BY <1>4, <1>5, <1>6, <2>2 DEF full
      <4> HIDE DEF P
      <4> QED
          BY <4>1
    <3>3. toS' = Append(toS, buf)
        BY <1>2, <2>2
    <3> HIDE DEF P, s
    <3>4. Got + P * CommStep = s /\ Least(NB, Got + (P + 1) * CommStep) = s + Least(CommStep, NB - s)
      <4>1. Room(CommStep, NB, Got, P, s)
          BY <3>1, <3>2 DEF Room
      <4>2. Put(CommStep, NB, Got, P, s)
          BY <1>4, <3>1, <3>2, <4>1, PutChunk
      <4> QED
          BY <4>2 DEF Put
    <3>5. /\ IsSeq(toS') /\ Len(toS') = P + 1
          /\ \A p \in 1 .. P : toS'[p] = toS[p]
          /\ toS'[P + 1] = buf
      <4>1. PICK M : toS \in Seq(M)
          BY <3>1 DEF IsSeq
      <4>2. toS' \in Seq(M \cup {buf})
          BY <3>3, <4>1
      <4> QED
          BY <3>1, <3>3, <4>1, <4>2 DEF IsSeq
    <3>6. Parts' = P + 1
        BY <1>17, <3>1, <3>5 DEF Parts
    <3>7. Sent' = Least(NB, Got + (P + 1) * CommStep)
        BY <1>19, <2>2, <3>2, <3>4
    <3>8. buf = Chunk(s)
      <4>1. /\ Len(buf) = L + 1
            /\ \A x \in 1 .. (L + 1) : buf[x] = [j \in Rows |-> URow(s + x - 1, j)]
          BY <1>11 DEF s
      <4>2. Chunk(s) = [x \in 1 .. (L + 1) |-> [j \in Rows |-> URow(s + x - 1, j)]]
          BY <3>2 DEF Chunk
      <4>3. DOMAIN buf = 1 .. (L + 1) /\ buf = [x \in 1 .. (L + 1) |-> buf[x]]
          BY <1>11 DEF IsSeq
      <4> QED
          BY <4>1, <4>2, <4>3
    <3>9. \A p : First(p)' = First(p) /\ Chunk(p)' = Chunk(p)
        BY <1>8, <1>17 DEF First, Chunk
    <3>10. First(P + 1) = s
      <4>1. First(P + 1) = Got + ((P + 1) - 1) * CommStep /\ (P + 1) - 1 = P
          BY <3>1 DEF First
      <4> QED
          BY <3>4, <4>1
    <3>11. ASSUME NEW p \in 1 .. (P + 1)
           PROVE  First(p) < NB /\ toS'[p] = Chunk(First(p))
      <4>1. CASE p = P + 1
          BY <3>2, <3>5, <3>8, <3>10, <4>1
      <4>2. CASE p # P + 1
        <5>1. p \in 1 .. P
            BY <3>1, <4>2
        <5> QED
            BY <3>1, <3>5, <5>1
      <4> QED
          BY <4>1, <4>2
    <3>12. \A p \in 1 .. (P + 1) : First(p)' < NB' /\ toS'[p] = Chunk(First(p))'
      <4> TAKE p \in 1 .. (P + 1)
      <4>1. Chunk(First(p))' = Chunk(First(p))
          BY <1>8, <3>9 DEF Chunk
      <4> QED
          BY <1>8, <3>9, <3>11, <4>1
    <3>13. Stream'
        BY <1>8, <1>17, <3>1, <3>5, <3>6, <3>7, <3>12 DEF Stream
    <3>14. Logs'
      <4> SUFFICES ASSUME S.fs
                   PROVE  /\ Len(RLog)' = Len(SLog)' + Parts'
                          /\ \A p \in 1 .. Len(SLog)' : RLog'[p] = SLog'[p]
                          /\ \A p \in 1 .. Parts' : RLog'[Len(SLog)' + p] = toS'[p]
          BY <1>1 DEF Logs
      <4>1. /\ Len(RLog) = Len(SLog) + P
            /\ \A p \in 1 .. Len(SLog) : RLog[p] = SLog[p]
            /\ \A p \in 1 .. P : RLog[Len(SLog) + p] = toS[p]
          BY DEF Live, Logs, P
      <4>2. R.fs
          BY DEF Live, Alike
      <4>3. RLog' = Append(RLog, buf) /\ IsSeq(RLog)
          BY <1>3, <1>5, <1>18, <2>2, <4>2
      <4>4. Len(SLog) \in Nat
        <5>1. IsSeq(SLog)
          <6>1. <<>> \in Seq({})
              OBVIOUS
          <6> QED
              BY <6>1 DEF Live, SenderOk, SLog, IsSeq
        <5> QED
            BY <5>1 DEF IsSeq
      <4>5. /\ Len(RLog') = Len(RLog) + 1
            /\ \A p \in 1 .. Len(RLog) : RLog'[p] = RLog[p]
            /\ RLog'[Len(RLog) + 1] = buf
          BY <4>3 DEF IsSeq
      <4>6. \A p \in 1 .. Len(SLog) : p \in 1 .. Len(RLog)
          BY <3>1, <4>1, <4>4
      <4>7. ASSUME NEW p \in 1 .. (P + 1) PROVE RLog'[Len(SLog) + p] = toS'[p]
        <5>1. CASE p = P + 1
          <6>1. Len(SLog) + p = Len(RLog) + 1
              BY <3>1, <4>1, <4>4, <5>1
          <6> QED
              BY <3>5, <4>5, <5>1, <6>1
        <5>2. CASE p # P + 1
          <6>1. p \in 1 .. P /\ Len(SLog) + p \in 1 .. Len(RLog)
              BY <3>1, <4>1, <4>4, <5>2
          <6> QED
              BY <3>5, <4>1, <4>5, <6>1
        <5> QED
            BY <5>1, <5>2
      <4>8. Len(RLog)' = Len(SLog)' + Parts'
          BY <1>17, <3>1, <3>6, <4>1, <4>4, <4>5
      <4> QED
          BY <1>17, <3>6, <4>1, <4>5, <4>6, <4>7, <4>8
    <3> QED
        BY <3>13, <3>14
  <2> QED
      BY <2>1, <2>2
<1>21. Back'
  <2>1. Temp' = Temp
      BY <1>1 DEF Temp
  <2> QED
      BY <1>1, <1>3, <2>1 DEF Live, Back
<1>22. Checked'
  <2>1. AllCorrelated' <=> AllCorrelated
      BY <1>7, RowsFrame
  <2> QED
      BY <1>1, <2>1 DEF Live, Checked
<1>23. Delivered'
    BY <1>3 DEF Delivered
<1> QED
    BY <1>1, <1>3, <1>9, <1>15, <1>16, <1>20, <1>21, <1>22, <1>23 DEF Live

\* A receiver that has sent its blocks moves on.
LEMMA ReceiverMoves ==
    ASSUME OtExtAssumption, ConfOk, Live, R.pc = "block", R.have = 0, R.left = 0,
           conf' = conf, call' = call, S' = S,
           R' = [R EXCEPT !.pc = AfterReceive]
    PROVE  /\ Steady /\ Alike' /\ SenderOk' /\ ReceiverOk'
           /\ R'.pc = AfterReceive /\ R'.pc \in {"temp", "done"} /\ SameSet(R', R)
           /\ R'.t = R.t /\ R'.log = R.log
           /\ R'.pc = "temp" => conf.kind # "random"
           /\ R'.pc = "done" => conf.kind = "random"
           /\ Got' = Got /\ Sent' = Sent /\ SLog' = SLog /\ RLog' = RLog /\ Temp' = Temp
<1>1. DOMAIN R = Fields
    BY DEF Live, Alike
<1>2. /\ DOMAIN R' = Fields /\ R'.pc = AfterReceive /\ R'.idx = R.idx /\ R'.i = R.i
      /\ R'.have = R.have /\ R'.left = R.left /\ R'.u = R.u /\ R'.log = R.log /\ R'.t = R.t
      /\ R'.msgs = R.msgs /\ SameSet(R', R)
    BY <1>1 DEF Fields, SameSet
<1>3. /\ AfterReceive \in {"temp", "done"}
      /\ AfterReceive = "temp" => conf.kind # "random"
      /\ AfterReceive = "done" => conf.kind = "random"
    BY DEF AfterReceive
<1>4. Steady
  <2>1. Base(S)' = Base(S) /\ Base(R)' = Base(R)
      BY <1>2, <1>3 DEF Base
  <2> QED
      BY <1>2, <2>1 DEF Steady, SameSet
<1>5. Alike'
    BY <1>1, <1>2, <1>4, AlikeFrame, Counts DEF Live, Alike
<1>6. ReceiverOk'
  <2>1. /\ NB' = NB
        /\ \A b, j : URow(b, j)' = URow(b, j) /\ T0Row(b, j)' = T0Row(b, j)
      BY <1>4, RowsFrame
  <2>2. ReceiverOk
      BY DEF Live
  <2> QED
      BY <1>2, <1>3, <2>1, <2>2 DEF ReceiverOk, SameSet
<1>7. SenderOk'
    BY <1>4, SenderFrame DEF Live
<1>8. Got' = Got
  <2>1. NB' = NB
      BY <1>4, RowsFrame
  <2> QED
      BY <2>1 DEF Got
<1>9. Sent' = Sent /\ SLog' = SLog /\ RLog' = RLog
    BY <1>2, <1>3 DEF Sent, SLog, RLog
<1>10. Temp' = Temp
    BY DEF Temp
<1> QED
    BY <1>2, <1>3, <1>4, <1>5, <1>6, <1>7, <1>8, <1>9, <1>10

LEMMA ReceiverCheckLive ==
    ASSUME OtExtAssumption, ConfOk, Live, ReceiverCheck
    PROVE  Live'
<1>1. /\ R.pc = "block" /\ R.left + R.have = 0 /\ R.mal = S.mal /\ R.fs = S.fs
      /\ conf' = conf /\ call' = call /\ S' = S /\ closed' = closed /\ ~ closed
      /\ R' = [R EXCEPT !.pc = AfterReceive] /\ S.fs \in BOOLEAN /\ S.mal \in BOOLEAN
      /\ S.fs => S.mal
    BY DEF ReceiverCheck, Live, Alike
<1>2. R.have = 0 /\ R.left = 0
  <2>1. R.have \in Nat /\ R.left \in Nat
      BY <1>1 DEF Live, ReceiverOk
  <2> QED
      BY <1>1, <2>1
<1>3. /\ Steady /\ Alike' /\ SenderOk' /\ ReceiverOk'
      /\ R'.pc = AfterReceive /\ R'.pc \in {"temp", "done"} /\ SameSet(R', R)
      /\ R'.t = R.t /\ R'.log = R.log
      /\ R'.pc = "temp" => conf.kind # "random"
      /\ R'.pc = "done" => conf.kind = "random"
      /\ Got' = Got /\ Sent' = Sent /\ SLog' = SLog /\ RLog' = RLog /\ Temp' = Temp
    BY <1>1, <1>2, ReceiverMoves
<1>4. Checked'
  <2>1. AllCorrelated' <=> AllCorrelated
      BY <1>3, RowsFrame
  <2> QED
      BY <1>1, <2>1 DEF Live, Checked
<1>5. Delivered'
  <2>1. R'.pc = "done" => conf'.kind = "random"
      BY <1>1, <1>3
  <2> QED
      BY <2>1 DEF Delivered, Transferred
<1>6. CASE ~ S.mal
  <2>1. toS' = toS /\ toR' = toR
      BY <1>1, <1>6 DEF ReceiverCheck
  <2>2. Stream' /\ Logs'
    <3>1. Proofs' = Proofs /\ Proofs = 0
        BY <1>1, <1>6 DEF Proofs
    <3> QED
        BY <1>3, <2>1, <3>1, StreamFrame DEF Live
  <2>3. Back'
    <3>1. S.pc # "check"
        BY <1>6 DEF Live, SenderOk
    <3> QED
        BY <1>1, <1>3, <1>6, <2>1, <3>1 DEF Live, Back
  <2> QED
      BY <1>1, <1>3, <1>4, <1>5, <2>2, <2>3 DEF Live
<1>7. CASE S.mal
  <2> DEFINE seed == IF R.fs THEN <<"fs", R.log>> ELSE Head(toR)
  <2>1. /\ R.fs \/ toR # <<>>
        /\ toS' = Append(toS, ReceiverSums(R.t, seed))
        /\ toR' = IF R.fs THEN toR ELSE Tail(toR)
      BY <1>1, <1>7 DEF ReceiverCheck
  <2>2. S.pc \in {"start", "block", "check"}
      BY <1>1, <1>7 DEF Live, Back
  <2>3. S.fs => toR = <<>>
      BY <1>1, <2>2 DEF Live, Back
  <2>4. ~ S.fs => S.pc = "check" /\ toR = <<<<"seed", call>>>>
      BY <1>1, <2>1, <2>2 DEF Live, Back
  <2>5. seed = Seed /\ toR' = <<>>
    <3>1. CASE S.fs
        BY <1>1, <2>1, <2>3, <3>1 DEF Seed
    <3>2. CASE ~ S.fs
      <4>1. Head(toR) = <<"seed", call>> /\ Tail(toR) = <<>>
        <5> DEFINE v == <<"seed", call>>
        <5>1. toR = <<v>>
            BY <2>4, <3>2
        <5> HIDE DEF v
        <5>2. Head(<<v>>) = v /\ Tail(<<v>>) = <<>>
            OBVIOUS
        <5> QED
            BY <5>1, <5>2 DEF v
      <4>2. seed = Head(toR) /\ Seed = <<"seed", call>> /\ toR' = Tail(toR)
          BY <1>1, <2>1, <3>2 DEF Seed
      <4> QED
          BY <4>1, <4>2
    <3> QED
        BY <3>1, <3>2
  <2> HIDE DEF seed
  <2>6. Proofs = 0 /\ Proofs' = 1
      BY <1>1, <1>3, <1>7, <2>2 DEF Proofs
  <2>7. /\ IsSeq(toS') /\ Len(toS) = Parts /\ Parts \in Nat /\ Len(toS') = Parts + 1
        /\ \A p \in 1 .. Parts : toS'[p] = toS[p]
        /\ toS'[Parts + 1] = ReceiverSums(R.t, Seed)
    <3>1. Len(toS) = Parts /\ Parts \in Nat /\ IsSeq(toS)
        BY <2>6, Counts DEF Live, Stream
    <3> DEFINE P == Parts
               proof == ReceiverSums(R.t, Seed)
    <3>2. toS' = Append(toS, proof)
        BY <2>1, <2>5
    <3> HIDE DEF P, proof
    <3>3. PICK M : toS \in Seq(M)
        BY <3>1 DEF IsSeq
    <3>4. toS' \in Seq(M \cup {proof})
        BY <3>2, <3>3
    <3>5. /\ IsSeq(toS') /\ Len(toS) = P /\ P \in Nat /\ Len(toS') = P + 1
          /\ \A p \in 1 .. P : toS'[p] = toS[p]
          /\ toS'[P + 1] = proof
        BY <3>1, <3>2, <3>3, <3>4 DEF IsSeq, P
    <3> QED
        BY <3>5 DEF P, proof
  <2>8. Parts' = Parts
      BY <2>6, <2>7 DEF Parts
  <2>9. /\ NB' = NB
        /\ \A b, j : URow(b, j)' = URow(b, j)
      BY <1>3, RowsFrame
  <2>10. \A p : First(p)' = First(p) /\ Chunk(p)' = Chunk(p)
      BY <1>3, <2>9 DEF First, Chunk
  <2>11. Stream'
    <3>1. ReceiverSums(R.t, Seed)' = ReceiverSums(R.t, Seed)
      <4>1. Seed' = Seed /\ R'.t = R.t
          BY <1>1, <1>3 DEF Seed, SameSet
      <4>2. \A t, s : ReceiverSums(t, s)' = ReceiverSums(t, s)
          BY <1>1, SumsFrame
      <4> QED
          BY <4>1, <4>2
    <3>2. \A p \in 1 .. Parts : First(p)' < NB' /\ toS'[p] = Chunk(First(p))'
      <4> TAKE p \in 1 .. Parts
      <4>1. Chunk(First(p))' = Chunk(First(p))
          BY <2>9, <2>10 DEF Chunk
      <4>2. First(p) < NB /\ toS[p] = Chunk(First(p))
          BY DEF Live, Stream
      <4>3. toS'[p] = toS[p]
          BY <2>7
      <4> QED
          BY <2>9, <2>10, <4>1, <4>2, <4>3
    <3>3. Sent' = Least(NB', Got' + Parts' * CommStep)
      <4>1. Sent = Least(NB, Got + Parts * CommStep)
          BY DEF Live, Stream
      <4> QED
          BY <1>3, <2>8, <2>9, <4>1
    <3>4. toS'[Len(toS')] = ReceiverSums(R.t, Seed)
        BY <2>7
    <3> QED
        BY <2>7, <2>8, <3>1, <3>2, <3>3, <3>4 DEF Stream
  <2>12. Logs'
    <3>1. Logs
        BY DEF Live
    <3> QED
        BY <1>1, <1>3, <2>7, <2>8, <3>1 DEF Logs
  <2>13. Back'
    <3>1. IsSeq(toR')
      <4>1. <<>> \in Seq({})
          OBVIOUS
      <4> QED
          BY <2>5, <4>1 DEF IsSeq
    <3> QED
        BY <1>1, <1>3, <1>7, <2>2, <2>3, <2>4, <2>5, <3>1 DEF Back
  <2> QED
      BY <1>1, <1>3, <1>4, <1>5, <2>11, <2>12, <2>13 DEF Live
<1> QED
    BY <1>6, <1>7

LEMMA ReceiverTempLive ==
    ASSUME OtExtAssumption, ConfOk, Live, ReceiverTemp
    PROVE  Live'
<1>1. /\ R.pc = "temp" /\ toR # <<>> /\ DOMAIN R = Fields
      /\ conf' = conf /\ call' = call /\ S' = S /\ toS' = toS /\ closed' = closed /\ ~ closed
      /\ toR' = Tail(toR)
      /\ R' = [R EXCEPT !.pc = "done",
                 !.msgs = [k \in 0 .. (conf.n - 1) |-> Unmask(k, Head(toR))]]
    BY DEF ReceiverTemp, Live, Alike
<1>2. /\ DOMAIN R' = Fields /\ R'.pc = "done" /\ R'.idx = R.idx /\ R'.i = R.i
      /\ R'.have = R.have /\ R'.left = R.left /\ R'.u = R.u /\ R'.log = R.log /\ R'.t = R.t
      /\ SameSet(R', R)
      /\ R'.msgs = [k \in 0 .. (conf.n - 1) |-> Unmask(k, Head(toR))]
    BY <1>1 DEF Fields, SameSet
<1>3. /\ ReceiverOk /\ SenderOk /\ conf.kind # "random" /\ R.have = 0 /\ R.left = 0
    BY <1>1 DEF Live, ReceiverOk
<1>4. S.pc = "done" /\ toR = <<Temp>>
    BY <1>1 DEF Live, Back
<1>5. Steady
  <2>1. Base(S)' = Base(S) /\ Base(R)' = Base(R)
      BY <1>1, <1>2 DEF Base
  <2> QED
      BY <1>1, <1>2, <2>1 DEF Steady, SameSet
<1>6. /\ NB' = NB
      /\ \A b, j : URow(b, j)' = URow(b, j) /\ T0Row(b, j)' = T0Row(b, j)
      /\ AllCorrelated' <=> AllCorrelated
    BY <1>5, RowsFrame
<1>7. Alike'
    BY <1>1, <1>2, <1>5, AlikeFrame, Counts DEF Live, Alike
<1>8. SenderOk'
    BY <1>1, <1>5, SenderFrame DEF Live
<1>9. ReceiverOk'
    BY <1>1, <1>2, <1>3, <1>6 DEF ReceiverOk, SameSet
<1>10. Stream' /\ Logs'
  <2>1. Got' = Got /\ Sent' = Sent /\ SLog' = SLog /\ RLog' = RLog
      BY <1>1, <1>2, <1>6 DEF Got, Sent, SLog, RLog
  <2>2. Proofs' = Proofs /\ Proofs = 0
      BY <1>1, <1>2, <1>4 DEF Proofs
  <2> QED
      BY <1>1, <1>5, <2>1, <2>2, StreamFrame DEF Live
<1>11. Back'
  <2>1. toR' = <<>> /\ Temp' = Temp /\ IsSeq(<<>>)
    <3>1. <<>> \in Seq({})
        OBVIOUS
    <3> QED
        BY <1>1, <1>4, <3>1 DEF Temp, IsSeq
  <2> QED
      BY <1>1, <1>2, <1>4, <2>1 DEF Back
<1>12. Checked'
    BY <1>1, <1>2, <1>6 DEF Live, Checked
<1>13. Delivered'
  <2>1. AllCorrelated
      BY <1>4, RowsRight DEF Live
  <2>2. ASSUME NEW k \in 0 .. (conf.n - 1)
        PROVE  Transferred(k)'
    <3>1. R.msgs[k] = S.msgs[k][Choice(k)]
        BY <1>1, <1>3, <1>4, <2>1, MessagesTransfer DEF Live
    <3>2. R'.msgs[k] = Unmask(k, Temp)
        BY <1>2, <1>4
    <3>3. R'.msgs[k] = IF conf.kind = "chosen" THEN Term("m", k, Choice(k))
                       ELSE IF Choice(k) = 1 THEN Correlate(k, S.msgs[k][0])
                            ELSE S.msgs[k][0]
        BY <1>3, <3>1, <3>2, UnmaskRight
    <3>4. Choice(k)' = Choice(k)
        BY <1>1 DEF Choice
    <3>5. CASE conf.kind = "chosen"
        BY <1>1, <3>3, <3>4, <3>5 DEF Transferred
    <3>6. CASE conf.kind = "correlated"
        BY <1>1, <3>3, <3>4, <3>6 DEF Transferred
    <3> QED
        BY <1>3, <3>5, <3>6 DEF ConfOk
  <2> QED
      BY <1>1, <2>2 DEF Delivered
<1> QED
    BY <1>1, <1>2, <1>4, <1>7, <1>8, <1>9, <1>10, <1>11, <1>12, <1>13 DEF Live

-----------------------------------------------------------------------------
(* The invariant.                                                          *)

\* A call that begins, the first or the second.
LEMMA CallBegins ==
    ASSUME OtExtAssumption, ConfOk, S.pc = "start", R.pc = "start", ~ closed,
           Alike, toS = <<>>, toR = <<>>
    PROVE  Live
<1>1. NB \in Nat /\ CommStep \in Nat \ {0}
    BY BlocksOf
<1>2. IsSeq(<<>>) /\ Len(<<>>) = 0
  <2>1. <<>> \in Seq({})
      OBVIOUS
  <2> QED
      BY <2>1 DEF IsSeq
<1>3. SenderOk /\ ReceiverOk
    BY DEF SenderOk, ReceiverOk
<1>4. Got = 0 /\ Sent = 0 /\ SLog = <<>> /\ RLog = <<>> /\ Proofs = 0
    BY DEF Got, Sent, SLog, RLog, Proofs
<1>5. Parts = 0
    BY <1>2, <1>4 DEF Parts
<1>6. Stream
  <2>1. Least(NB, 0 + 0 * CommStep) = 0
      BY <1>1 DEF Least
  <2>2. Sent = Least(NB, Got + Parts * CommStep)
      BY <1>4, <1>5, <2>1
  <2>3. \A p \in 1 .. Parts : FALSE
      BY <1>5
  <2> QED
      BY <1>2, <1>4, <1>5, <2>2, <2>3 DEF Stream
<1>7. Logs
  <2>1. Len(RLog) = Len(SLog) + Parts
      BY <1>2, <1>4, <1>5
  <2>2. (\A p \in 1 .. Parts : FALSE) /\ (\A p \in 1 .. Len(SLog) : FALSE)
      BY <1>2, <1>4, <1>5
  <2> QED
      BY <2>1, <2>2 DEF Logs
<1>8. Back
    BY <1>2 DEF Back
<1>9. Checked /\ Delivered
    BY DEF Checked, Delivered
<1> QED
    BY <1>3, <1>6, <1>7, <1>8, <1>9 DEF Live

\* The same of the next state.
CallStarts ==
    /\ ConfOk /\ S.pc = "start" /\ R.pc = "start" /\ ~ closed
    /\ Alike /\ toS = <<>> /\ toR = <<>>

LEMMA CallBeginsNext ==
    ASSUME OtExtAssumption
    PROVE  (CallStarts => Live)'
<1>1. CallStarts => Live
    BY CallBegins DEF CallStarts
<1> QED
    BY <1>1, PTL

LEMMA InitInv ==
    ASSUME Given, Init
    PROVE  IInv
<1> USE DEF Bits
<1>1. PICK n \in Sizes, kind \in Kinds, next \in Nexts, bad \in Faults,
           set \in [mal : Mals, fs : FiatShamirs, hash : Hashes] :
        \E choices \in [0 .. (n - 1) -> Bits], delta \in [Cols -> Bits] :
          /\ \E c \in Cols : delta[c] = 1
          /\ set.fs \/ bad # 0 => set.mal
          /\ conf = [n |-> n, kind |-> kind, next |-> next, bad |-> bad,
                     choices |-> choices, delta |-> delta,
                     extra |-> [j \in Rows |-> (j + 1) % 2]]
          /\ S = Party([c \in Cols |-> BaseKey(c, delta[c])], set)
          /\ R = Party([b \in Bits |-> [c \in Cols |-> BaseKey(c, b)]], set)
    BY DEF Init
<1>2. PICK choices \in [0 .. (n - 1) -> Bits], delta \in [Cols -> Bits] :
          /\ \E c \in Cols : delta[c] = 1
          /\ set.fs \/ bad # 0 => set.mal
          /\ conf = [n |-> n, kind |-> kind, next |-> next, bad |-> bad,
                     choices |-> choices, delta |-> delta,
                     extra |-> [j \in Rows |-> (j + 1) % 2]]
          /\ S = Party([c \in Cols |-> BaseKey(c, delta[c])], set)
          /\ R = Party([b \in Bits |-> [c \in Cols |-> BaseKey(c, b)]], set)
    BY <1>1
<1>3. call = 1 /\ toS = <<>> /\ toR = <<>> /\ ~ closed /\ OtExtAssumption
    BY DEF Init, Given
<1>4. /\ conf.n = n /\ conf.kind = kind /\ conf.next = next /\ conf.bad = bad
      /\ conf.choices = choices /\ conf.delta = delta
      /\ conf.extra = [j \in Rows |-> (j + 1) % 2]
    BY <1>2
<1>5. ConfOk
  <2>1. [j \in Rows |-> (j + 1) % 2] \in [Rows -> Bits]
      BY DEF Rows, Given, OtExtAssumption
  <2>2. n \in Nat /\ kind \in {"random", "chosen", "correlated"} /\ bad \in 0 .. Columns
        /\ Nexts \subseteq {"stop", "again", "split"}
      BY DEF Given
  <2> QED
      BY <1>2, <1>3, <1>4, <2>1, <2>2 DEF ConfOk
<1>6. /\ set.mal \in BOOLEAN /\ set.fs \in BOOLEAN
      /\ set.hash \in {"NoHash", "RandomOracle", "AesHash"} /\ set.hash \in Hashes
    BY DEF Given
<1>7. /\ DOMAIN S = Fields /\ S.pc = "start" /\ S.mal = set.mal /\ S.fs = set.fs
      /\ S.hash = set.hash /\ S.idx = 0 /\ S.keys = [c \in Cols |-> BaseKey(c, delta[c])]
  <2> DEFINE keys == [c \in Cols |-> BaseKey(c, delta[c])]
  <2>1. S = Party(keys, set)
      BY <1>2
  <2> HIDE DEF keys
  <2>2. /\ DOMAIN S = Fields /\ S.pc = "start" /\ S.mal = set.mal /\ S.fs = set.fs
        /\ S.hash = set.hash /\ S.idx = 0 /\ S.keys = keys
      BY <2>1 DEF Party, Fields
  <2> QED
      BY <2>2 DEF keys
<1>8. /\ DOMAIN R = Fields /\ R.pc = "start" /\ R.mal = set.mal /\ R.fs = set.fs
      /\ R.hash = set.hash /\ R.idx = 0
      /\ R.keys = [b \in Bits |-> [c \in Cols |-> BaseKey(c, b)]]
  <2> DEFINE keys == [b \in Bits |-> [c \in Cols |-> BaseKey(c, b)]]
  <2>1. R = Party(keys, set)
      BY <1>2
  <2> HIDE DEF keys
  <2>2. /\ DOMAIN R = Fields /\ R.pc = "start" /\ R.mal = set.mal /\ R.fs = set.fs
        /\ R.hash = set.hash /\ R.idx = 0 /\ R.keys = keys
      BY <2>1 DEF Party, Fields
  <2> QED
      BY <2>2 DEF keys
<1>9. KeysAlike
  <2> SUFFICES ASSUME NEW c \in Cols PROVE S.keys[c] = R.keys[conf.delta[c]][c]
      BY DEF KeysAlike
  <2>1. delta[c] \in Bits /\ conf.delta[c] = delta[c]
      BY <1>2, <1>4
  <2>2. R.keys[delta[c]] = [e \in Cols |-> BaseKey(e, delta[c])]
      BY <1>8, <2>1
  <2> QED
      BY <1>7, <2>1, <2>2
<1>10. Alike
  <2>1. set.hash = "NoHash" => n <= BlockSize
      BY <1>6 DEF Given
  <2>2. Base(S) = 0 /\ Base(R) = 0
      BY <1>7, <1>8 DEF Base
  <2>3. bad # 0 => set.mal
      BY <1>2
  <2>4. set.fs => set.mal
      BY <1>2
  <2> QED
      BY <1>4, <1>6, <1>7, <1>8, <1>9, <2>1, <2>2, <2>3, <2>4 DEF Alike
<1>11. Live
    BY <1>3, <1>5, <1>7, <1>8, <1>10, CallBegins
<1> QED
    BY <1>5, <1>11 DEF IInv

LEMMA NextCallLive ==
    ASSUME OtExtAssumption, ConfOk, Live, NextCall
    PROVE  ConfOk' /\ Live'
<1>1. /\ S.pc = "done" /\ R.pc = "done" /\ conf.next # "stop" /\ ~ closed
      /\ conf' = conf /\ call' = 2 /\ toS' = toS /\ toR' = toR /\ closed' = closed
      /\ DOMAIN S = Fields /\ DOMAIN R = Fields
    BY DEF NextCall, Ended, Live, Alike
<1>2. ConfOk'
    BY <1>1, ConfFrame
<1>3. toS = <<>> /\ toR = <<>>
  <2>1. Proofs = 0 /\ IsSeq(toS) /\ Parts \in Nat /\ Len(toS) = Parts /\ NB \in Nat
        /\ CommStep \in Nat
      BY <1>1, Counts DEF Proofs, Live, Stream
  <2>2. Got = NB
    <3>1. S.left = 0
        BY <1>1 DEF Live, SenderOk
    <3> QED
        BY <1>1, <2>1, <3>1 DEF Got
  <2>3. Parts = 0
    <3>1. ASSUME Parts >= 1 PROVE FALSE
      <4>1. 1 \in 1 .. Parts
          BY <2>1, <3>1
      <4>2. First(1) < NB
          BY <4>1 DEF Live, Stream
      <4>3. First(1) = NB
          BY <2>1, <2>2 DEF First
      <4> QED
          BY <2>1, <4>2, <4>3
    <3> QED
        BY <2>1, <3>1
  <2>4. toS = <<>>
      BY <2>1, <2>3 DEF IsSeq
  <2>5. toR = <<>>
      BY <1>1 DEF Live, Back
  <2> QED
      BY <2>4, <2>5
<1>4. /\ S.idx \in Nat /\ R.idx = S.idx
  <2>1. /\ S.i \in Nat /\ S.i = NB /\ R.i \in Nat /\ R.i = NB
    <3>1. S.have = 0 /\ S.left = 0 /\ S.i \in Nat /\ S.i + S.have + S.left = NB
        BY <1>1 DEF Live, SenderOk
    <3>2. R.have = 0 /\ R.left = 0 /\ R.i \in Nat /\ R.i + R.have + R.left = NB
        BY <1>1 DEF Live, ReceiverOk
    <3>3. S.i = NB
        BY <3>1
    <3>4. R.i = NB
        BY <3>2
    <3> QED
        BY <3>1, <3>2, <3>3, <3>4
  <2>2. /\ S.idx \in Nat /\ R.idx \in Nat /\ Base(S) \in Nat /\ Base(R) = Base(S)
        /\ S.idx = Base(S) + S.i /\ R.idx = Base(R) + R.i
      BY <1>1, Counts
  <2> QED
      BY <2>1, <2>2
<1>5. CASE conf.next = "again"
  <2>1. S' = [S EXCEPT !.pc = "start"] /\ R' = [R EXCEPT !.pc = "start"]
      BY <1>5 DEF NextCall
  <2>2. /\ DOMAIN S' = Fields /\ S'.pc = "start" /\ S'.idx = S.idx /\ SameSet(S', S)
        /\ DOMAIN R' = Fields /\ R'.pc = "start" /\ R'.idx = R.idx /\ SameSet(R', R)
      BY <1>1, <2>1 DEF Fields, SameSet
  <2>3. Base(S)' = S.idx /\ Base(R)' = R.idx
      BY <2>2 DEF Base
  <2>4. KeysAlike' <=> KeysAlike
      BY <1>1, <2>2 DEF KeysAlike, SameSet
  <2>5. Alike
      BY DEF Live
  <2>6. Alike'
      BY <1>1, <1>4, <2>2, <2>3, <2>4, <2>5 DEF Alike, SameSet
  <2>7. S'.pc = "start" /\ R'.pc = "start" /\ ~ closed' /\ toS' = <<>> /\ toR' = <<>>
      BY <1>1, <1>3, <2>2
  <2>8. CallStarts'
      BY <1>2, <2>6, <2>7 DEF CallStarts
  <2> QED
      BY <1>2, <2>8, CallBeginsNext
<1>6. CASE conf.next # "again"
  <2>1. S' = SenderSplit(S) /\ R' = ReceiverSplit(R)
      BY <1>6 DEF NextCall
  <2>2. conf.next = "split"
      BY <1>1, <1>6 DEF ConfOk
  <2>3. /\ DOMAIN S' = Fields /\ S'.pc = "start" /\ S'.idx = 0 /\ S'.mal = TRUE /\ S'.fs = FALSE
        /\ S'.hash = "AesHash"
      BY <1>1, <2>1 DEF SenderSplit, Fields
  <2>4. /\ DOMAIN R' = Fields /\ R'.pc = "start" /\ R'.idx = 0 /\ R'.mal = (conf.next # "iknp")
        /\ R'.fs = FALSE /\ R'.hash = "AesHash"
      BY <1>1, <2>1 DEF ReceiverSplit, Fields
  <2>5. R'.mal = TRUE
      BY <2>2, <2>4
  <2>6. Base(S)' = 0 /\ Base(R)' = 0
      BY <2>3, <2>4 DEF Base
  <2>7. Alike'
    <3>1. (conf.bad # 0 => S.mal)' /\ (S.fs => S.mal)'
        BY <2>3
    <3>2. (S.hash = "NoHash" => conf.n <= BlockSize)'
        BY <2>3
    <3>3. ~ (~ S.mal \/ conf.next # "split")'
        BY <1>1, <2>2, <2>3
    <3>4. (S.idx \in Nat /\ R.idx \in Nat /\ Base(S) \in Nat /\ Base(R) = Base(S))'
        BY <2>3, <2>4, <2>6
    <3>5. (/\ DOMAIN S = Fields /\ DOMAIN R = Fields
           /\ S.mal \in BOOLEAN /\ R.mal = S.mal /\ S.fs \in BOOLEAN /\ R.fs = S.fs
           /\ S.hash \in {"NoHash", "RandomOracle", "AesHash"} /\ R.hash = S.hash)'
        BY <2>3, <2>4, <2>5
    <3> QED
        BY <3>1, <3>2, <3>3, <3>4, <3>5 DEF Alike
  <2>8. S'.pc = "start" /\ R'.pc = "start" /\ ~ closed' /\ toS' = <<>> /\ toR' = <<>>
      BY <1>1, <1>3, <2>3, <2>4
  <2>9. CallStarts'
      BY <1>2, <2>7, <2>8 DEF CallStarts
  <2> QED
      BY <1>2, <2>9, CallBeginsNext
<1> QED
    BY <1>5, <1>6

\* Who throws: a refused setting, or a check whose rows are wrong.
LEMMA Throws ==
    ASSUME OtExtAssumption, ConfOk, Live,
           \/ SenderStart /\ Refuses(S)
           \/ ReceiverStart /\ Refuses(R)
           \/ SenderCheck /\ ~ Verifies(Head(toS))
    PROVE  Dead'
<1>1. DOMAIN S = Fields /\ Alike /\ SenderOk
    BY DEF Live, Alike
<1>2. CASE SenderStart /\ Refuses(S)
  <2>1. DOMAIN S' = Fields /\ S'.pc = "throw" /\ S'.mal = S.mal /\ S'.hash = S.hash
      BY <1>1, <1>2 DEF SenderStart, Fresh, Fields
  <2> QED
      BY <1>2, <2>1 DEF Dead, Refuses
<1>3. CASE ReceiverStart /\ Refuses(R)
  <2>1. S' = S /\ R.pc = "start"
      BY <1>3 DEF ReceiverStart
  <2>2. R'.pc = "throw"
    <3>1. DOMAIN R = Fields
        BY <1>1 DEF Alike
    <3> QED
        BY <1>3, <3>1 DEF ReceiverStart, Fresh, Fields
  <2>3. Refuses(S)
      BY <1>1, <1>3 DEF Refuses, Alike
  <2>4. S.pc = "start"
      BY <1>1, <2>3 DEF SenderOk
  <2> QED
      BY <1>1, <2>1, <2>2, <2>3, <2>4 DEF Dead, Refuses
<1>4. CASE SenderCheck /\ ~ Verifies(Head(toS))
  <2>1. S.pc = "check" /\ toS # <<>> /\ S' = Throw(S) /\ conf' = conf
      BY <1>4 DEF SenderCheck
  <2>2. DOMAIN S' = Fields /\ S'.pc = "throw"
      BY <1>1, <2>1 DEF Throw, Fields
  <2>3. ~ AllCorrelated
      BY <1>4, <2>1, AcceptsCorrelated
  <2>4. conf.bad # 0 \/ conf.next = "split"
    <3> SUFFICES ASSUME conf.bad = 0, conf.next # "split" PROVE FALSE
        OBVIOUS
    <3>1. KeysAlike /\ Base(S) = Base(R)
        BY <1>1 DEF Alike
    <3>2. \A b, j : Correlated(b, j)
        BY <3>1, HonestRows
    <3> QED
        BY <2>3, <3>2 DEF AllCorrelated
  <2> QED
      BY <2>1, <2>2, <2>4 DEF Dead
<1> QED
    BY <1>2, <1>3, <1>4

\* Nobody goes on after a throw.
LEMMA DeadStays ==
    ASSUME Dead, Next
    PROVE  Dead'
<1>1. DOMAIN S = Fields /\ (Refuses(S) \/ conf.bad # 0 \/ conf.next = "split")
    BY DEF Dead
<1>2. CASE S.pc = "throw"
  <2>1. S' = S /\ conf' = conf
    <3>1. ~ SenderNext /\ ~ NextCall
        BY <1>2 DEF SenderNext, SenderStart, SenderReceive, SenderBlock, SenderSeed, SenderCheck,
                    SenderTemp, SenderFails, NextCall, Ended
    <3>2. ReceiverNext
        BY <3>1 DEF Next, SenderNext, ReceiverNext
    <3> QED
        BY <3>2 DEF ReceiverNext, ReceiverStart, ReceiverBlock, ReceiverCheck, ReceiverTemp,
                    ReceiverFails
  <2> QED
      BY <1>1, <1>2, <2>1 DEF Dead, Refuses
<1>3. CASE S.pc = "start" /\ Refuses(S) /\ R.pc = "throw"
  <2>1. SenderStart
      BY <1>3 DEF Next, SenderReceive, SenderBlock, SenderSeed, SenderCheck, SenderTemp,
                  SenderFails, NextCall, Ended, ReceiverStart, ReceiverBlock, ReceiverCheck,
                  ReceiverTemp, ReceiverFails
  <2>2. DOMAIN S' = Fields /\ S'.pc = "throw" /\ S'.mal = S.mal /\ S'.hash = S.hash
      BY <1>1, <1>3, <2>1 DEF SenderStart, Fresh, Fields
  <2> QED
      BY <1>3, <2>2 DEF Dead, Refuses
<1> QED
    BY <1>2, <1>3 DEF Dead

\* Nothing changes when the variables do not.
LEMMA Stutters ==
    ASSUME OtExtAssumption, IInv, UNCHANGED vars
    PROVE  IInv'
<1>1. /\ conf' = conf /\ call' = call /\ S' = S /\ R' = R
      /\ toS' = toS /\ toR' = toR /\ closed' = closed
    BY DEF vars
<1>2. ConfOk'
    BY <1>1, ConfFrame DEF IInv, ConfOk
<1>3. CASE Live
  <2>1. ConfOk
      BY DEF IInv
  <2>2. Steady
      BY <1>1 DEF Steady, SameSet, Base
  <2>3. NB' = NB /\ (AllCorrelated' <=> AllCorrelated)
      BY <2>2, RowsFrame
  <2>4. Alike'
      BY <1>1, <1>3, <2>2, AlikeFrame DEF Live, Alike
  <2>5. SenderOk' /\ ReceiverOk'
      BY <1>1, <1>3, <2>2, SenderFrame, ReceiverFrame DEF Live
  <2>6. Got' = Got /\ Sent' = Sent /\ Proofs' = Proofs /\ SLog' = SLog /\ RLog' = RLog
      BY <1>1, <2>3 DEF Got, Sent, Proofs, SLog, RLog
  <2>7. Stream' /\ Logs'
      BY <1>1, <1>3, <2>2, <2>6, StreamFrame DEF Live
  <2>8. Back'
    <3>1. Temp' = Temp
        BY <1>1 DEF Temp
    <3> QED
        BY <1>1, <1>3, <3>1 DEF Live, Back
  <2>9. Checked' /\ Delivered'
      BY <1>1, <1>3, <2>3, DeliveredFrame DEF Live, Checked
  <2>10. S'.pc = S.pc /\ R'.pc = R.pc /\ ~ closed'
      BY <1>1, <1>3 DEF Live
  <2> QED
      BY <1>2, <1>3, <2>4, <2>5, <2>7, <2>8, <2>9, <2>10 DEF Live, IInv
<1>4. CASE Dead
    BY <1>1, <1>2, <1>4 DEF Dead, Refuses, IInv
<1> QED
    BY <1>3, <1>4 DEF IInv

\* A step of a call nobody has left goes on with it or ends it with a throw.
LEMMA LiveSteps ==
    ASSUME OtExtAssumption, ConfOk, Live, Next
    PROVE  Live' \/ Dead'
<1>1. ~ closed
    BY DEF Live
<1>2. CASE ReceiverStart
    BY <1>2, ReceiverStartLive, Throws
<1>3. CASE ReceiverBlock
    BY <1>3, ReceiverBlockLive
<1>4. CASE ReceiverCheck
    BY <1>4, ReceiverCheckLive
<1>5. CASE ReceiverTemp
    BY <1>5, ReceiverTempLive
<1>6. CASE SenderStart
    BY <1>6, SenderStartLive, Throws
<1>7. CASE SenderReceive
    BY <1>7, SenderReceiveLive
<1>8. CASE SenderBlock
    BY <1>8, SenderBlockLive
<1>9. CASE SenderSeed
    BY <1>9, SenderSeedLive
<1>10. CASE SenderCheck
    BY <1>10, SenderCheckLive, Throws
<1>11. CASE SenderTemp
    BY <1>11, SenderTempLive
<1>12. CASE NextCall
    BY <1>12, NextCallLive
<1>13. ~ ReceiverFails /\ ~ SenderFails
    BY <1>1 DEF ReceiverFails, SenderFails
<1> QED
    BY <1>2, <1>3, <1>4, <1>5, <1>6, <1>7, <1>8, <1>9, <1>10, <1>11, <1>12, <1>13 DEF Next

LEMMA Steps ==
    ASSUME OtExtAssumption, IInv, [Next]_vars
    PROVE  IInv'
<1>1. CASE UNCHANGED vars
    BY <1>1, Stutters
<1>2. CASE Next
  <2>1. ConfOk /\ conf' = conf /\ call' \in 1 .. 2
      BY <1>2 DEF IInv, ConfOk, Next, ReceiverStart, ReceiverBlock, ReceiverCheck, ReceiverTemp,
                  ReceiverFails, SenderStart, SenderReceive, SenderBlock, SenderSeed, SenderCheck,
                  SenderTemp, SenderFails, NextCall
  <2>2. ConfOk'
      BY <2>1, ConfFrame
  <2>3. Live' \/ Dead'
      BY <1>2, <2>1, LiveSteps, DeadStays DEF IInv
  <2> QED
      BY <2>2, <2>3 DEF IInv
<1> QED
    BY <1>1, <1>2

-----------------------------------------------------------------------------
(* What every reachable state satisfies.                                   *)

\* The invariant: a call goes on as described by Live, or someone threw for
\* one of the three reasons the code has (run of KosOtExtSender::send and
\* KosOtExtReceiver::receive, and the transfers of OTExtInterface).
THEOREM InvHolds == Given /\ Spec => []IInv
<1> SUFFICES ASSUME Given PROVE Spec => []IInv
    OBVIOUS
<1>1. Init => IInv
    BY InitInv
<1>2. IInv /\ [Next]_vars => IInv'
    BY Steps DEF Given
<1> QED
    BY <1>1, <1>2, PTL DEF Spec

\* Both calls are oblivious transfers whenever both sides have returned: the
\* receiver's rows are those of its choice bits, over partial blocks, several
\* messages of u, every hash and a second call (KosOtExtSender::send,
\* KosOtExtReceiver::receive, sendChosen, sendCorrelated).
THEOREM TransfersRight == Given /\ Spec => []OtCorrect
<1> SUFFICES ASSUME Given PROVE Spec => []OtCorrect
    OBVIOUS
<1>1. IInv => OtCorrect
  <2> SUFFICES ASSUME IInv PROVE OtCorrect
      OBVIOUS
  <2>1. CASE Live
      BY <2>1, LiveCorrect DEF Given, IInv
  <2>2. CASE Dead
      BY <2>2 DEF Dead, OtCorrect, Ended
  <2> QED
      BY <2>1, <2>2 DEF IInv
<1>2. Spec => []IInv
    BY InvHolds
<1> QED
    BY <1>1, <1>2, PTL

\* A receiver with two choices in a column passes the sender's check() only
\* when the base choice of that column is zero (KosOtExtSender::check).
THEOREM CheatNeverPasses == Given /\ Spec => []CheatCaught
<1> SUFFICES ASSUME Given PROVE Spec => []CheatCaught
    OBVIOUS
<1>1. IInv => CheatCaught
  <2> SUFFICES ASSUME IInv PROVE CheatCaught
      OBVIOUS
  <2>1. CASE Live
      BY <2>1, LiveCorrect DEF Given, IInv
  <2>2. CASE Dead
      BY <2>2 DEF Dead, CheatCaught
  <2> QED
      BY <2>1, <2>2 DEF IInv
<1>2. Spec => []IInv
    BY InvHolds
<1> QED
    BY <1>1, <1>2, PTL

\* Two honest objects with the settings of an accepted call never throw, in
\* the first call or in a second one of the same pair.  A pair split off is
\* excluded: KosOtExtReceiver::splitBase leaves most of its keys unset.
THEOREM HonestNeverThrow ==
    Given /\ "split" \notin Nexts /\ Spec => []HonestSucceeds
<1> SUFFICES ASSUME Given, "split" \notin Nexts PROVE Spec => []HonestSucceeds
    OBVIOUS
<1>1. IInv => HonestSucceeds
  <2> SUFFICES ASSUME IInv PROVE HonestSucceeds
      OBVIOUS
  <2>1. CASE Live
      BY <2>1 DEF Live, HonestSucceeds
  <2>2. CASE Dead
    <3>1. conf.next # "split"
        BY DEF IInv, ConfOk
    <3> QED
        BY <2>2, <3>1 DEF Dead, HonestSucceeds
  <2> QED
      BY <2>1, <2>2 DEF IInv
<1>2. Spec => []IInv
    BY InvHolds
<1> QED
    BY <1>1, <1>2, PTL
=============================================================================
