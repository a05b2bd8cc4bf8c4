----------------------------- MODULE RegularDpf -----------------------------
(***************************************************************************)
(* RegularDpf (libOTe/Dpf/RegularDpf.h) over DpfMult (DpfMult.h): two       *)
(* parties that share points and values expand, level by level, trees      *)
(* whose leaves sum to the value at the point and to zero everywhere else. *)
(* A run is one call of expand or of the interactive keyGen on each side,  *)
(* possibly repeated, or the evaluation of the keys of the static keyGen.  *)
(*                                                                         *)
(* A block is the set of its bits that are one, bit 0 the tag; a generator *)
(* seeded by s is the function Draw(s, .), and the fixed-key AES any       *)
(* function of the block.                                                  *)
(***************************************************************************)
EXTENDS Integers, Sequences, FiniteSets, FiniteSetsExt, SequencesExt

CONSTANTS
  Width,    \* bits of a block
  Domains,  \* candidate numbers of leaves
  Counts,   \* candidate numbers of trees
  Coins,    \* candidate sources of randomness
  Repeats   \* "once"; "spent": the call is made again; "fresh": after
            \* setBaseOts; "unset": setBaseOts was forgotten

VARIABLES
  conf,     \* what both callers agreed on
  st,       \* party -> its object and its call
  net       \* party -> messages on the way to it

vars == <<conf, st, net>>

-----------------------------------------------------------------------------
(* Blocks.                                                                 *)

Party == 0 .. 1
Peer(p) == 1 - p
Block == SUBSET (0 .. Width - 1)
Ones == 0 .. Width - 1
ZeroBlock == {}
Xor(a, b) == (a \ b) \cup (b \ a)
XorOf(S, f(_)) == FoldSet(LAMBDA i, acc : Xor(f(i), acc), ZeroBlock, S)
Lsb(b) == IF 0 \in b THEN 1 ELSE 0
SetLsb(b, bit) == (b \ {0}) \cup (IF bit = 1 THEN {0} ELSE {})
AllSame(bit) == IF bit = 1 THEN Ones ELSE ZeroBlock
TagBit(b) == AllSame(Lsb(b))
\* f of v, with v evaluated once.
Let(v, f(_)) == CHOOSE w \in {f(u) : u \in {v}} : TRUE

Bit(x, i) == (x \div 2 ^ i) % 2
Plus2(a, b) == (a + b) % 2
BlockOf(n) == {i \in Ones : Bit(n, i) = 1}
Log2Ceil(n) == CHOOSE k \in 0 .. n : n <= 2 ^ k /\ (k = 0 \/ n > 2 ^ (k - 1))

\* Draw: the i-th block of a generator.  Hash: roundEnc(AES(b), b) and
\* AES(b) + b for the two children, roundEnc(b, b) for a leaf.
Draw(s, i) == BlockOf(((s + 2) * (i + 3) * (i + s + 1)) \div 2 + 5 * s)
HashOf(k, b) == LET n == SumSet({2 ^ i : i \in b})
                IN  BlockOf(((n + 1) * (n + 2 + k) * (k + 3)) \div 2 + k)
Hash == [k \in 0 .. 2 |-> [b \in Block |-> HashOf(k, b)]]

-----------------------------------------------------------------------------
(* DpfMult: the i-th pair of OTs is a product of shares; g counts the calls *)
(* of setBaseOts.                                                          *)

SendOt(coin, p, g, i) == <<Draw(coin + p + 2 * g, 2 * i), Draw(coin + p + 2 * g, 2 * i + 1)>>
ChoiceBit(coin, p, g, i) == Lsb(Draw(coin + 3 * p + g + 1, i + 7))
Triple(coin, p, g, i) ==
  LET a == ChoiceBit(coin, p, g, i)
      mine == SendOt(coin, p, g, i)
      b == Xor(mine[1], mine[2])
  IN  [a |-> a, b |-> b,
       c |-> Xor(Xor(SendOt(coin, Peer(p), g, i)[a + 1], mine[1]), b \cap AllSame(a))]

\* multiply up to its send, and what it writes to xy once the other half is here.
Opened(t, x, y) == [theta |-> Xor(y, t.b), phi |-> Plus2(x, t.a)]
Product(p, t, mine, theirs) ==
  LET phi == AllSame(Plus2(mine.phi, theirs.phi))
      theta == Xor(mine.theta, theirs.theta)
      xy == Xor(t.c, Xor(theta \cap AllSame(t.a), phi \cap t.b))
  IN  IF p = 1 THEN Xor(xy, theta \cap phi) ELSE xy

-----------------------------------------------------------------------------
(* The levels.  Three buffers are used in turn: at step iter, the parents'  *)
(* tags are in buffer iter - 1, their children's seeds in buffer iter, and  *)
(* the grandchildren go to buffer iter + 1, all modulo 3.                  *)

LevelRows(iter, n) == (0 .. 2 ^ iter - 1) \X (0 .. n - 1)
NoRows == <<>>

\* Level 0 is skipped: level 1 is drawn, and the root's tag is the party.
FirstLevels(p, seed, n) ==
  [i \in 0 .. 2 |->
    CASE i = 0 -> [rk \in {0} \X (0 .. n - 1) |-> AllSame(p)]
      [] i = 1 -> [rk \in LevelRows(1, n) |-> Draw(seed, 2 * rk[2] + rk[1])]
      [] OTHER -> NoRows]
Corrected(s, sigma, iter, r, k) ==
  Xor(s[iter % 3][<<r, k>>], s[(iter - 1) % 3][<<r \div 2, k>>] \cap sigma[<<r % 2, k>>])
Grandchildren(s, sigma, iter, n) ==
  [rk \in LevelRows(iter + 1, n) |->
     Hash[rk[1] % 2][Corrected(s, sigma, iter, rk[1] \div 2, rk[2])]]
NextLevels(s, sigma, iter, n) ==
  [s EXCEPT ![(iter + 1) % 3] = Grandchildren(s, sigma, iter, n),
            ![iter % 3] = [rk \in LevelRows(iter, n) |-> TagBit(Corrected(s, sigma, iter, rk[1], rk[2]))]]
\* z: the sums of the left and of the right children of a level.
ChildSums(level, iter, n) ==
  [jk \in (0 .. 1) \X (0 .. n - 1) |->
     XorOf({r \in 0 .. 2 ^ iter - 1 : r % 2 = jk[1]}, LAMBDA r : level[<<r, jk[2]>>])]

\* The last layer: the leaves, their tags, and diff, their sum.
LeafRows(domain) == 0 .. 2 * ((domain + 1) \div 2) - 1
Leaves(s, sigma, depth, domain, n) ==
  [rk \in LeafRows(domain) \X (0 .. n - 1) |->
     LET b == Corrected(s, sigma, depth, rk[1], rk[2])
     IN  [v |-> Hash[2][b], t |-> TagBit(b)]]
LeafSum(leaves, domain, k) == XorOf(LeafRows(domain), LAMBDA r : leaves[<<r, k>>].v)
Output(leaves, gamma, domain, n) ==
  [ik \in (0 .. domain - 1) \X (0 .. n - 1) |->
     [v |-> IF gamma = <<>> THEN leaves[ik].v
            ELSE Xor(leaves[ik].v, leaves[ik].t \cap gamma[ik[2]]),
      t |-> Lsb(leaves[ik].t)]]

-----------------------------------------------------------------------------
(* Keys: the evaluation of one, its bytes, and the static keyGen.          *)

\* sigma of step iter: the word, its tag bit replaced for the right child.
KeySigma(key, iter, n) ==
  [jk \in (0 .. 1) \X (0 .. n - 1) |->
     LET w == key.words[<<iter, jk[2]>>]
     IN  IF jk[1] = 0 THEN w ELSE SetLsb(w, key.bits[<<iter, jk[2]>>])]
KeyLevels(p, key, depth, n) ==
  FoldLeft(LAMBDA s, iter : Let(s, LAMBDA t : NextLevels(t, KeySigma(key, iter, n), iter, n)),
           FirstLevels(p, key.seed, n), [iter \in 1 .. depth - 1 |-> iter])
Evaluated(p, key, domain, n) ==
  LET depth == Log2Ceil(domain)
  IN  Let(Let(KeyLevels(p, key, depth, n),
              LAMBDA s : Leaves(s, KeySigma(key, depth, n), depth, domain, n)),
          LAMBDA leaves : Output(leaves, key.leafs, domain, n))

\* toBytes: the seed, the words and the bits level by level, the leaf values.
KeyCells(depth, n) == [i \in 0 .. depth * n - 1 |-> <<1 + i \div n, i % n>>]
SizeBytes(depth, n, leafs) == 1 + 2 * depth * n + leafs
ToBytes(key, depth, n) ==
  LET cell == KeyCells(depth, n)
  IN  <<key.seed>> \o [i \in 1 .. depth * n |-> key.words[cell[i - 1]]]
        \o [i \in 1 .. depth * n |-> key.bits[cell[i - 1]]]
        \o [i \in 1 .. Cardinality(DOMAIN key.leafs) |-> key.leafs[i - 1]]
FromBytes(bytes, depth, n, leafs) ==
  [seed |-> bytes[1],
   words |-> [c \in (1 .. depth) \X (0 .. n - 1) |-> bytes[1 + (c[1] - 1) * n + c[2] + 1]],
   bits |-> [c \in (1 .. depth) \X (0 .. n - 1) |-> bytes[1 + depth * n + (c[1] - 1) * n + c[2] + 1]],
   leafs |-> IF leafs = 0 THEN <<>>
             ELSE [k \in 0 .. leafs - 1 |-> bytes[1 + 2 * depth * n + k + 1]]]

\* One tree of the static keyGen: the seeds of the two children on the path and
\* the parent's tags, from step to step; "good" is what its own tests demand.
StaticStart(seeds, k) ==
  [seed |-> <<<<Draw(seeds[0], 2 * k), Draw(seeds[0], 2 * k + 1)>>,
              <<Draw(seeds[1], 2 * k), Draw(seeds[1], 2 * k + 1)>>>>,
   tag |-> <<0, 1>>, words |-> <<>>, bits |-> <<>>, good |-> TRUE]
StaticStep(t, a, last) ==
  LET na == 1 - a
      sum(j) == Xor(t.seed[1][j + 1], t.seed[2][j + 1])
      tau(j) == Plus2(Lsb(sum(j)), IF j = 0 THEN na ELSE a)
      sigma(j) == SetLsb(sum(na), tau(j))
      now(p, j) == Xor(t.seed[p][j + 1], sigma(j) \cap AllSame(t.tag[p]))
      next(p, j) == IF last THEN now(p, j) ELSE Hash[j][now(p, a)]
      tags == <<Lsb(now(1, a)), Lsb(now(2, a))>>
  IN  [seed |-> <<<<next(1, 0), next(1, 1)>>, <<next(2, 0), next(2, 1)>>>>,
       tag |-> tags, words |-> Append(t.words, sigma(0)), bits |-> Append(t.bits, tau(1)),
       good |-> t.good /\ now(1, na) = now(2, na) /\ Plus2(tags[1], tags[2]) = 1]
StaticTree(seeds, k, alpha, depth) ==
  FoldLeft(LAMBDA t, iter : Let(t, LAMBDA u : StaticStep(u, Bit(alpha, depth - iter), iter = depth)),
           StaticStart(seeds, k), [iter \in 1 .. depth |-> iter])
\* The leaf value makes the active leaves' hashes sum to the value.
StaticLeaf(t, a, value) == Xor(Xor(Hash[2][t.seed[1][a + 1]], Hash[2][t.seed[2][a + 1]]), value)

\* Without values the keys are sized for no tree at all.
StaticTrees(seeds, alpha, depth, n) ==
  FoldLeft(LAMBDA all, k : Append(all, StaticTree(seeds, k, alpha[k], depth)),
           <<>>, [k \in 1 .. n |-> k - 1])
KeyOf(p, seeds, trees, alpha, values, depth, n) ==
  [seed |-> seeds[p],
   words |-> [c \in (1 .. depth) \X (0 .. n - 1) |-> trees[c[2] + 1].words[c[1]]],
   bits |-> [c \in (1 .. depth) \X (0 .. n - 1) |-> trees[c[2] + 1].bits[c[1]]],
   leafs |-> IF n = 0 THEN <<>>
             ELSE [k \in 0 .. n - 1 |-> StaticLeaf(trees[k + 1], alpha[k] % 2, values[k])]]
StaticKey(p, seeds, alpha, values, domain) ==
  LET n == Cardinality(DOMAIN values)
      depth == Log2Ceil(domain)
  IN  Let(StaticTrees(seeds, alpha, depth, n),
          LAMBDA trees : KeyOf(p, seeds, trees, alpha, values, depth, n))
StaticTests(seeds, alpha, values, domain) ==
  \A k \in DOMAIN values :
     LET t == StaticTree(seeds, k, alpha[k], Log2Ceil(domain))
         na == 1 - (alpha[k] % 2)
     IN  t.good /\ t.seed[1][na + 1] = t.seed[2][na + 1]

-----------------------------------------------------------------------------
(* A call on each side.                                                    *)

Trees == conf.n
Depth == Log2Ceil(conf.domain)
BaseOtCount == Trees * Depth
Seeds == [p \in Party |-> conf.coin + 2 * p]
AlphaBit(p, k, iter) ==
  LET mask == Bit(conf.mask, Depth - iter)
  IN  IF p = 0 THEN mask ELSE Plus2(mask, Bit(conf.alpha[k], Depth - iter))
Value(k) == Draw(conf.coin + 1, k + 9)
ValueShare(p, k) == IF p = 0 THEN Draw(conf.coin, k + 11) ELSE Xor(Draw(conf.coin, k + 11), Value(k))
Values == IF conf.values THEN [k \in 0 .. Trees - 1 |-> Value(k)] ELSE <<>>
MyTriple(p, k) == Triple(conf.coin, p, st[p].gen, st[p].ot + k)

Object ==
  [pc |-> "called", iter |-> 1, s |-> <<>>, z |-> <<>>, sigma |-> <<>>, sent |-> <<>>,
   leaves |-> <<>>, ot |-> 0, gen |-> 0, key |-> <<>>, out |-> <<>>, calls |-> 1]
Init ==
  /\ conf \in UNION {{[call |-> call, domain |-> domain, n |-> count, coin |-> coin,
                       values |-> values, alpha |-> alpha, mask |-> mask, repeat |-> repeat] :
                        alpha \in [0 .. count - 1 -> 0 .. domain - 1]} :
                     call \in {"expand", "keyGen", "static"}, domain \in Domains, count \in Counts,
                     coin \in Coins, values \in BOOLEAN, mask \in {1, 6},
                     repeat \in Repeats}
  /\ conf.call = "static" => conf.repeat = "once"
  /\ st = [p \in Party |-> [Object EXCEPT !.gen = IF conf.repeat = "unset" THEN 0 ELSE 1]]
  /\ net = [p \in Party |-> <<>>]

Send(p, m) == net' = [net EXCEPT ![Peer(p)] = Append(@, m)]
Exchange(p, m) == net' = [net EXCEPT ![Peer(p)] = Append(@, m), ![p] = Tail(@)]
Take(p) == net' = [net EXCEPT ![p] = Tail(@)]
Goto(p, r) == st' = [st EXCEPT ![p] = r]
Has(p) == net[p] # <<>>

\* implExpand up to its loop.
Call(p) ==
  /\ st[p].pc = "called" /\ conf.call # "static"
  /\ LET s == FirstLevels(p, Seeds[p], Trees)
     IN  Goto(p, [st[p] EXCEPT !.pc = "correct", !.iter = 1, !.s = s, !.z = ChildSums(s[1], 1, Trees),
                    !.key = [seed |-> Seeds[p], words |-> <<>>, bits |-> <<>>, leafs |-> <<>>]])
  /\ UNCHANGED <<conf, net>>

\* The correction word of step iter: the product that selects the inactive
\* child's sum, and multiply's own tests.
Diff(p, k) == SetLsb(Xor(st[p].z[<<0, k>>], st[p].z[<<1, k>>]), 0)
MultiplySend(p) ==
  /\ st[p].pc = "correct"
  /\ IF st[p].ot + Trees > BaseOtCount \/ st[p].gen = 0
     THEN Goto(p, [st[p] EXCEPT !.pc = "throw"]) /\ UNCHANGED net
     ELSE LET m == [k \in 0 .. Trees - 1 |->
                      Opened(MyTriple(p, k), Plus2(AlphaBit(p, k, st[p].iter), p), Diff(p, k))]
          IN  /\ Goto(p, [st[p] EXCEPT !.pc = "multiply", !.sent = m])
              /\ Send(p, m)
  /\ UNCHANGED conf
SigmaShare(p, k, xy) ==
  Xor(Xor(xy, st[p].z[<<0, k>>]), BlockOf(Plus2(p, AlphaBit(p, k, st[p].iter))))
MultiplyRecv(p) ==
  /\ st[p].pc = "multiply" /\ Has(p)
  /\ LET xy(k) == Product(p, MyTriple(p, k), st[p].sent[k], Head(net[p])[k])
         m == [k \in 0 .. Trees - 1 |->
                 [sigma |-> SigmaShare(p, k, xy(k)),
                  tau |-> Plus2(Lsb(st[p].z[<<1, k>>]), AlphaBit(p, k, st[p].iter))]]
     IN  /\ Goto(p, [st[p] EXCEPT !.pc = "reveal", !.sent = m, !.ot = @ + Trees])
         /\ Exchange(p, m)
  /\ UNCHANGED conf

\* sigma and tau are known: they go to the key, and the level is expanded.
Grow(f, iter, value(_)) == [c \in DOMAIN f \cup ({iter} \X (0 .. Trees - 1)) |->
                              IF c \in DOMAIN f THEN f[c] ELSE value(c[2])]
Revealed(p) ==
  [jk \in (0 .. 1) \X (0 .. Trees - 1) |->
     LET mine == st[p].sent[jk[2]]
         theirs == Head(net[p])[jk[2]]
         word == Xor(mine.sigma, theirs.sigma)
     IN  IF jk[1] = 0 THEN word ELSE SetLsb(word, Plus2(mine.tau, theirs.tau))]
Recorded(p, sigma) ==
  [st[p].key EXCEPT !.words = Grow(@, st[p].iter, LAMBDA k : sigma[<<0, k>>]),
                    !.bits = Grow(@, st[p].iter, LAMBDA k : Lsb(sigma[<<1, k>>]))]
Reveal(p) ==
  /\ st[p].pc = "reveal" /\ Has(p) /\ st[p].iter # Depth
  /\ LET iter == st[p].iter
         s == NextLevels(st[p].s, Revealed(p), iter, Trees)
     IN  Goto(p, [st[p] EXCEPT !.pc = "correct", !.iter = iter + 1, !.s = s,
                    !.sigma = Revealed(p), !.key = Recorded(p, Revealed(p)),
                    !.z = ChildSums(s[(iter + 1) % 3], iter + 1, Trees)])
  /\ Take(p)
  /\ UNCHANGED conf
LastReveal(p) ==
  /\ st[p].pc = "reveal" /\ Has(p) /\ st[p].iter = Depth
  /\ LET leaves == Leaves(st[p].s, Revealed(p), Depth, conf.domain, Trees)
         diff == [k \in 0 .. Trees - 1 |-> Xor(LeafSum(leaves, conf.domain, k), ValueShare(p, k))]
         here == [st[p] EXCEPT !.key = Recorded(p, Revealed(p)), !.leaves = leaves, !.sent = diff]
     IN  IF conf.values
         THEN Goto(p, [here EXCEPT !.pc = "leaf"]) /\ Exchange(p, diff)
         ELSE /\ Goto(p, [here EXCEPT !.pc = "done",
                            !.out = IF conf.call = "keyGen" THEN <<>>
                                    ELSE Output(leaves, <<>>, conf.domain, Trees)])
              /\ Take(p)
  /\ UNCHANGED conf
LeafValues(p) ==
  /\ st[p].pc = "leaf" /\ Has(p)
  /\ LET gamma == [k \in 0 .. Trees - 1 |-> Xor(st[p].sent[k], Head(net[p])[k])]
     IN  Goto(p, [st[p] EXCEPT !.pc = "done", !.key.leafs = gamma,
                    !.out = IF conf.call = "keyGen" THEN <<>>
                            ELSE Output(st[p].leaves, gamma, conf.domain, Trees)])
  /\ Take(p)
  /\ UNCHANGED conf

\* A key goes through toBytes and fromBytes into a key resized for Trees trees, which
\* always makes room for leaf values, and is evaluated alone.
Evaluate(p) ==
  /\ \/ (conf.call = "static" /\ st[p].pc = "called")
     \/ conf.call = "keyGen" /\ st[p].pc = "done" /\ st[p].out = <<>>
  /\ LET key == IF conf.call = "static"
                THEN StaticKey(p, Seeds, conf.alpha, Values, conf.domain) ELSE st[p].key
         columns == IF conf.call = "static" /\ ~ conf.values THEN 0 ELSE Trees
         bytes == ToBytes(key, Depth, columns)
     IN  IF Len(bytes) # SizeBytes(Depth, Trees, Trees)
         THEN Goto(p, [st[p] EXCEPT !.pc = "throw", !.key = key])
         ELSE Goto(p, [st[p] EXCEPT !.pc = "done", !.key = key,
                         !.out = Evaluated(p, FromBytes(bytes, Depth, Trees, Trees), conf.domain, Trees)])
  /\ UNCHANGED <<conf, net>>

\* The same object is used for a second call.
CallAgain(p) ==
  /\ conf.call = "expand" /\ st[p].pc = "done" /\ st[p].calls = 1
  /\ conf.repeat \in {"spent", "fresh"}
  /\ Goto(p, [Object EXCEPT !.calls = 2, !.gen = IF conf.repeat = "fresh" THEN 2 ELSE 1,
                            !.ot = IF conf.repeat = "fresh" THEN 0 ELSE st[p].ot])
  /\ UNCHANGED <<conf, net>>

Step(p) ==
  \/ Call(p) \/ MultiplySend(p) \/ MultiplyRecv(p) \/ Reveal(p) \/ LastReveal(p)
  \/ LeafValues(p) \/ Evaluate(p) \/ CallAgain(p)
Next == \E p \in Party : Step(p)

Spec == Init /\ [][Next]_vars

-----------------------------------------------------------------------------
Both(pc) == \A p \in Party : st[p].pc = pc

\* The outputs of the two sides share the point function: the tags differ at the
\* point alone, the values agree elsewhere and sum to the value there.
PointShared ==
  (Both("done") /\ st[0].calls = st[1].calls /\ \A p \in Party : st[p].out # <<>>) =>
    \A ik \in (0 .. conf.domain - 1) \X (0 .. Trees - 1) :
       LET here == ik[1] = conf.alpha[ik[2]]
           v == Xor(st[0].out[ik].v, st[1].out[ik].v)
       IN  /\ Plus2(st[0].out[ik].t, st[1].out[ik].t) = IF here THEN 1 ELSE 0
           /\ ~ here => v = ZeroBlock
           /\ here /\ conf.values => v = Value(ik[2])

\* Between two steps exactly one node of a level and of a tree is active: there
\* the parties' tags differ, and off the path their seeds are the same.
OnePathActive ==
  (Both("correct") /\ st[0].iter = st[1].iter /\ st[0].calls = st[1].calls) =>
    LET iter == st[0].iter
    IN  \A k \in 0 .. Trees - 1, r \in 0 .. 2 ^ (iter - 1) - 1 :
          LET active == r = conf.alpha[k] \div 2 ^ (Depth - iter + 1)
              tags == [p \in Party |-> st[p].s[(iter - 1) % 3][<<r, k>>]]
          IN  /\ Xor(tags[0], tags[1]) = AllSame(IF active THEN 1 ELSE 0)
              /\ ~ active => \A j \in 0 .. 1 :
                   st[0].s[iter % 3][<<2 * r + j, k>>] = st[1].s[iter % 3][<<2 * r + j, k>>]

\* The interactive keyGen writes the very keys the static one writes from the
\* same seeds, and the static one's own tests hold.
KeysAgree ==
  /\ conf.call = "static" /\ Both("called") =>
       StaticTests(Seeds, conf.alpha, [k \in 0 .. Trees - 1 |-> Value(k)], conf.domain)
  /\ \A p \in Party :
       conf.call = "keyGen" /\ st[p].pc = "done" =>
         st[p].key = [StaticKey(p, Seeds, conf.alpha, [k \in 0 .. Trees - 1 |-> Value(k)], conf.domain)
                        EXCEPT !.leafs = IF conf.values THEN @ ELSE <<>>]

\* No pair of OTs is used twice: the pairs of a step follow those of the step
\* before, and a second call does not get to use any.
PairsOnce ==
  \A p \in Party :
    /\ st[p].pc = "multiply" => st[p].ot = (st[p].iter - 1) * Trees
    /\ conf.repeat = "spent" /\ st[p].calls = 2 => st[p].pc \in {"called", "correct", "throw"}

\* A side throws only when its OTs are spent or were never set, or when a key
\* without leaf values is read into one that has them.
ThrowReason ==
  \A p \in Party : st[p].pc = "throw" =>
    \/ conf.repeat = "unset"
    \/ conf.repeat = "spent" /\ st[p].calls = 2
    \/ conf.call # "expand" /\ ~ conf.values

\* When neither side can go on, both have returned or both have thrown: nobody is
\* left waiting for a message.
AtRest(p) ==
  \/ st[p].pc \in {"multiply", "reveal", "leaf"} /\ ~ Has(p)
  \/ st[p].pc = "throw"
  \/ st[p].pc = "done" /\ (conf.call = "keyGen" => st[p].out # <<>>)
                       /\ (conf.repeat \in {"spent", "fresh"} /\ conf.call = "expand" => st[p].calls = 2)
EndTogether == (\A p \in Party : AtRest(p)) => Both("done") \/ Both("throw")
=============================================================================
