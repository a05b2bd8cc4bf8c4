-------------------------------- MODULE Pprf --------------------------------
(***************************************************************************)
(* RegularPprfSender and RegularPprfReceiver (libOTe/Tools/Pprf): the      *)
(* puncturable PRF behind the silent OT and silent VOLE the OPRF calls.    *)
(* Both parties expand mPntCount GGM trees, Batch (8 in the code) at a     *)
(* time; the receiver misses one leaf of each and is sent, masked by base  *)
(* OTs, the sums it needs to rebuild every other node.                     *)
(*                                                                         *)
(* A 128-bit block is a set of opaque terms, XOR their symmetric           *)
(* difference and ZeroBlock the empty set; an element of the leaf group F  *)
(* is a formal integer combination of hashed blocks.                       *)
(***************************************************************************)
EXTENDS Naturals, Integers, Sequences, FiniteSets, FiniteSetsExt

CONSTANTS
  Batch,    \* trees expanded at once
  Domains,  \* candidate numbers of leaves
  Counts,   \* candidate numbers of trees
  Formats,  \* output formats tried
  Eagers    \* candidate values of mEagerSend, chosen by each party

BatchAssumption == Batch \in Nat \ {0}

VARIABLES
  conf,     \* what both callers agreed on, and what each chose alone
  point,    \* tree -> the punctured leaf, the bits of mBaseChoices
  sTree,    \* the sender's treeIndex
  rTree,    \* the receiver's
  sPc, rPc, \* "expand", "done" or "throw"
  buff,     \* non-eager: what the sender gathered, what the receiver holds
  net,      \* messages on the way to the receiver
  closed,   \* chl.closed()
  sOut, rOut

vars == <<conf, point, sTree, rTree, sPc, rPc, buff, net, closed, sOut, rOut>>

-----------------------------------------------------------------------------
(* Blocks and group elements.                                              *)

ZeroBlock == {}
Xor(a, b) == (a \ b) \cup (b \ a)
XorOf(S, f(_)) == FoldSet(LAMBDA i, acc : Xor(f(i), acc), ZeroBlock, S)

Zero == <<>>
Coef(f, t) == IF t \in DOMAIN f THEN f[t] ELSE 0
Plus(f, g) ==
  LET T == {t \in DOMAIN f \cup DOMAIN g : Coef(f, t) + Coef(g, t) # 0}
  IN  [t \in T |-> Coef(f, t) + Coef(g, t)]
Minus(f, g) == Plus(f, [t \in DOMAIN g |-> -g[t]])
SumOf(S, f(_)) == FoldSet(LAMBDA i, acc : Plus(f(i), acc), Zero, S)

\* The two children of an inner node, and the two leaf hashes gGgmAes.
Child(k, parent) == {<<"child", k, parent>>}
Hash(k, parent) == [t \in {<<"leaf", k, parent>>} |-> 1]
Val(tree) == [t \in {<<"val", tree>>} |-> 1]

Bit(x, i) == (x \div 2^i) % 2
Flip(x) == IF x % 2 = 0 THEN x + 1 ELSE x - 1
DivCeil(a, b) == (a + b - 1) \div b
RoundUp(a, b) == DivCeil(a, b) * b
Log2Ceil(n) == CHOOSE d \in 0..n : 2^d >= n /\ \A e \in 0..n : 2^e >= n => d <= e

-----------------------------------------------------------------------------
(* Shapes.                                                                 *)

Dom == conf.domain
Depth == Log2Ceil(Dom)
Rem(tree) == Min({Batch, conf.count - tree})
Width(dom, d) == DivCeil(dom, 2^(Log2Ceil(dom) - d))

\* pprf::allocateExpandTree with reuseLevel: the levels alternate between
\* two buffers, <<first slot, number of slots>>.
TreeLeaves(dom) == IF dom > 2 THEN RoundUp((dom + 1) \div 2, 2) ELSE 1
LevelsUnrounded(dom) ==
  LET n == TreeLeaves(dom)
      depth == Log2Ceil(n)
      w(i) == DivCeil(n, 2^(depth - i))
  IN  [i \in 0..depth |->
         IF i = depth THEN <<DivCeil(n, 2), n>>
         ELSE IF (depth - 1 - i) % 2 = 0 THEN <<0, w(i)>> ELSE <<DivCeil(n, 2), w(i)>>]

Levels(dom) ==
  LET n == TreeLeaves(dom)
      depth == Log2Ceil(n)
      secondLast == RoundUp((n + 1) \div 2, 2)
      w(i) == LET x == DivCeil(n, 2^(depth - i)) IN IF x > 1 THEN RoundUp(x, 2) ELSE x
  IN  [i \in 0..depth |->
         IF i = depth THEN <<secondLast, n>>
         ELSE IF (depth - 1 - i) % 2 = 0 THEN <<0, w(i)>> ELSE <<secondLast, w(i)>>]

\* The validation at the head of both expands.
FormatOk == conf.format = "Interleaved" => conf.count % Batch = 0

\* Where leaf i of a tree lands: the output vector directly, or copyOut.
Place(tree, i) ==
  CASE conf.format = "ByLeafIndex" -> conf.count * i + tree
    [] conf.format = "ByTreeIndex" -> tree * Dom + i
    [] OTHER -> ((tree \div Batch) * Dom + i) * Batch + (tree % Batch)

\* getPoints.
GetPointNoBatch(j) ==
  IF conf.format \in {"Interleaved", "Callback"}
  THEN point[j] * Batch + (j % Batch)
  ELSE point[j]

GetPoint(j) ==
  IF conf.format \in {"Interleaved", "Callback"}
  THEN ((j \div Batch) * Dom + point[j]) * Batch + (j % Batch)
  ELSE point[j]

\* mBaseOTs: the sender holds both keys, the receiver the one it chose.
Key(tree, level, b) == {<<"ot", tree, level, b>>}
Chosen(tree, level) == Key(tree, level, Bit(point[tree], level))

-----------------------------------------------------------------------------
(* The sender's expandOne.                                                 *)

SenderLevels(tree) ==
  LET lv[d \in 0..(Depth - 1)] ==
        IF d = 0 THEN [i \in {0} |-> {<<"root", tree>>}]
        ELSE [i \in 0..(2 * Width(Dom, d - 1) - 1) |-> Child(i % 2, lv[d - 1][i \div 2])]
  IN  lv

LeafOf(lv, i) == Hash(i % 2, lv[Depth - 1][i \div 2])
Evens(S) == {i \in S : i % 2 = 0}
Side(S, k) == IF k = 0 THEN Evens(S) ELSE S \ Evens(S)

\* The two masked sums of a level of a tree.
EncSum(lv, tree, d) ==
  [k \in {0, 1} |->
     Xor(XorOf(Side(DOMAIN lv[d + 1], k), LAMBDA i : lv[d + 1][i]),
         Key(tree, Depth - 1 - d, 1 - k))]

\* The two OT strings of the leaf level.
LeafMsgSwapped(lv, tree, k) ==
  LET s(b) == SumOf(Side(0..(Dom - 1), b), LAMBDA i : LeafOf(lv, i))
  IN  [key |-> Key(tree, 0, 1 - k),
       str |-> IF conf.program
               THEN IF k = 1 THEN <<s(0), Plus(s(1), Val(tree))>>
                             ELSE <<Plus(s(0), Val(tree)), s(1)>>
               ELSE <<s(k)>>]

LeafMsg(lv, tree, k) ==
  LET s(b) == SumOf(Side(0..(Dom - 1), b), LAMBDA i : LeafOf(lv, i))
  IN  [key |-> Key(tree, 0, 1 - k),
       str |-> IF conf.program
               THEN IF k = 0 THEN <<s(0), Plus(s(1), Val(tree))>>
                             ELSE <<Plus(s(0), Val(tree)), s(1)>>
               ELSE <<s(k)>>]

\* One batch's part of the buffer: sums by level then tree, strings by tree.
Part(t0) ==
  LET n == Rem(t0)
      lv == [j \in 0..(n - 1) |-> SenderLevels(t0 + j)]
  IN  [sums |-> [x \in 1..((Depth - 1) * n) |->
                   EncSum(lv[(x - 1) % n], t0 + ((x - 1) % n), (x - 1) \div n)],
       leaf |-> [x \in 1..(2 * n) |->
                   LeafMsg(lv[(x - 1) \div 2], t0 + ((x - 1) \div 2), (x - 1) % 2)]]

-----------------------------------------------------------------------------
(* The receiver's expandOne, for tree j of the batch that starts at t0.    *)

Inactive(k) == Child(k, ZeroBlock)

\* Every node below the active path's parent is expanded, the missing one
\* too; its children were put into the sums beforehand and cancel.
NextLevelNoCancel(level, tree, d, their) ==
  LET S == 0..(2 * Width(Dom, d) - 1)
      raw == [i \in S |-> Child(i % 2, level[i \div 2])]
      missing == point[tree] \div 2^(Depth - 1 - d)
      notAi == Flip(missing) % 2
  IN  [raw EXCEPT ![Flip(missing)] =
                    Xor(Xor(their[notAi], XorOf(Side(S, notAi), LAMBDA i : raw[i])),
                        Chosen(tree, Depth - 1 - d)),
                  ![missing] = ZeroBlock]

NextLevel(level, tree, d, their) ==
  LET S == 0..(2 * Width(Dom, d) - 1)
      raw == [i \in S |-> Child(i % 2, level[i \div 2])]
      mySum(k) == Xor(Inactive(k), XorOf(Side(S, k), LAMBDA i : raw[i]))
      missing == point[tree] \div 2^(Depth - 1 - d)
      notAi == Flip(missing) % 2
  IN  [raw EXCEPT ![Flip(missing)] =
                    Xor(Xor(their[notAi], mySum(notAi)), Chosen(tree, Depth - 1 - d)),
                  ![missing] = ZeroBlock]

FirstLevel(tree, their) ==
  LET active == Bit(point[tree], Depth - 1)
  IN  [i \in {0, 1} |-> IF i = active THEN ZeroBlock
                        ELSE Xor(Chosen(tree, Depth - 1), their[1 - active])]

ReceiverLevel(tree, sums) ==
  LET lv[d \in 1..(Depth - 1)] ==
        IF d = 1 THEN FirstLevel(tree, sums[0])
                 ELSE NextLevel(lv[d - 1], tree, d - 1, sums[d - 1])
  IN  lv[Depth - 1]

\* A string that is opened with another key than it was masked with.
Garbage == [t \in {<<"garbage">>} |-> 1]
Decrypt(m, key) == IF m.key = key THEN m.str ELSE [x \in DOMAIN m.str |-> Garbage]

ReceiverLeaves(tree, part, j) ==
  LET n == Rem(tree - j)
      last == IF Depth > 1
              THEN ReceiverLevel(tree, [d \in 0..(Depth - 2) |-> part.sums[d * n + j + 1]])
              ELSE Zero
      own == [i \in 0..(Dom - 1) |-> IF Depth > 1 THEN Hash(i % 2, last[i \div 2]) ELSE Zero]
      sum(k) == IF Depth > 1
                THEN Minus(SumOf(Side(0..(Dom - 1), k), LAMBDA i : own[i]), Hash(k, ZeroBlock))
                ELSE Zero
      active == point[tree]
      notAi == Flip(active) % 2
      ots == Decrypt(part.leaf[2 * j + notAi + 1], Chosen(tree, 0))
      pair == IF conf.program
              THEN [k \in {0, 1} |-> Minus(ots[k + 1], sum(k))]
              ELSE [k \in {0, 1} |-> IF k = notAi THEN Minus(ots[1], sum(k)) ELSE Zero]
  IN  [i \in 0..(Dom - 1) |->
         IF i \div 2 = active \div 2 THEN pair[i % 2] ELSE own[i]]

-----------------------------------------------------------------------------
(* The two coroutines.                                                     *)

\* configure, setChoiceBits and setBase ran on both sides: a domain that is
\* odd or a point outside the domain was refused there.
InitAnyPoint ==
  /\ conf \in [domain : Domains, count : Counts, format : Formats, program : BOOLEAN,
               sEager : Eagers, rEager : Eagers, valuesOk : BOOLEAN]
  /\ point \in [0..(conf.count - 1) -> 0..(2^Depth - 1)]
  /\ sTree = 0 /\ rTree = 0
  /\ sPc = "start" /\ rPc = "start"
  /\ buff = [sums |-> <<>>, leaf |-> <<>>]
  /\ net = <<>> /\ closed = FALSE
  /\ sOut = <<>> /\ rOut = <<>>

Init ==
  /\ conf \in [domain : {d \in Domains : d >= 2 /\ d % 2 = 0}, count : Counts,
               format : Formats, program : BOOLEAN,
               sEager : Eagers, rEager : Eagers, valuesOk : BOOLEAN]
  /\ point \in [0..(conf.count - 1) -> 0..(conf.domain - 1)]
  /\ sTree = 0 /\ rTree = 0
  /\ sPc = "start" /\ rPc = "start"
  /\ buff = [sums |-> <<>>, leaf |-> <<>>]
  /\ net = <<>> /\ closed = FALSE
  /\ sOut = <<>> /\ rOut = <<>>

\* setValue, inside the try, then validateExpandFormat.
SenderStartLeavesOpen ==
  /\ sPc = "start"
  /\ sPc' = IF (conf.program => conf.valuesOk) /\ FormatOk THEN "expand" ELSE "throw"
  /\ UNCHANGED <<conf, point, sTree, rTree, rPc, buff, net, closed, sOut, rOut>>

SenderStart ==
  /\ sPc = "start"
  /\ IF (conf.program => conf.valuesOk) /\ FormatOk
     THEN sPc' = "expand" /\ UNCHANGED closed
     ELSE sPc' = "throw" /\ closed' = TRUE
  /\ UNCHANGED <<conf, point, sTree, rTree, rPc, buff, net, sOut, rOut>>

Join(a, b) == [sums |-> a.sums \o b.sums, leaf |-> a.leaf \o b.leaf]

Put(out, t0, leaves(_)) ==
  [x \in DOMAIN out \cup {Place(t0 + j, i) : j \in 0..(Rem(t0) - 1), i \in 0..(Dom - 1)} |->
     IF x \in DOMAIN out THEN out[x]
     ELSE LET p == CHOOSE p \in (0..(Rem(t0) - 1)) \X (0..(Dom - 1)) :
                     Place(t0 + p[1], p[2]) = x
          IN  leaves(t0 + p[1])[p[2]]]

SenderLeaves(tree) ==
  LET lv == SenderLevels(tree) IN [i \in 0..(Dom - 1) |-> LeafOf(lv, i)]

SenderExpand ==
  /\ sPc = "expand" /\ sTree < conf.count
  /\ LET part == Part(sTree) IN
     IF conf.sEager
     THEN IF closed
          THEN sPc' = "throw" /\ UNCHANGED <<buff, net, sTree, sOut>>
          ELSE /\ net' = Append(net, part)
               /\ sTree' = sTree + Batch
               /\ sOut' = Put(sOut, sTree, SenderLeaves)
               /\ UNCHANGED <<buff, sPc>>
     ELSE /\ buff' = Join(buff, part)
          /\ sTree' = sTree + Batch
          /\ sOut' = Put(sOut, sTree, SenderLeaves)
          /\ UNCHANGED <<net, sPc>>
  /\ UNCHANGED <<conf, point, rTree, rPc, closed, rOut>>

SenderEnd ==
  /\ sPc = "expand" /\ sTree >= conf.count
  /\ IF conf.sEager THEN sPc' = "done" /\ UNCHANGED net
     ELSE IF closed THEN sPc' = "throw" /\ UNCHANGED net
     ELSE sPc' = "done" /\ net' = Append(net, buff)
  /\ UNCHANGED <<conf, point, sTree, rTree, rPc, buff, closed, sOut, rOut>>

ReceiverStart ==
  /\ rPc = "start"
  /\ IF FormatOk THEN rPc' = "expand" /\ UNCHANGED closed
     ELSE rPc' = "throw" /\ closed' = TRUE
  /\ UNCHANGED <<conf, point, sTree, rTree, sPc, buff, net, sOut, rOut>>

\* recv(buff) into a buffer of the size this party computed; a message of
\* another size, or the end of the channel, throws and closes.
Receives == rTree < conf.count /\ (conf.rEager \/ rTree = 0)
Expected == IF conf.rEager THEN Rem(rTree) ELSE conf.count

\* The part of the message that belongs to the batch of rTree.
Slice(m) ==
  LET n == Rem(rTree)
      t0 == IF conf.rEager THEN 0 ELSE rTree
  IN  [sums |-> SubSeq(m.sums, (Depth - 1) * t0 + 1, (Depth - 1) * (t0 + n)),
       leaf |-> SubSeq(m.leaf, 2 * t0 + 1, 2 * (t0 + n))]

ReceiverExpandKeeps ==
  /\ rPc = "expand" /\ rTree < conf.count /\ net # <<>>
  /\ LET m == net[1] IN
     /\ Len(m.leaf) = 2 * Expected
     /\ rOut' = Put(rOut, rTree, LAMBDA t : ReceiverLeaves(t, Slice(m), t - rTree))
  /\ rTree' = rTree + Batch
  /\ UNCHANGED <<conf, point, sTree, sPc, rPc, buff, net, closed, sOut>>

ReceiverExpand ==
  /\ rPc = "expand" /\ rTree < conf.count /\ net # <<>>
  /\ LET m == net[1] IN
     /\ Len(m.leaf) = 2 * Expected
     /\ rOut' = Put(rOut, rTree, LAMBDA t : ReceiverLeaves(t, Slice(m), t - rTree))
     \* A large message is held until its last batch was expanded.
     /\ net' = IF conf.rEager \/ rTree + Batch >= conf.count THEN Tail(net) ELSE net
  /\ rTree' = rTree + Batch
  /\ UNCHANGED <<conf, point, sTree, sPc, rPc, buff, closed, sOut>>

ReceiverFails ==
  /\ rPc = "expand" /\ Receives
  /\ \/ net = <<>> /\ closed
     \/ net # <<>> /\ Len(net[1].leaf) # 2 * Expected
  /\ rPc' = "throw" /\ closed' = TRUE
  /\ UNCHANGED <<conf, point, sTree, rTree, sPc, buff, net, sOut, rOut>>

ReceiverEnd ==
  /\ rPc = "expand" /\ rTree >= conf.count
  /\ rPc' = "done"
  /\ UNCHANGED <<conf, point, sTree, rTree, sPc, buff, net, closed, sOut, rOut>>

Next == \/ SenderStart \/ SenderExpand \/ SenderEnd
        \/ ReceiverStart \/ ReceiverExpand \/ ReceiverFails \/ ReceiverEnd

Fairness == WF_vars(Next)
Spec == Init /\ [][Next]_vars /\ Fairness

-----------------------------------------------------------------------------
(* Properties.                                                             *)

TypeOK ==
  /\ sPc \in {"start", "expand", "done", "throw"}
  /\ rPc \in {"start", "expand", "done", "throw"}
  /\ sTree \in Nat /\ rTree \in Nat /\ closed \in BOOLEAN
  /\ \A j \in DOMAIN point : point[j] \in 0..(Dom - 1)

\* A receiver whose expand returned holds every leaf of the sender but the
\* punctured ones; those carry the programmed value added, or are zero.
\* (expandOne of both parties, RegularPprf.h: the masked sums, the children
\* of the missing node that cancel, the leaf strings.)
Punctured ==
  rPc = "done" => \A t \in 0..(conf.count - 1), i \in 0..(Dom - 1) :
     LET x == Place(t, i) IN
     rOut[x] = IF i # point[t] THEN sOut[x]
               ELSE IF conf.program THEN Plus(sOut[x], Val(t)) ELSE Zero

\* In the interleaved format the point the receiver reports is the position
\* of its one differing leaf in the output (getPoints against the placement
\* of the leaves).
PointsLocate ==
  (rPc = "done" /\ conf.format \in {"Interleaved", "Callback"}) =>
     \A x \in DOMAIN rOut :
        rOut[x] # sOut[x] <=> \E j \in DOMAIN point : GetPoint(j) = x

\* The receiver is never ahead of the sender: no batch is expanded from the
\* message of another one.
Behind == rTree <= sTree

\* The reused level buffers: parents and children never share a slot, every
\* child that is written has one, and there are mDepth levels
\* (allocateExpandTree and the loops of expandOne).
LevelsFit ==
  LET lv == Levels(Dom) IN
  /\ Cardinality(DOMAIN lv) = Depth
  /\ \A d \in 0..(Depth - 2) :
       /\ 2 * Width(Dom, d) <= lv[d + 1][2]
       /\ Width(Dom, d) <= lv[d][2]
       /\ \/ lv[d][1] + lv[d][2] <= lv[d + 1][1]
          \/ lv[d + 1][1] + lv[d + 1][2] <= lv[d][1]

\* Neither party is left waiting when the other one throws: each expand
\* returns or throws.
BothEnd == <>(sPc \in {"done", "throw"} /\ rPc \in {"done", "throw"})
=============================================================================
