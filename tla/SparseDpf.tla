------------------------------ MODULE SparseDpf ------------------------------
(***************************************************************************)
(* SparseDpf (libOTe/Dpf/SparseDpf.h): a distributed point function whose   *)
(* leaves are a sorted list of points of a large domain.  The upper bits    *)
(* are walked by a RegularDpf; below each of its leaves, the points that    *)
(* fall there form a tree without the levels at which they do not differ.   *)
(* A span of the sorted list is the set of its points here.                 *)
(***************************************************************************)
EXTENDS Integers, Sequences, FiniteSets, FiniteSetsExt

CONSTANTS
  Width,    \* bits of a block
  Cases,    \* what the callers ask for: [domain, dense, sets], a set per tree
  Coins,    \* candidate sources of randomness
  Outside   \* whether the shared point may be missing from the list

VARIABLES
  conf,     \* what both callers agreed on
  st,       \* party -> its trees and its call
  net       \* party -> messages on the way to it

vars == <<conf, st, net>>

Reg == INSTANCE RegularDpf WITH Domains <- {}, Counts <- {}, Coins <- {}, Repeats <- {},
                                conf <- 0, st <- 0, net <- 0
Party == 0 .. 1
Xor(a, b) == Reg!Xor(a, b)
Masked(bit, b) == b \cap Reg!AllSame(bit)
Plus2(a, b) == (a + b) % 2

\* hashBlock(seed), hashBlock(seed ^ OneBlock): the children of a node.
ChildSeed(j, seed) == Reg!HashOf(0, Xor(seed, IF j = 1 THEN {0} ELSE {}))

-----------------------------------------------------------------------------
(* partition: the highest bit below "upper" at which the points differ      *)
(* parts them; a single point is a leaf, at level 0.                        *)

BitSet(S, i) == {q \in S : Reg!Bit(q, i) = 1}
Parting(S, upper) == {i \in 0 .. upper - 1 : BitSet(S, i) # {} /\ BitSet(S, i) # S}
Level(S, upper) == IF Cardinality(S) = 1 THEN 0 ELSE 1 + Max(Parting(S, upper))
Half(S, upper, j) ==
  IF Cardinality(S) = 1 THEN (IF j = 0 THEN S ELSE {})
  ELSE LET i == Max(Parting(S, upper)) IN IF j = 1 THEN BitSet(S, i) ELSE S \ BitSet(S, i)

\* The halves of S as nodes: where each is parted again, which child of which
\* level it is, with the seed given to it and the tag its parent hands down.
Halves(r, S, upper, seed(_), tag) ==
  {[r |-> r, level |-> Level(Half(S, upper, j), Level(S, upper)), part |-> Half(S, upper, j),
    child |-> j, parent |-> Level(S, upper), seed |-> seed(j), tag |-> tag] : j \in 0 .. 1}

-----------------------------------------------------------------------------
(* The two callers.                                                        *)

Trees == Cardinality(DOMAIN conf.sets)
T == 0 .. Trees - 1
DenseDepth == conf.dense
Depth == conf.depth
BaseOtCount == (DenseDepth + Depth) * Trees
Bin(q) == q \div 2 ^ Depth
InBin(r, b) == {q \in conf.sets[r] : Bin(q) = b}
Bins(r) == {Bin(q) : q \in conf.sets[r]}

AlphaBit(p, r, d) ==
  LET mask == Reg!Bit(conf.mask, d - 1)
  IN  IF p = 0 THEN mask ELSE Plus2(mask, Reg!Bit(conf.alpha[r], d - 1))
Value(r) == Reg!Draw(conf.coin + 1, r + 9)
ValueShare(p, r) == LET share == Reg!Draw(conf.coin, r + 11)
                    IN  IF p = 0 THEN share ELSE Xor(share, Value(r))
Fresh(p, r, i) == Reg!Draw(conf.coin + 3 * p, 5 * r + i)

\* The dense part: mRegDpf.expand of the upper bits, without values, as the key
\* both parties would agree on and its evaluation.
DenseKey(p) ==
  Reg!StaticKey(p, [q \in Party |-> conf.coin + 2 * q],
    [r \in T |-> conf.alpha[r] \div 2 ^ Depth], [r \in T |-> {}], 2 ^ DenseDepth)
Dense(p) == Reg!Let(DenseKey(p), LAMBDA key :
              Reg!Evaluated(p, [key EXCEPT !.leafs = <<>>], 2 ^ DenseDepth, Trees))

\* setBaseOts gives the first pairs to the dense part.
MyTriple(p, r) == Reg!Triple(conf.coin, p, 1, DenseDepth * Trees + st[p].ot + r)

\* init: no more dense levels than the domain has.
Denser(c) == Min({c.dense, Reg!Log2Ceil(c.domain)})
Idle == [pc |-> "called", d |-> 0, dense |-> <<>>, nodes |-> {}, leaf |-> <<>>, z |-> <<>>, used |-> {},
         sigma |-> <<>>, tau |-> <<>>, sent |-> <<>>, ot |-> 0, out |-> <<>>]
Init ==
  /\ conf \in UNION {
       {[domain |-> c.domain, dense |-> Denser(c), depth |-> Reg!Log2Ceil(c.domain) - Denser(c),
          sets |-> c.sets, coin |-> coin,
         mask |-> mask, alpha |-> alpha] :
          alpha \in {a \in [DOMAIN c.sets -> 0 .. c.domain - 1] :
                       Outside \/ \A r \in DOMAIN c.sets : a[r] \in c.sets[r]}} :
       c \in Cases, coin \in Coins, mask \in {2, 5}}
  /\ st = [p \in Party |-> Idle]
  /\ net = [p \in Party |-> <<>>]

Goto(p, r) == st' = [st EXCEPT ![p] = r]
Has(p) == net[p] # <<>>
Take(p) == net' = [net EXCEPT ![p] = Tail(@)]
Exchange(p, m) == net' = [net EXCEPT ![1 - p] = Append(@, m), ![p] = Tail(@)]
Send(p, m) == net' = [net EXCEPT ![1 - p] = Append(@, m)]

\* The sums of the children seeds of every level, grown by those of some nodes.
Summed(z, nodes) ==
  [rdj \in DOMAIN z |->
     FoldSet(LAMBDA v, acc : Xor(v.seed, acc), z[rdj],
             {v \in nodes : <<v.r, v.parent, v.child>> = rdj})]
NoSums == [rdj \in T \X (1 .. Depth) \X (0 .. 1) |-> {}]

\* The roots, below the leaves of the dense part.  A lone point of a bin is done.
DenseRoots(p) ==
  LET dense == st[p].dense
      many == {rb \in T \X (0 .. 2 ^ DenseDepth - 1) : Cardinality(InBin(rb[1], rb[2])) > 1}
      nodes == UNION {Halves(rb[1], InBin(rb[1], rb[2]), Depth,
                             LAMBDA j : ChildSeed(j, dense[<<rb[2], rb[1]>>].v),
                             dense[<<rb[2], rb[1]>>].t) : rb \in many}
      lone == {rq \in T \X (0 .. conf.domain - 1) : InBin(rq[1], Bin(rq[2])) = {rq[2]}}
  IN  [st[p] EXCEPT !.nodes = nodes, !.z = Summed(NoSums, nodes),
         !.used = {<<v.r, v.parent>> : v \in nodes},
         !.leaf = [rq \in lone |-> [v |-> dense[<<Bin(rq[2]), rq[1]>>].v,
                                    t |-> dense[<<Bin(rq[2]), rq[1]>>].t]]]
DenseExpand(p) ==
  /\ st[p].pc = "called" /\ DenseDepth > 0
  /\ Goto(p, [st[p] EXCEPT !.pc = "dense", !.dense = Dense(p)])
  /\ UNCHANGED <<conf, net>>
BeginDense(p) ==
  /\ st[p].pc = "dense"
  /\ Goto(p, [DenseRoots(p) EXCEPT !.d = Depth, !.pc = IF Depth = 0 THEN "leaves" ELSE "level"])
  /\ UNCHANGED <<conf, net>>
\* Without a dense part there is one root, of two random children.  A list of one
\* point has no second child to part: the search for a bit does not end.
BeginSparse(p) ==
  /\ st[p].pc = "called" /\ DenseDepth = 0
  /\ IF \E r \in T : Cardinality(conf.sets[r]) = 1
     THEN Goto(p, [st[p] EXCEPT !.pc = "endless"])
     ELSE LET nodes == UNION {Halves(r, conf.sets[r], Depth, LAMBDA j : Fresh(p, r, j), p) : r \in T}
          IN  Goto(p, [st[p] EXCEPT !.pc = "level", !.d = Depth, !.nodes = nodes,
                         !.z = Summed(NoSums, nodes),
                         !.used = {<<v.r, v.parent>> : v \in nodes}])
  /\ UNCHANGED <<conf, net>>

\* A level no tree parts at is skipped; a tree that does not use a level another
\* one uses takes part with random sums.
UsedLevel(p) == \E r \in T : <<r, st[p].d>> \in st[p].used
Sums(p, j) == [r \in T |-> st[p].z[<<r, st[p].d, j>>]]
Padded(p) ==
  [rdj \in DOMAIN st[p].z |->
     IF rdj[2] = st[p].d /\ <<rdj[1], rdj[2]>> \notin st[p].used
     THEN Fresh(p, rdj[1], 7 + 2 * rdj[2] + rdj[3]) ELSE st[p].z[rdj]]
BeginLevel(p) ==
  /\ st[p].pc = "level"
  /\ IF UsedLevel(p)
     THEN /\ Goto(p, [st[p] EXCEPT !.pc = "left", !.z = Padded(p)])
          /\ Send(p, [r \in T |-> Padded(p)[<<r, st[p].d, 0>>]])
     ELSE Goto(p, [st[p] EXCEPT !.pc = "grow", !.z = Padded(p)]) /\ UNCHANGED net
  /\ UNCHANGED conf
\* reveal(z0) and reveal(z1): what they return is not used.
RevealLeft(p) ==
  /\ st[p].pc = "left" /\ Has(p)
  /\ Goto(p, [st[p] EXCEPT !.pc = "right"])
  /\ Exchange(p, Sums(p, 1))
  /\ UNCHANGED conf
RevealRight(p) ==
  /\ st[p].pc = "right" /\ Has(p)
  /\ IF st[p].ot + Trees > Depth * Trees
     THEN Goto(p, [st[p] EXCEPT !.pc = "throw"]) /\ Take(p)
     ELSE LET m == [r \in T |-> Reg!Opened(MyTriple(p, r), Plus2(AlphaBit(p, r, st[p].d), p),
                                           Xor(Sums(p, 0)[r], Sums(p, 1)[r]))]
          IN  Goto(p, [st[p] EXCEPT !.pc = "multiply", !.sent = m]) /\ Exchange(p, m)
  /\ UNCHANGED conf
Tau(p, r, j) ==
  LET bit == Plus2(Reg!Lsb(Sums(p, j)[r]), AlphaBit(p, r, st[p].d))
  IN  IF j = 0 THEN Plus2(bit, p) ELSE bit
MultiplyRecv(p) ==
  /\ st[p].pc = "multiply" /\ Has(p)
  /\ LET m == [r \in T |->
                [sigma |-> Xor(Reg!Product(p, MyTriple(p, r), st[p].sent[r], Head(net[p])[r]),
                               Sums(p, 0)[r]),
                 tau |-> <<Tau(p, r, 0), Tau(p, r, 1)>>]]
     IN  Goto(p, [st[p] EXCEPT !.pc = "open", !.sent = m, !.ot = @ + Trees]) /\ Exchange(p, m)
  /\ UNCHANGED conf
With(f, keys, value(_)) == [c \in DOMAIN f \cup keys |-> IF c \in keys THEN value(c) ELSE f[c]]
Open(p) ==
  /\ st[p].pc = "open" /\ Has(p)
  /\ LET mine == st[p].sent
         theirs == Head(net[p])
         here == T \X {st[p].d}
     IN  Goto(p, [st[p] EXCEPT !.pc = "grow",
            !.sigma = With(@, here, LAMBDA c : Xor(mine[c[1]].sigma, theirs[c[1]].sigma)),
            !.tau = With(@, here, LAMBDA c : [j \in 0 .. 1 |->
                          Plus2(mine[c[1]].tau[j + 1], theirs[c[1]].tau[j + 1])])])
  /\ Take(p)
  /\ UNCHANGED conf

\* A node takes its parent's correction, when its tag says so.
FixedTag(p, v) == Plus2(Reg!Lsb(v.seed), v.tag * st[p].tau[<<v.r, v.parent>>][v.child])
FixedSeed(p, v) == Xor(v.seed, Masked(v.tag, st[p].sigma[<<v.r, v.parent>>]))
Grow(p) ==
  /\ st[p].pc = "grow"
  /\ LET d == st[p].d - 1
         here == {v \in st[p].nodes : v.level = d}
         more == UNION {Halves(v.r, v.part, d, LAMBDA j : ChildSeed(j, FixedSeed(p, v)),
                               FixedTag(p, v)) : v \in here}
     IN  IF d = 0 THEN Goto(p, [st[p] EXCEPT !.pc = "leaves"])
         ELSE Goto(p, [st[p] EXCEPT !.pc = "level", !.d = d, !.nodes = @ \cup more,
                         !.z = Summed(@, more), !.used = @ \cup {<<v.r, d>> : v \in here}])
  /\ UNCHANGED <<conf, net>>

\* The leaves, and gamma: the value and the sum of the leaves of the tree, those
\* of lone points not among them.
Leaves(p) ==
  LET of(rq) == CHOOSE v \in st[p].nodes : v.level = 0 /\ v.r = rq[1] /\ v.part = {rq[2]}
  IN  With(st[p].leaf, {<<v.r, CHOOSE q \in v.part : TRUE>> : v \in {w \in st[p].nodes : w.level = 0}},
           LAMBDA rq : [v |-> FixedSeed(p, of(rq)), t |-> FixedTag(p, of(rq))])
SendGamma(p) ==
  /\ st[p].pc = "leaves"
  /\ LET leaf == Leaves(p)
         gamma == [r \in T |-> FoldSet(LAMBDA rq, acc : Xor(leaf[rq].v, acc), ValueShare(p, r),
                                 {rq \in DOMAIN leaf \ DOMAIN st[p].leaf : rq[1] = r})]
     IN  Goto(p, [st[p] EXCEPT !.pc = "gamma", !.leaf = leaf, !.sent = gamma]) /\ Send(p, gamma)
  /\ UNCHANGED conf
Finish(p) ==
  /\ st[p].pc = "gamma" /\ Has(p)
  /\ LET gamma == [r \in T |-> Xor(st[p].sent[r], Head(net[p])[r])]
     IN  Goto(p, [st[p] EXCEPT !.pc = "done",
            !.out = [rq \in DOMAIN st[p].leaf |->
                       [v |-> Xor(st[p].leaf[rq].v, Masked(st[p].leaf[rq].t, gamma[rq[1]])),
                        t |-> st[p].leaf[rq].t]]])
  /\ Take(p)
  /\ UNCHANGED conf

Step(p) ==
  \/ DenseExpand(p) \/ BeginDense(p) \/ BeginSparse(p) \/ BeginLevel(p) \/ RevealLeft(p) \/ RevealRight(p)
  \/ MultiplyRecv(p) \/ Open(p) \/ Grow(p) \/ SendGamma(p) \/ Finish(p)
Next == \E p \in Party : Step(p)
Spec == Init /\ [][Next]_vars

-----------------------------------------------------------------------------
Both(pc) == \A p \in Party : st[p].pc = pc
ValueAt(rq) == Xor(st[0].out[rq].v, st[1].out[rq].v)
TagAt(rq) == Plus2(st[0].out[rq].t, st[1].out[rq].t)
Listed == {rq \in T \X (0 .. conf.domain - 1) : rq[2] \in conf.sets[rq[1]]}
Lone(r) == DenseDepth > 0 /\ InBin(r, Bin(conf.alpha[r])) = {conf.alpha[r]}

\* Every listed point gets one leaf; the tags differ at the shared point alone,
\* elsewhere the values cancel, and there they sum to the value, unless the point
\* is alone below its dense leaf: then the sum of the dense seeds is added.
SparseShared ==
  Both("done") =>
    /\ \A p \in Party : DOMAIN st[p].out = Listed
    /\ \A rq \in Listed :
         LET r == rq[1]
             here == rq[2] = conf.alpha[r]
         IN  conf.alpha[r] \in conf.sets[r] =>
               /\ TagAt(rq) = IF here THEN 1 ELSE 0
               /\ ~ here => ValueAt(rq) = {}
               /\ here => ValueAt(rq) =
                    IF Lone(r) THEN Xor(Value(r), Xor(st[0].dense[<<Bin(rq[2]), r>>].v,
                                                      st[1].dense[<<Bin(rq[2]), r>>].v))
                    ELSE Value(r)

\* A point that is not listed makes at most one leaf active, and no other one
\* gets a value.
OutsideOneLeaf ==
  Both("done") => \A r \in T : conf.alpha[r] \notin conf.sets[r] =>
    LET active == {rq \in Listed : rq[1] = r /\ TagAt(rq) = 1}
    IN  /\ Cardinality(active) <= 1
        /\ \A rq \in Listed \ active : rq[1] = r => ValueAt(rq) = {}

\* The two sides skip the same levels, and the pairs of OTs they were given for
\* the tree levels suffice, whichever levels the lists use.
LevelsAgree ==
  /\ \A p \in Party : st[p].ot <= BaseOtCount - DenseDepth * Trees /\ st[p].pc # "throw"
  /\ st[0].d = st[1].d /\ st[0].pc = st[1].pc => st[0].ot = st[1].ot

\* What the repository's test asks of every output: the value at the point, zero
\* elsewhere.
SparseOutputs ==
  Both("done") => \A rq \in Listed : conf.alpha[rq[1]] \in conf.sets[rq[1]] =>
    ValueAt(rq) = IF rq[2] = conf.alpha[rq[1]] THEN Value(rq[1]) ELSE {}

\* When neither side can go on, both are done, unless a list of a single point
\* keeps them searching: skipped levels leave nobody waiting.
AtRest(p) ==
  \/ st[p].pc \in {"left", "right", "multiply", "open", "gamma"} /\ ~ Has(p)
  \/ st[p].pc \in {"done", "throw", "endless"}
EndTogether == (\A p \in Party : AtRest(p)) => Both("done") \/ Both("endless")
=============================================================================
