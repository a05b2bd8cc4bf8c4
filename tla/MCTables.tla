------------------------------- MODULE MCTables -------------------------------
(* Punctured trees, point functions, a cuckoo table and its rows on small      *)
(* instances.  "part" says which of them a behaviour is about and never        *)
(* changes; the others stay idle.                                              *)
EXTENDS MCCuckoo

VARIABLES part,
    conf, point, sTree, rTree, sPc, rPc, buff, net, closed, sOut, rOut,
    eLoc, eBins, eStash, ePc, eLane, eAddr, eNext, eJ, eK,
    m, raw,
    dpf, st, wire

pprfVars == <<conf, point, sTree, rTree, sPc, rPc, buff, net, closed, sOut, rOut>>
evictingVars == <<eLoc, eBins, eStash, ePc, eLane, eAddr, eNext, eJ, eK>>
cuckooVars == <<vars, evictingVars>>
rowVars == <<m, raw>>
dpfVars == <<dpf, st, wire>>
suiteVars == <<part, pprfVars, cuckooVars, rowVars, dpfVars>>

PprfIdle == conf = 0 /\ point = 0 /\ sTree = 0 /\ rTree = 0 /\ sPc = 0 /\ rPc = 0 /\ buff = 0
            /\ net = 0 /\ closed = 0 /\ sOut = 0 /\ rOut = 0
TableIdle == loc = [i \in Items |-> Row(0, 1, 2)] /\ Init
EvictingIdle == eLoc = 0 /\ eBins = 0 /\ eStash = 0 /\ ePc = 0 /\ eLane = 0 /\ eAddr = 0
                /\ eNext = 0 /\ eJ = 0 /\ eK = 0
CuckooIdle == TableIdle /\ EvictingIdle
RowIdle == m = 0 /\ raw = 0
DpfIdle == dpf = 0 /\ st = 0 /\ wire = 0

\* Trees: several batches and formats, every width, and an abort on one side.
Trees == INSTANCE Pprf WITH
    Batch <- 2, Domains <- {2, 4}, Counts <- {3},
    Formats <- {"ByLeafIndex", "Interleaved", "Callback"}, Eagers <- BOOLEAN
Widths == INSTANCE Pprf WITH
    Batch <- 2, Domains <- {2, 4, 6, 8, 10, 12, 14, 18, 20}, Counts <- {1},
    Formats <- {"ByTreeIndex"}, Eagers <- BOOLEAN
Aborts == INSTANCE Pprf WITH
    Batch <- 2, Domains <- {2}, Counts <- {2, 3, 4},
    Formats <- {"ByTreeIndex", "Interleaved"}, Eagers <- BOOLEAN

\* A row of two bins.
Row2(a, b) == [h \in 0 .. 1 |-> IF h = 0 THEN a ELSE b]

\* A table in which two threads evict each other and meet in the stash.
Evicting == INSTANCE CuckooIndex WITH
    loc <- eLoc, bins <- eBins, stash <- eStash, pc <- ePc, lane <- eLane, addr <- eAddr,
    next <- eNext, j <- eJ, k <- eK,
    Work <- <<<<0, 1>>, <<2, 3>>>>, NumBins <- 3, NumHashes <- 2, StashSize <- 1,
    Rows <- {Row2(0, 1), Row2(0, 2), Row2(1, 2)}, Batch <- 2, Limit <- 2
ASSUME EvictingGiven == Evicting!Given
RowCode == INSTANCE CuckooRow WITH Sizes <- 2 .. 5, Weights <- 1 .. 3

\* Distributed point functions over full domains and over lists of points.
Dpfs == INSTANCE RegularDpf WITH
    conf <- dpf, net <- wire, Width <- 3, Domains <- {2, 3, 5}, Counts <- {1, 2},
    Coins <- {4}, Repeats <- {"once", "spent", "fresh", "unset"}
Lists(domain, dense, a, b) ==
    [domain |-> domain, dense |-> dense, sets |-> [r \in 0 .. 1 |-> IF r = 0 THEN a ELSE b]]
List(domain, dense, a) == [domain |-> domain, dense |-> dense, sets |-> [r \in 0 .. 0 |-> a]]
Sparse == INSTANCE SparseDpf WITH
    conf <- dpf, net <- wire, Width <- 3, Coins <- {1}, Outside <- TRUE,
    Cases <- {Lists(8, 0, {0, 1, 5, 6}, {2, 3}), Lists(8, 1, {0, 2, 3, 7}, {1, 4, 5}),
              Lists(7, 2, {0, 1, 4, 6}, {2, 5}), List(6, 3, {0, 3, 5}), List(8, 0, {4}),
              List(5, 9, {1, 4}), List(8, 1, {0, 1, 3, 4, 5, 6, 7})}

SuiteInit ==
    \/ part = "trees" /\ Trees!Init /\ CuckooIdle /\ RowIdle /\ DpfIdle
    \/ part = "widths" /\ Widths!Init /\ CuckooIdle /\ RowIdle /\ DpfIdle
    \/ part = "aborts" /\ Aborts!Init /\ CuckooIdle /\ RowIdle /\ DpfIdle
    \/ part = "table" /\ Init /\ PprfIdle /\ EvictingIdle /\ RowIdle /\ DpfIdle
    \/ part = "evicting" /\ Evicting!Init /\ TableIdle /\ PprfIdle /\ RowIdle /\ DpfIdle
    \/ part = "rows" /\ RowCode!Init /\ PprfIdle /\ CuckooIdle /\ DpfIdle
    \/ part = "dpf" /\ Dpfs!Init /\ PprfIdle /\ CuckooIdle /\ RowIdle
    \/ part = "sparse" /\ Sparse!Init /\ PprfIdle /\ CuckooIdle /\ RowIdle

PprfStep(p, A) == part = p /\ A /\ UNCHANGED <<part, cuckooVars, rowVars, dpfVars>>
\* The table of "table" is followed as long as no two threads choose one stash slot.
TableStep == /\ part = "table" /\ Next /\ NoClash'
             /\ UNCHANGED <<part, pprfVars, evictingVars, rowVars, dpfVars>>
EvictingStep(A) == part = "evicting" /\ A /\ UNCHANGED <<part, pprfVars, vars, rowVars, dpfVars>>
RowStep(A) == part = "rows" /\ A /\ UNCHANGED <<part, pprfVars, cuckooVars, dpfVars>>
DpfStep(p, A) == part = p /\ A /\ UNCHANGED <<part, pprfVars, cuckooVars, rowVars>>

SuiteNext ==
    \/ PprfStep("trees", Trees!Next)
    \/ PprfStep("widths", Widths!Next)
    \/ PprfStep("aborts", Aborts!Next)
    \/ TableStep
    \/ EvictingStep(Evicting!Next)
    \/ RowStep(RowCode!Next)
    \/ DpfStep("dpf", Dpfs!Next)
    \/ DpfStep("sparse", Sparse!Next)

\* A party that can go on does, and every thread of the table is scheduled.
Fairness ==
    /\ WF_suiteVars(PprfStep("aborts", Aborts!Next))
    /\ \A t \in 1 .. 2 : WF_suiteVars(EvictingStep(Evicting!Step(t)))

SuiteSpec == SuiteInit /\ [][SuiteNext]_suiteVars /\ Fairness

-------------------------------------------------------------------------------
\* Counters and buffers stay within their sizes.
TreeTypes == part = "widths" => Widths!TypeOK

\* A receiver whose expand returned holds every leaf of the sender but the
\* punctured ones; those carry the programmed value added, or are zero.
Punctured ==
    /\ part = "trees" => Trees!Punctured
    /\ part = "widths" => Widths!Punctured
    /\ part = "aborts" => Aborts!Punctured

\* In the interleaved format the point the receiver reports is the position
\* of its one differing leaf in the output.
PointsLocate ==
    /\ part = "trees" => Trees!PointsLocate
    /\ part = "aborts" => Aborts!PointsLocate

\* No batch of trees is expanded from the message of another one.
Behind ==
    /\ part = "trees" => Trees!Behind
    /\ part = "aborts" => Aborts!Behind

\* The reused level buffers: parents and children never share a slot, and
\* every child has one.
LevelsFit == part = "widths" => Widths!LevelsFit

\* Whichever party throws, the other one's expand also ends.
ExpandEnds ==
    <>(part # "aborts" \/ (sPc \in {"done", "throw"} /\ rPc \in {"done", "throw"}))

\* Every insert returns or throws: the walk through the table is bounded.
EvictingEnds ==
    \A t \in 1 .. 2 : <>(part # "evicting" \/ ePc[t] \in {"done", "throw"})

\* The bins of a row are distinct and exist.
RowDistinct == part = "rows" => RowCode!RowDistinct

\* The vector code and the scalar code name the same bins.
RowsAgree == part = "rows" => RowCode!RowsAgree

\* No row is favoured.
RowsUniform == part = "rows" => RowCode!RowsUniform

\* The outputs of two parties share a point function, level by level with one
\* active node, and the keys of both generations are the same.
PointFunctions ==
    part = "dpf" => /\ Dpfs!PointShared /\ Dpfs!OnePathActive /\ Dpfs!KeysAgree
                    /\ Dpfs!PairsOnce /\ Dpfs!ThrowReason /\ Dpfs!EndTogether

\* So they do over a list of points, whatever levels the lists leave out.
PointLists ==
    part = "sparse" => /\ Sparse!SparseShared /\ Sparse!OutsideOneLeaf /\ Sparse!LevelsAgree
                       /\ Sparse!EndTogether

\* What the repository's test asks of the outputs of a list.
SparseOutputs == part = "sparse" => Sparse!SparseOutputs

-------------------------------------------------------------------------------
\* The two sides of the puncturable PRF hold the same trees but for one leaf each,
\* found at the reported point, through reused buffers and batched messages; those
\* of a distributed point function share the value at the point and zero elsewhere.
TreesPunctured ==
    TreeTypes /\ Punctured /\ PointsLocate /\ Behind /\ LevelsFit /\ PointFunctions /\ PointLists

\* Bins of items and words in bins: the bins of a row are distinct, the same in both
\* implementations and none is favoured; also where two threads choose the same stash
\* slot, no item is at two places, every word is at home and no thread gives up before
\* the stash is full.
BinsRight ==
    /\ RowDistinct /\ RowsAgree /\ RowsUniform
    /\ part = "evicting" => Evicting!TableSafe

\* Expansion and insertion end.
CallsEnd == ExpandEnds /\ EvictingEnds
===============================================================================
