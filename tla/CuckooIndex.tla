---------------------------- MODULE CuckooIndex ----------------------------
(***************************************************************************)
(* CuckooIndex<ThreadSafe> (cryptoTools/Common/CuckooIndex): threads that  *)
(* insert disjoint ranges of item indices into one table of bins and a     *)
(* stash. A bin is one atomic word, the item's index and the number of the *)
(* hash function that put it there; what a thread does between two         *)
(* exchanges is its own.                                                   *)
(***************************************************************************)
EXTENDS Integers, Sequences, FiniteSets

CONSTANTS
  Work,      \* thread -> the sequence of item indices of its insert
  NumBins,
  Rows,      \* candidate rows of mLocations, each of NumHashes bins
  NumHashes,
  StashSize,
  Batch,     \* CUCKOO_BATCH_SIZE
  Limit      \* mReinsertLimit

Threads == DOMAIN Work
Items == UNION {{Work[t][i] : i \in DOMAIN Work[t]} : t \in Threads}

RowsAssumption ==
  \A r \in Rows : DOMAIN r = 0..(NumHashes - 1) /\ \A j \in DOMAIN r : r[j] \in 0..(NumBins - 1)
WorkAssumption ==
  \A t, u \in Threads : \A i \in DOMAIN Work[t], j \in DOMAIN Work[u] :
     Work[t][i] = Work[u][j] => t = u /\ i = j
\* What the constructor and the callers' spans give; a hash number is one byte of a word.
SizesAssumption ==
  /\ NumBins \in Nat /\ NumHashes \in 1..256 /\ StashSize \in Nat
  /\ Batch \in Nat \ {0} /\ Limit \in Nat
  /\ \A t \in Threads : Work[t] \in Seq(Nat)
Given == RowsAssumption /\ WorkAssumption /\ SizesAssumption

VARIABLES
  loc,    \* mLocations
  bins, stash,
  pc,     \* thread -> where it is in probeInsert and insertOne
  lane,   \* thread -> lane -> [idx, hash, tries]
  addr,   \* thread -> the curAddrs fetched for a round of lanes
  next,   \* thread -> i of probeInsert: items taken so far
  j, k    \* thread -> current lane, current stash slot

vars == <<loc, bins, stash, pc, lane, addr, next, j, k>>

-----------------------------------------------------------------------------

Null == -1
NoEntry == [idx |-> Null, hash |-> 255]
Entry == [idx : Items, hash : 0..(NumHashes - 1)] \cup {NoEntry}
Lane == [idx : Items \cup {Null}, hash : 0..255, tries : 0..Limit]

getHash(idx, h) == loc[idx][h]
Taken(t, n) == [idx |-> Work[t][n], hash |-> 0, tries |-> 0]
NoLane == [idx |-> Null, hash |-> 0, tries |-> 0]

\* The lanes that probeInsert fills before its first round.
FirstLanes(t) == [l \in 1..Batch |-> IF l <= Len(Work[t]) THEN Taken(t, l) ELSE NoLane]

\* The parallel loop runs for three hashes, while a whole batch is left.
Rounds(t, n) ==
  NumHashes = 3 /\ Len(Work[t]) > Batch /\ n < Len(Work[t]) - Batch

\* Bin::swap leaves the old word in the caller's variables.
Evicted(l, old) == [idx |-> old.idx, hash |-> old.hash, tries |-> l.tries]
WordNextHash(l) == [idx |-> l.idx, hash |-> (l.hash + 1) % NumHashes]
Word(l) == [idx |-> l.idx, hash |-> l.hash]
RehashedUncounted(l) == [idx |-> l.idx, hash |-> (l.hash + 1) % NumHashes, tries |-> 0]
Rehashed(l) == [idx |-> l.idx, hash |-> (l.hash + 1) % NumHashes, tries |-> l.tries + 1]

-----------------------------------------------------------------------------

EmptyStashLong == [s \in 0..StashSize |-> NoEntry]
EmptyStash == [s \in 0..(StashSize - 1) |-> NoEntry]

Init ==
  /\ loc \in [Items -> Rows]
  /\ bins = [b \in 0..(NumBins - 1) |-> NoEntry]
  /\ stash = EmptyStash
  /\ pc = [t \in Threads |-> "probe"]
  /\ lane = [t \in Threads |-> FirstLanes(t)]
  /\ addr = [t \in Threads |-> [l \in 1..Batch |-> 0]]
  /\ next = [t \in Threads |-> IF Len(Work[t]) < Batch THEN Len(Work[t]) ELSE Batch]
  /\ j = [t \in Threads |-> 1]
  /\ k = [t \in Threads |-> 0]

Goto(t, where) == pc' = [pc EXCEPT ![t] = where]

\* The head of the while loop: fetch all addresses, or leave for insertOne.
\* (The loop runs only with all lanes full.)
Probe(t) ==
  /\ pc[t] = "probe"
  /\ j' = [j EXCEPT ![t] = 1]
  /\ IF Rounds(t, next[t])
     THEN /\ addr' = [addr EXCEPT ![t] =
                        [l \in 1..Batch |-> getHash(lane[t][l].idx, lane[t][l].hash)]]
          /\ Goto(t, "swap")
     ELSE UNCHANGED addr /\ Goto(t, "drain")
  /\ UNCHANGED <<loc, bins, stash, lane, next, k>>

\* One exchange of the round.
LaneSwapLost(t) ==
  /\ pc[t] = "swap"
  /\ bins' = [bins EXCEPT ![addr[t][j[t]]] = Word(lane[t][j[t]])]
  /\ lane' = [lane EXCEPT ![t][j[t]].idx = Null]
  /\ j' = [j EXCEPT ![t] = IF j[t] = Batch THEN 1 ELSE j[t] + 1]
  /\ Goto(t, IF j[t] = Batch THEN "settle" ELSE "swap")
  /\ UNCHANGED <<loc, stash, addr, next, k>>

LaneSwap(t) ==
  /\ pc[t] = "swap"
  /\ LET l == lane[t][j[t]]
         b == addr[t][j[t]]
     IN  /\ bins' = [bins EXCEPT ![b] = Word(l)]
         /\ lane' = [lane EXCEPT ![t][j[t]] = Evicted(l, bins[b])]
  /\ j' = [j EXCEPT ![t] = IF j[t] = Batch THEN 1 ELSE j[t] + 1]
  /\ Goto(t, IF j[t] = Batch THEN "settle" ELSE "swap")
  /\ UNCHANGED <<loc, stash, addr, next, k>>

NextLane(t) ==
  /\ j' = [j EXCEPT ![t] = IF j[t] = Batch THEN 1 ELSE j[t] + 1]
  /\ Goto(t, IF j[t] = Batch THEN "probe" ELSE "settle")

Refill(t) ==
  /\ lane' = [lane EXCEPT ![t][j[t]] = Taken(t, next[t] + 1)]
  /\ next' = [next EXCEPT ![t] = @ + 1]

\* After the exchanges: a free lane takes the next item, an evicted item
\* its next hash, and one that was moved too often goes to the stash.
Settle(t) ==
  /\ pc[t] = "settle"
  /\ LET l == lane[t][j[t]] IN
     \/ l.idx = Null /\ Refill(t) /\ NextLane(t) /\ UNCHANGED k
     \/ /\ l.idx # Null /\ l.tries # Limit
        /\ lane' = [lane EXCEPT ![t][j[t]] = Rehashed(l)]
        /\ NextLane(t) /\ UNCHANGED <<next, k>>
     \/ /\ l.idx # Null /\ l.tries = Limit
        /\ k' = [k EXCEPT ![t] = 0]
        /\ Goto(t, "scanLane") /\ UNCHANGED <<lane, next, j>>
  /\ UNCHANGED <<loc, bins, stash, addr>>

\* The two tails of probeInsert: the lanes one by one, then the rest.
Drain(t) ==
  /\ pc[t] = "drain"
  /\ \/ /\ j[t] <= Batch /\ lane[t][j[t]].idx # Null
        /\ Goto(t, "one") /\ UNCHANGED <<lane, next, j>>
     \/ /\ j[t] <= Batch /\ lane[t][j[t]].idx = Null
        /\ j' = [j EXCEPT ![t] = @ + 1] /\ UNCHANGED <<pc, lane, next>>
     \/ /\ j[t] > Batch /\ next[t] < Len(Work[t])
        \* The lanes are not used any more: the first one is insertOne's.
        /\ lane' = [lane EXCEPT ![t][1] = Taken(t, next[t] + 1)]
        /\ next' = [next EXCEPT ![t] = @ + 1]
        /\ j' = [j EXCEPT ![t] = 1]
        /\ Goto(t, "one")
     \/ /\ j[t] > Batch /\ next[t] = Len(Work[t])
        /\ Goto(t, "done") /\ UNCHANGED <<lane, next, j>>
  /\ UNCHANGED <<loc, bins, stash, addr, k>>

Finished(l) == [idx |-> Null, hash |-> l.hash, tries |-> l.tries]

\* One turn of insertOne's loop.
InsertOne(t) ==
  /\ pc[t] = "one"
  /\ LET l == lane[t][j[t]]
         b == getHash(l.idx, l.hash)
         e == Evicted(l, bins[b])
     IN  /\ bins' = [bins EXCEPT ![b] = Word(l)]
         /\ \/ /\ e.idx = Null
               /\ lane' = [lane EXCEPT ![t][j[t]] = Finished(e)]
               /\ Goto(t, "drain") /\ UNCHANGED k
            \/ /\ e.idx # Null /\ e.tries # Limit
               /\ lane' = [lane EXCEPT ![t][j[t]] = Rehashed(e)]
               /\ UNCHANGED <<pc, k>>
            \/ /\ e.idx # Null /\ e.tries = Limit
               /\ lane' = [lane EXCEPT ![t][j[t]] = e]
               /\ k' = [k EXCEPT ![t] = 0] /\ Goto(t, "scanOne")
  /\ UNCHANGED <<loc, stash, addr, next, j>>

PutPc(w) == IF w = "scanLane" THEN "putLane" ELSE "putOne"
Scanning == {"scanLane", "scanOne"}
Putting == {"putLane", "putOne"}

\* do ++k while the slot is not empty: a load per slot, a throw at the end.
ScanFirst(t) ==
  /\ pc[t] \in {"scanLane", "scanOne"}
  /\ \/ StashSize = 0 /\ Goto(t, "throw")
     \/ StashSize > 0 /\ Goto(t, PutPc(pc[t]))
  /\ UNCHANGED <<loc, bins, stash, lane, addr, next, j, k>>
ScanShort(t) ==
  /\ pc[t] \in {"scanLane", "scanOne"}
  /\ \/ k[t] + 1 >= StashSize /\ Goto(t, "throw") /\ UNCHANGED k
     \/ /\ k[t] + 1 < StashSize /\ stash[k[t]] = NoEntry
        /\ Goto(t, PutPc(pc[t])) /\ UNCHANGED k
     \/ /\ k[t] + 1 < StashSize /\ stash[k[t]] # NoEntry
        /\ k' = [k EXCEPT ![t] = @ + 1] /\ UNCHANGED pc
  /\ UNCHANGED <<loc, bins, stash, lane, addr, next, j>>

Scan(t) ==
  /\ pc[t] \in Scanning
  /\ \/ k[t] = StashSize /\ Goto(t, "throw") /\ UNCHANGED k
     \/ /\ k[t] < StashSize /\ stash[k[t]] = NoEntry
        /\ Goto(t, PutPc(pc[t])) /\ UNCHANGED k
     \/ /\ k[t] < StashSize /\ stash[k[t]] # NoEntry
        /\ k' = [k EXCEPT ![t] = @ + 1] /\ UNCHANGED pc
  /\ UNCHANGED <<loc, bins, stash, lane, addr, next, j>>

\* mStash[k].swap: whatever the slot held by now is left in variables that
\* the refill, or the return, overwrites.
PutStash(t) ==
  /\ pc[t] \in Putting
  /\ LET l == lane[t][j[t]] IN
     /\ stash' = [stash EXCEPT ![k[t]] = Word(l)]
     /\ IF pc[t] = "putLane" THEN Refill(t) /\ NextLane(t)
        ELSE /\ lane' = [lane EXCEPT ![t][j[t]] = Finished(l)]
             /\ Goto(t, "drain") /\ UNCHANGED <<next, j>>
  /\ UNCHANGED <<loc, bins, addr, k>>

Step(t) == \/ Probe(t) \/ LaneSwap(t) \/ Settle(t) \/ Drain(t) \/ InsertOne(t)
           \/ Scan(t) \/ PutStash(t)

Next == \E t \in Threads : Step(t)
Spec == Init /\ [][Next]_vars /\ \A t \in Threads : WF_vars(Step(t))

-----------------------------------------------------------------------------
(* The readers, called when no insert runs.                                *)

StashUsedShort ==
  IF \A s \in DOMAIN stash : stash[s] # NoEntry THEN 0
  ELSE CHOOSE s \in DOMAIN stash :
         stash[s] = NoEntry /\ \A r \in DOMAIN stash : r < s => stash[r] # NoEntry

StashUsed ==
  IF \A s \in DOMAIN stash : stash[s] # NoEntry THEN StashSize
  ELSE CHOOSE s \in DOMAIN stash :
         stash[s] = NoEntry /\ \A r \in DOMAIN stash : r < s => stash[r] # NoEntry

\* find: the bins of the item's row, then the stash up to its first empty
\* slot. Items have distinct hashes.
Find(i) ==
  LET rows == {h \in 0..(NumHashes - 1) : bins[loc[i][h]].idx = i}
      slots == {s \in 0..(StashUsed - 1) : stash[s].idx = i}
  IN  IF rows # {} THEN <<i, loc[i][CHOOSE h \in rows : \A g \in rows : h <= g]>>
      ELSE IF slots # {} THEN <<i, NumBins + (CHOOSE s \in slots : TRUE)>>
      ELSE <<Null, Null>>

\* find(span, span): the FindResult becomes a number by its operator bool.
FindMany(i) == IF Find(i)[1] # Null THEN 1 ELSE 0

\* validate: every item in exactly one bin of its row, no bin more.
Matches(i) ==
  Cardinality({b \in {loc[i][h] : h \in 0..(NumHashes - 1)} : bins[b].idx = i})
Validates ==
  /\ \A i \in Items : Matches(i) = 1
  /\ Cardinality({b \in DOMAIN bins : bins[b] # NoEntry}) = Cardinality(Items)

-----------------------------------------------------------------------------
(* Properties.                                                             *)

Done == \A t \in Threads : pc[t] = "done"
Waiting(t) == {Work[t][n] : n \in (next[t] + 1)..Len(Work[t])}

TypeOK ==
  /\ bins \in [0..(NumBins - 1) -> Entry]
  /\ stash \in [0..(StashSize - 1) -> Entry]
  /\ lane \in [Threads -> [1..Batch -> Lane]]
  /\ \A t \in Threads : next[t] \in 0..Len(Work[t]) /\ k[t] \in 0..StashSize

\* No item is lost or doubled by any interleaving of exchanges: each is
\* waiting, in the hands of one thread, in one bin or in one stash slot
\* (Bin::swap, probeInsert and insertOne).
PlacesOf(i) ==
  {<<"wait", t, 0>> : t \in {t \in Threads : i \in Waiting(t)}}
  \cup {<<"lane", x[1], x[2]>> : x \in {x \in Threads \X (1..Batch) : lane[x[1]][x[2]].idx = i}}
  \cup {<<"bin", 0, b>> : b \in {b \in DOMAIN bins : bins[b].idx = i}}
  \cup {<<"stash", 0, s>> : s \in {s \in DOMAIN stash : stash[s].idx = i}}
Conserved == \A i \in Items : Cardinality(PlacesOf(i)) = 1

\* The word in a bin names the hash that leads there: an evicted item moves
\* on from the right one.
AtHome == \A b \in DOMAIN bins : bins[b] # NoEntry => getHash(bins[b].idx, bins[b].hash) = b

\* After all inserts returned, find returns every item and where it is; the find for
\* many hashes only says that it is there, and validate accepts the table unless an
\* item went to the stash.
FindExact ==
  Done =>
    /\ \A i \in Items :
         LET r == Find(i) IN
         /\ r[1] = i
         /\ IF r[2] < NumBins THEN bins[r[2]].idx = i ELSE stash[r[2] - NumBins].idx = i
         /\ FindMany(i) = 1
    /\ Validates <=> \A s \in DOMAIN stash : stash[s] = NoEntry

\* A thread never gives up while a stash slot is free.
OverflowOnlyWhenFull ==
  \A t \in Threads : pc[t] = "throw" => \A s \in DOMAIN stash : stash[s] # NoEntry

\* No interleaving leaves an item at two places, not even one that loses an item to a
\* stash slot two threads found free.
AtMostOnce == \A i \in Items : Cardinality(PlacesOf(i)) <= 1

\* What any threads leave, whatever slots they choose.
TableSafe == TypeOK /\ AtMostOnce /\ AtHome /\ OverflowOnlyWhenFull

\* What threads leave that never choose the same stash slot: the table keeps every
\* item once, every word at its own bin, and finds every item.
TableRight == TypeOK /\ Conserved /\ AtHome /\ OverflowOnlyWhenFull /\ FindExact

\* No two threads have chosen the same stash slot and not yet exchanged with it.
NoClash ==
  \A t, u \in Threads :
    pc[t] \in Putting /\ pc[u] \in Putting /\ k[t] = k[u] => t = u

\* Every insert returns or throws: the walk through the table is bounded.
InsertsEnd == \A t \in Threads : <>(pc[t] \in {"done", "throw"})

=============================================================================
