------------------------- MODULE CuckooIndexProofs -------------------------
(***************************************************************************)
(* Proofs about CuckooIndex for any number of threads, all sizes, all work *)
(* and all rows.                                                           *)
(*                                                                         *)
(* Held says what each place holds: the word of a bin or of a stash slot,  *)
(* a lane, an item not yet taken.  Every step exchanges the contents of two *)
(* places, except that a word put into a stash slot another thread has     *)
(* filled meanwhile drops what is there.  So nothing is ever at two places *)
(* (Apart), and while no two threads have chosen the same stash slot       *)
(* (NoClash), nothing is lost either (Kept).                               *)
(*                                                                         *)
(* Inv is the inductive invariant for any number of threads; it knows of   *)
(* each thread which of its lanes are full at its place in the code, that  *)
(* the addresses it fetched are still those of its lanes, that its batch   *)
(* does not run past its work, and that the slots it has passed are full.  *)
(***************************************************************************)
EXTENDS CuckooIndex, FiniteSetTheorems, TLAPS

Bin == 0..(NumBins - 1)
Slot == 0..(StashSize - 1)
Lanes == 1..Batch
Size(t) == Len(Work[t])

InRound == {"settle", "scanLane", "putLane"}
InOne == {"one", "scanOne", "putOne"}
Stops == {"probe", "swap", "drain", "done", "throw"} \cup InRound \cup InOne

Types ==
  /\ loc \in [Items -> Rows]
  /\ bins \in [Bin -> Entry] /\ stash \in [Slot -> Entry]
  /\ pc \in [Threads -> Stops]
  /\ lane \in [Threads -> [Lanes -> Lane]]
  /\ addr \in [Threads -> [Lanes -> Nat]]
  /\ next \in [Threads -> Nat] /\ j \in [Threads -> 1..(Batch + 1)]
  /\ k \in [Threads -> 0..StashSize]

Full(t, l) == lane[t][l].idx # Null

\* What a thread's lanes and counters are at each of its places.
Local(t) ==
  /\ next[t] <= Size(t)
  /\ \A l \in Lanes : Full(t, l) => lane[t][l].hash \in 0..(NumHashes - 1)
  /\ pc[t] = "probe" /\ Size(t) > Batch => \A l \in Lanes : Full(t, l)
  /\ pc[t] = "swap" =>
       /\ j[t] <= Batch /\ next[t] + Batch < Size(t)
       /\ \A l \in Lanes : l >= j[t] =>
            Full(t, l) /\ addr[t][l] = getHash(lane[t][l].idx, lane[t][l].hash)
  /\ pc[t] \in InRound =>
       /\ j[t] <= Batch /\ Batch < Size(t) /\ next[t] + Batch + 1 < Size(t) + j[t]
       /\ \A l \in Lanes : l < j[t] => Full(t, l)
  /\ pc[t] \in {"drain"} \cup InOne => \A l \in Lanes : l < j[t] => ~ Full(t, l)
  /\ pc[t] \in InOne => j[t] <= Batch
  /\ pc[t] \in InOne \cup {"scanLane", "putLane"} => Full(t, j[t])
  /\ pc[t] = "done" => next[t] = Size(t) /\ \A l \in Lanes : ~ Full(t, l)

\* What a thread knows of the stash.
Scanned(t) ==
  /\ pc[t] \in Scanning \cup Putting => \A s \in Slot : s < k[t] => stash[s] # NoEntry
  /\ pc[t] \in Putting => k[t] < StashSize
  /\ pc[t] = "throw" => \A s \in Slot : stash[s] # NoEntry

\* The stash fills from the front.
Front == \A s \in Slot : stash[s] # NoEntry => \A r \in Slot : r < s => stash[r] # NoEntry

-----------------------------------------------------------------------------
(* What is where.                                                          *)

Places == ({"wait"} \X Threads \X Nat) \cup ({"lane"} \X Threads \X Lanes)
          \cup ({"bin"} \X {0} \X Bin) \cup ({"stash"} \X {0} \X Slot)

\* The item at a place, or Null.
Held ==
  [p \in Places |->
     IF p[1] = "wait"
     THEN IF p[3] \in (next[p[2]] + 1)..Size(p[2]) THEN Work[p[2]][p[3]] ELSE Null
     ELSE IF p[1] = "lane" THEN lane[p[2]][p[3]].idx
     ELSE IF p[1] = "bin" THEN bins[p[3]].idx
     ELSE stash[p[3]].idx]

\* No item is at two places.
Apart(f) == \A p, q \in Places : f[p] = f[q] /\ f[p] # Null => p = q

Inv ==
  /\ Given /\ Types
  /\ \A t \in Threads : Local(t) /\ Scanned(t)
  /\ Front /\ AtHome /\ Apart(Held)

\* Every item is somewhere, and the slot a thread has chosen is still free.
Present(f) == \A i \in Items : \E p \in Places : f[p] = i
Kept ==
  /\ \A t \in Threads : pc[t] \in Putting => stash[k[t]] = NoEntry
  /\ Present(Held)

-----------------------------------------------------------------------------
(* Facts about exchanges.                                                  *)

\* Two places exchange what they hold (Bin::swap, and a lane that takes the next item).
Exchanges(f, g, a, b) ==
  \A p \in Places : g[p] = IF p = a THEN f[b] ELSE IF p = b THEN f[a] ELSE f[p]

\* What b holds is dropped for what a held (Bin::swap of a word nobody looks at again).
Replaces(f, g, a, b) ==
  \A p \in Places : g[p] = IF p = a THEN Null ELSE IF p = b THEN f[a] ELSE f[p]

Same(f, g) == \A p \in Places : g[p] = f[p]

LEMMA ExchangeKeeps ==
  ASSUME NEW f, NEW g, NEW a \in Places, NEW b \in Places, a # b, Exchanges(f, g, a, b)
  PROVE  (Apart(f) => Apart(g)) /\ (Present(f) => Present(g))
<1>1. ASSUME Apart(f) PROVE Apart(g)
  BY <1>1, Zenon DEF Apart, Exchanges
<1>2. ASSUME Present(f) PROVE Present(g)
  <2> SUFFICES ASSUME NEW i \in Items PROVE \E p \in Places : g[p] = i
    BY Zenon DEF Present
  <2>1. PICK p \in Places : f[p] = i
    BY <1>2, Zenon DEF Present
  <2>2. g[a] = f[b] /\ g[b] = f[a] /\ (p # a /\ p # b => g[p] = f[p])
    BY Zenon DEF Exchanges
  <2> QED
    BY <2>1, <2>2, Zenon
<1> QED
  BY <1>1, <1>2, Zenon

LEMMA ReplaceKeeps ==
  ASSUME NEW f, NEW g, NEW a \in Places, NEW b \in Places, a # b, Replaces(f, g, a, b)
  PROVE  (Apart(f) => Apart(g)) /\ (f[b] = Null => Exchanges(f, g, a, b))
<1>1. ASSUME Apart(f) PROVE Apart(g)
  BY <1>1, Zenon DEF Apart, Replaces
<1>2. ASSUME f[b] = Null PROVE Exchanges(f, g, a, b)
  BY <1>2, Zenon DEF Exchanges, Replaces
<1> QED
  BY <1>1, <1>2, Zenon

LEMMA SameKeeps ==
  ASSUME NEW f, NEW g, Same(f, g)
  PROVE  (Apart(f) => Apart(g)) /\ (Present(f) => Present(g))
BY Zenon DEF Same, Apart, Present

\* The four kinds of places, and what they hold.
PlaceKinds ==
  /\ \A t \in Threads : \A n \in Nat :
       /\ <<"wait", t, n>> \in Places
       /\ Held[<<"wait", t, n>>] = IF n \in (next[t] + 1)..Size(t) THEN Work[t][n] ELSE Null
  /\ \A t \in Threads : \A l \in Lanes :
       <<"lane", t, l>> \in Places /\ Held[<<"lane", t, l>>] = lane[t][l].idx
  /\ \A b \in Bin : <<"bin", 0, b>> \in Places /\ Held[<<"bin", 0, b>>] = bins[b].idx
  /\ \A s \in Slot : <<"stash", 0, s>> \in Places /\ Held[<<"stash", 0, s>>] = stash[s].idx
  /\ \A p \in Places :
       \/ \E t \in Threads : \E n \in Nat : p = <<"wait", t, n>>
       \/ \E t \in Threads : \E l \in Lanes : p = <<"lane", t, l>>
       \/ \E b \in Bin : p = <<"bin", 0, b>>
       \/ \E s \in Slot : p = <<"stash", 0, s>>

LEMMA Kinds == PlaceKinds
<1>1. ASSUME NEW t \in Threads, NEW n \in Nat
      PROVE  /\ <<"wait", t, n>> \in Places
             /\ Held[<<"wait", t, n>>] = IF n \in (next[t] + 1)..Size(t) THEN Work[t][n] ELSE Null
  BY DEF Places, Held
<1>2. ASSUME NEW t \in Threads, NEW l \in Lanes
      PROVE  <<"lane", t, l>> \in Places /\ Held[<<"lane", t, l>>] = lane[t][l].idx
  BY DEF Places, Held
<1>3. ASSUME NEW b \in Bin
      PROVE  <<"bin", 0, b>> \in Places /\ Held[<<"bin", 0, b>>] = bins[b].idx
  BY DEF Places, Held
<1>4. ASSUME NEW s \in Slot
      PROVE  <<"stash", 0, s>> \in Places /\ Held[<<"stash", 0, s>>] = stash[s].idx
  BY DEF Places, Held
<1>5. ASSUME NEW p \in Places
      PROVE  \/ \E t \in Threads : \E n \in Nat : p = <<"wait", t, n>>
             \/ \E t \in Threads : \E l \in Lanes : p = <<"lane", t, l>>
             \/ \E b \in Bin : p = <<"bin", 0, b>>
             \/ \E s \in Slot : p = <<"stash", 0, s>>
  BY DEF Places
<1> QED
  BY <1>1, <1>2, <1>3, <1>4, <1>5 DEF PlaceKinds

LEMMA KindsAfter == PlaceKinds'
BY Kinds, PTL

LEMMA OneOfFour ==
  ASSUME NEW p \in Places
  PROVE  \/ \E t \in Threads : \E n \in Nat : p = <<"wait", t, n>>
         \/ \E t \in Threads : \E l \in Lanes : p = <<"lane", t, l>>
         \/ \E b \in Bin : p = <<"bin", 0, b>>
         \/ \E s \in Slot : p = <<"stash", 0, s>>
BY Kinds, Zenon DEF PlaceKinds

-----------------------------------------------------------------------------
(* What the steps do to what is held.                                      *)

\* The lane l of t takes the item v; the others keep theirs.
LaneTakes(t, l, v) ==
  \A u \in Threads : \A m \in Lanes :
    lane'[u][m].idx = IF u = t /\ m = l THEN v ELSE lane[u][m].idx
LanesKeep == \A u \in Threads : \A m \in Lanes : lane'[u][m].idx = lane[u][m].idx

LEMMA HeldSame == ASSUME LanesKeep, UNCHANGED <<bins, stash, next>> PROVE Same(Held, Held')
<1> SUFFICES ASSUME NEW p \in Places PROVE Held'[p] = Held[p]
  BY DEF Same
<1>1. /\ \A t \in Threads : \A n \in Nat : Held'[<<"wait", t, n>>] = Held[<<"wait", t, n>>]
      /\ \A t \in Threads : \A l \in Lanes : Held'[<<"lane", t, l>>] = Held[<<"lane", t, l>>]
      /\ \A b \in Bin : Held'[<<"bin", 0, b>>] = Held[<<"bin", 0, b>>]
      /\ \A s \in Slot : Held'[<<"stash", 0, s>>] = Held[<<"stash", 0, s>>]
  <2>1. ASSUME NEW t \in Threads, NEW n \in Nat
        PROVE  Held'[<<"wait", t, n>>] = Held[<<"wait", t, n>>]
    <3>1. Held'[<<"wait", t, n>>] = IF n \in (next'[t] + 1)..Size(t) THEN Work[t][n] ELSE Null
      BY KindsAfter, Zenon DEF PlaceKinds, Size
    <3>2. Held[<<"wait", t, n>>] = IF n \in (next[t] + 1)..Size(t) THEN Work[t][n] ELSE Null
      BY Kinds, Zenon DEF PlaceKinds
    <3>3. next' = next
      OBVIOUS
    <3> QED
      BY <3>1, <3>2, <3>3
  <2>2. ASSUME NEW t \in Threads, NEW l \in Lanes
        PROVE  Held'[<<"lane", t, l>>] = Held[<<"lane", t, l>>]
    <3>1. Held'[<<"lane", t, l>>] = lane'[t][l].idx /\ Held[<<"lane", t, l>>] = lane[t][l].idx
      BY Kinds, KindsAfter, Zenon DEF PlaceKinds
    <3>2. lane'[t][l].idx = lane[t][l].idx
      BY Zenon DEF LanesKeep
    <3> QED
      BY <3>1, <3>2, Zenon
  <2>3. ASSUME NEW b \in Bin PROVE Held'[<<"bin", 0, b>>] = Held[<<"bin", 0, b>>]
    BY Kinds, KindsAfter, Zenon DEF PlaceKinds
  <2>4. ASSUME NEW s \in Slot PROVE Held'[<<"stash", 0, s>>] = Held[<<"stash", 0, s>>]
    BY Kinds, KindsAfter, Zenon DEF PlaceKinds
  <2> QED
    BY <2>1, <2>2, <2>3, <2>4, Zenon
<1> QED
  BY <1>1, OneOfFour, Zenon

\* A lane exchanges with a bin.
LEMMA HeldLaneBin ==
  ASSUME NEW t \in Threads, NEW l \in Lanes, NEW b \in Bin, LaneTakes(t, l, bins[b].idx),
         \A c \in Bin : bins'[c].idx = IF c = b THEN lane[t][l].idx ELSE bins[c].idx,
         UNCHANGED <<stash, next>>
  PROVE  Exchanges(Held, Held', <<"lane", t, l>>, <<"bin", 0, b>>)
<1> DEFINE x == <<"lane", t, l>>
           y == <<"bin", 0, b>>
           R(p) == Held'[p] = IF p = x THEN Held[y] ELSE IF p = y THEN Held[x] ELSE Held[p]
<1>1. ASSUME NEW u \in Threads, NEW n \in Nat PROVE R(<<"wait", u, n>>)
  BY Kinds, KindsAfter DEF PlaceKinds, Size
<1>2. ASSUME NEW u \in Threads, NEW m \in Lanes PROVE R(<<"lane", u, m>>)
  BY Kinds, KindsAfter DEF PlaceKinds, LaneTakes
<1>3. ASSUME NEW c \in Bin PROVE R(<<"bin", 0, c>>)
  BY Kinds, KindsAfter DEF PlaceKinds
<1>4. ASSUME NEW s \in Slot PROVE R(<<"stash", 0, s>>)
  BY Kinds, KindsAfter DEF PlaceKinds
<1>5. \A p \in Places : R(p)
  <2> HIDE DEF R
  <2> QED
    BY <1>1, <1>2, <1>3, <1>4, OneOfFour, Zenon
<1> QED
  BY <1>5 DEF Exchanges

\* An empty lane takes the next item.
LEMMA HeldRefill ==
  ASSUME NEW t \in Threads, NEW l \in Lanes, lane[t][l].idx = Null,
         next \in [Threads -> Nat], next[t] < Size(t), Size(t) \in Nat,
         LaneTakes(t, l, Work[t][next[t] + 1]),
         next' = [next EXCEPT ![t] = @ + 1], UNCHANGED <<bins, stash>>
  PROVE  /\ <<"wait", t, next[t] + 1>> \in Places /\ <<"lane", t, l>> \in Places
         /\ Exchanges(Held, Held', <<"lane", t, l>>, <<"wait", t, next[t] + 1>>)
<1> DEFINE x == <<"lane", t, l>>
           y == <<"wait", t, next[t] + 1>>
           R(p) == Held'[p] = IF p = x THEN Held[y] ELSE IF p = y THEN Held[x] ELSE Held[p]
<1>0. next[t] + 1 \in Nat /\ next[t] \in Nat /\ next'[t] = next[t] + 1
  OBVIOUS
<1>1. ASSUME NEW u \in Threads, NEW n \in Nat PROVE R(<<"wait", u, n>>)
  <2>1. CASE u = t /\ n = next[t] + 1
    <3>1. Held'[<<"wait", t, n>>] = Null
      BY <1>0, <2>1, KindsAfter DEF PlaceKinds, Size
    <3>2. Held[x] = Null
      BY Kinds DEF PlaceKinds
    <3> QED
      BY <2>1, <3>1, <3>2, Zenon
  <2>2. CASE ~ (u = t /\ n = next[t] + 1)
    <3>1. Held'[<<"wait", u, n>>] = Held[<<"wait", u, n>>]
      BY <1>0, <2>2, Kinds, KindsAfter DEF PlaceKinds, Size
    <3>2. <<"wait", u, n>> # y /\ <<"wait", u, n>> # x
      BY <2>2
    <3> QED
      BY <3>1, <3>2, Zenon
  <2> QED
    BY <2>1, <2>2
<1>2. ASSUME NEW u \in Threads, NEW m \in Lanes PROVE R(<<"lane", u, m>>)
  <2>1. Held[y] = Work[t][next[t] + 1]
    BY <1>0, Kinds DEF PlaceKinds, Size
  <2> QED
    BY <2>1, Kinds, KindsAfter DEF PlaceKinds, LaneTakes
<1>3. ASSUME NEW c \in Bin PROVE R(<<"bin", 0, c>>)
  BY Kinds, KindsAfter DEF PlaceKinds
<1>4. ASSUME NEW s \in Slot PROVE R(<<"stash", 0, s>>)
  BY Kinds, KindsAfter DEF PlaceKinds
<1>5. \A p \in Places : R(p)
  <2> HIDE DEF R
  <2> QED
    BY <1>1, <1>2, <1>3, <1>4, OneOfFour, Zenon
<1>6. x \in Places /\ y \in Places
  BY <1>0, Kinds DEF PlaceKinds
<1> QED
  BY <1>5, <1>6 DEF Exchanges

\* A stash slot takes what a lane holds, and the lane is done with it.
LEMMA HeldToStash ==
  ASSUME NEW t \in Threads, NEW l \in Lanes, NEW s \in Slot, LaneTakes(t, l, Null),
         \A r \in Slot : stash'[r].idx = IF r = s THEN lane[t][l].idx ELSE stash[r].idx,
         UNCHANGED <<bins, next>>
  PROVE  /\ <<"stash", 0, s>> \in Places /\ <<"lane", t, l>> \in Places
         /\ Replaces(Held, Held', <<"lane", t, l>>, <<"stash", 0, s>>)
<1> DEFINE x == <<"lane", t, l>>
           y == <<"stash", 0, s>>
           R(p) == Held'[p] = IF p = x THEN Null ELSE IF p = y THEN Held[x] ELSE Held[p]
<1>1. ASSUME NEW u \in Threads, NEW n \in Nat PROVE R(<<"wait", u, n>>)
  BY Kinds, KindsAfter DEF PlaceKinds, Size
<1>2. ASSUME NEW u \in Threads, NEW m \in Lanes PROVE R(<<"lane", u, m>>)
  BY Kinds, KindsAfter DEF PlaceKinds, LaneTakes
<1>3. ASSUME NEW c \in Bin PROVE R(<<"bin", 0, c>>)
  BY Kinds, KindsAfter DEF PlaceKinds
<1>4. ASSUME NEW r \in Slot PROVE R(<<"stash", 0, r>>)
  BY Kinds, KindsAfter DEF PlaceKinds
<1>5. \A p \in Places : R(p)
  <2> HIDE DEF R
  <2> QED
    BY <1>1, <1>2, <1>3, <1>4, OneOfFour, Zenon
<1>6. x \in Places /\ y \in Places
  BY Kinds DEF PlaceKinds
<1> QED
  BY <1>5, <1>6 DEF Replaces

\* What the place x held is dropped at y, and x takes what w holds.
Between(x, y) ==
  [p \in Places |-> IF p = x THEN Null ELSE IF p = y THEN Held[x] ELSE Held[p]]
StashedAndRefilled(x, y, w) ==
  /\ x \in Places /\ y \in Places /\ w \in Places
  /\ Replaces(Held, Between(x, y), x, y) /\ Exchanges(Between(x, y), Held', x, w)

\* A stash slot takes what a lane holds, and the lane takes the next item.
LEMMA HeldToStashRefill ==
  ASSUME NEW t \in Threads, NEW l \in Lanes, NEW s \in Slot,
         next \in [Threads -> Nat], next[t] < Size(t), Size(t) \in Nat,
         LaneTakes(t, l, Work[t][next[t] + 1]), next' = [next EXCEPT ![t] = @ + 1],
         \A r \in Slot : stash'[r].idx = IF r = s THEN lane[t][l].idx ELSE stash[r].idx,
         bins' = bins
  PROVE  StashedAndRefilled(<<"lane", t, l>>, <<"stash", 0, s>>, <<"wait", t, next[t] + 1>>)
<1> DEFINE x == <<"lane", t, l>>
           y == <<"stash", 0, s>>
           w == <<"wait", t, next[t] + 1>>
           f == Between(x, y)
           R(p) == Held'[p] = IF p = x THEN f[w] ELSE IF p = w THEN f[x] ELSE f[p]
<1>0. next[t] + 1 \in Nat /\ next[t] \in Nat /\ next'[t] = next[t] + 1
  OBVIOUS
<1>1. x \in Places /\ y \in Places /\ w \in Places
  BY <1>0, Kinds DEF PlaceKinds
<1>2. x # y /\ x # w /\ y # w
  OBVIOUS
<1>2a. f = [p \in Places |-> IF p = x THEN Null ELSE IF p = y THEN Held[x] ELSE Held[p]]
  BY DEF Between
<1>3. f[x] = Null /\ f[y] = lane[t][l].idx /\ f[w] = Work[t][next[t] + 1]
  <2>1. Held[x] = lane[t][l].idx /\ Held[w] = Work[t][next[t] + 1]
    BY <1>0, Kinds DEF PlaceKinds, Size
  <2> HIDE DEF x, y, w
  <2> QED
    BY <1>1, <1>2, <1>2a, <2>1
<1>4. \A p \in Places : p # x /\ p # y => f[p] = Held[p]
  BY <1>2a
<1>5. ASSUME NEW u \in Threads, NEW n \in Nat PROVE R(<<"wait", u, n>>)
  <2> DEFINE p == <<"wait", u, n>>
  <2>0. p \in Places /\ p # x /\ p # y
    BY Kinds DEF PlaceKinds
  <2>1. CASE u = t /\ n = next[t] + 1
    <3>1. Held'[p] = Null
      BY <1>0, <2>1, KindsAfter DEF PlaceKinds, Size
    <3> HIDE DEF f
    <3> QED
      BY <1>2, <1>3, <2>1, <3>1, Zenon
  <2>2. CASE ~ (u = t /\ n = next[t] + 1)
    <3>1. Held'[p] = Held[p]
      BY <1>0, <2>2, Kinds, KindsAfter DEF PlaceKinds, Size
    <3>2. p # w
      BY <2>2
    <3> HIDE DEF f, x, y, w, p
    <3>3. R(p)
      BY <1>4, <2>0, <3>1, <3>2, Zenon
    <3> QED
      BY <3>3 DEF p
  <2> QED
    BY <2>1, <2>2
<1>6. ASSUME NEW u \in Threads, NEW m \in Lanes PROVE R(<<"lane", u, m>>)
  <2> DEFINE p == <<"lane", u, m>>
  <2>0. p \in Places /\ p # w /\ p # y /\ (p = x <=> u = t /\ m = l)
    BY Kinds DEF PlaceKinds
  <2>1. Held'[p] = IF p = x THEN Work[t][next[t] + 1] ELSE Held[p]
    BY <2>0, Kinds, KindsAfter DEF PlaceKinds, LaneTakes
  <2> HIDE DEF f, x, y, w, p
  <2>2. R(p)
    BY <1>3, <1>4, <2>0, <2>1, Zenon
  <2> QED
    BY <2>2 DEF p
<1>7. ASSUME NEW c \in Bin PROVE R(<<"bin", 0, c>>)
  <2> DEFINE p == <<"bin", 0, c>>
  <2>0. p \in Places /\ p # w /\ p # y /\ p # x
    BY Kinds DEF PlaceKinds
  <2>1. Held'[p] = Held[p]
    BY <2>0, Kinds, KindsAfter DEF PlaceKinds
  <2> HIDE DEF f, x, y, w, p
  <2>2. R(p)
    BY <1>3, <1>4, <2>0, <2>1, Zenon
  <2> QED
    BY <2>2 DEF p
<1>8. ASSUME NEW r \in Slot PROVE R(<<"stash", 0, r>>)
  <2> DEFINE p == <<"stash", 0, r>>
  <2>0. p \in Places /\ p # w /\ p # x /\ (p = y <=> r = s)
    BY Kinds DEF PlaceKinds
  <2>1. Held'[p] = IF p = y THEN lane[t][l].idx ELSE Held[p]
    BY <2>0, Kinds, KindsAfter DEF PlaceKinds
  <2> HIDE DEF f, x, y, w, p
  <2>2. R(p)
    BY <1>3, <1>4, <2>0, <2>1, Zenon
  <2> QED
    BY <2>2 DEF p
<1>9. \A p \in Places : R(p)
  <2> HIDE DEF R
  <2> QED
    BY <1>5, <1>6, <1>7, <1>8, OneOfFour, Zenon
<1>10. Exchanges(f, Held', x, w)
  BY <1>9 DEF Exchanges
<1>11. Replaces(Held, f, x, y)
  BY <1>2a DEF Replaces
<1> QED
  BY <1>1, <1>10, <1>11 DEF StashedAndRefilled

-----------------------------------------------------------------------------
(* Types.                                                                  *)

ItemFacts ==
  /\ \A t \in Threads : Size(t) \in Nat /\ \A n \in 1..Size(t) : Work[t][n] \in Items
  /\ \A i \in Items : i \in Nat /\ i # Null
  /\ \A e \in Entry : /\ e = NoEntry <=> e.idx = Null
                      /\ e.idx \in Items \cup {Null} /\ e.hash \in 0..255
                      /\ e # NoEntry => e.idx \in Items /\ e.hash \in 0..(NumHashes - 1)
  /\ \A x \in Lane : /\ x.idx \in Items \cup {Null} /\ x.hash \in 0..255 /\ x.tries \in 0..Limit
  /\ Batch \in Nat /\ Batch >= 1 /\ StashSize \in Nat /\ Limit \in Nat /\ NumBins \in Nat
  /\ NumHashes \in 1..256

LEMMA ItemFactsHold == Given => ItemFacts
<1> SUFFICES ASSUME Given PROVE ItemFacts
  OBVIOUS
<1>1. /\ Batch \in Nat /\ Batch >= 1 /\ StashSize \in Nat /\ Limit \in Nat /\ NumBins \in Nat
      /\ NumHashes \in 1..256
  BY DEF Given, SizesAssumption
<1>2. ASSUME NEW t \in Threads
      PROVE  Size(t) \in Nat /\ \A n \in 1..Size(t) : Work[t][n] \in Items
  BY DEF Given, SizesAssumption, Items, Size
<1>3. ASSUME NEW i \in Items PROVE i \in Nat /\ i # Null
  BY DEF Given, SizesAssumption, Items, Null
<1>4. ASSUME NEW e \in Entry
      PROVE  /\ e = NoEntry <=> e.idx = Null
             /\ e.idx \in Items \cup {Null} /\ e.hash \in 0..255
             /\ e # NoEntry => e.idx \in Items /\ e.hash \in 0..(NumHashes - 1)
  BY <1>1, <1>3 DEF Entry, NoEntry
<1>5. ASSUME NEW x \in Lane
      PROVE  x.idx \in Items \cup {Null} /\ x.hash \in 0..255 /\ x.tries \in 0..Limit
  BY DEF Lane
<1> QED
  BY <1>1, <1>2, <1>3, <1>4, <1>5, Zenon DEF ItemFacts

LEMMA Address ==
  ASSUME Given, Types, NEW i \in Items, NEW h \in 0..(NumHashes - 1)
  PROVE  getHash(i, h) \in Bin
<1>1. loc[i] \in Rows
  BY DEF Types
<1>2. loc[i][h] \in Bin
  BY <1>1 DEF Given, RowsAssumption, Bin
<1> QED
  BY <1>2 DEF getHash

\* One lane of one thread is written.
Puts(t, l, x) == lane' = [lane EXCEPT ![t][l] = x]

LEMMA LanePut ==
  ASSUME Types, NEW t \in Threads, NEW l \in Lanes, NEW x \in Lane, Puts(t, l, x)
  PROVE  /\ lane' \in [Threads -> [Lanes -> Lane]]
         /\ lane'[t][l] = x /\ \A m \in Lanes : m # l => lane'[t][m] = lane[t][m]
         /\ \A u \in Threads : u # t => lane'[u] = lane[u]
         /\ LaneTakes(t, l, x.idx)
<1>1. lane \in [Threads -> [Lanes -> Lane]]
  BY DEF Types
<1>2. /\ lane' \in [Threads -> [Lanes -> Lane]]
      /\ lane'[t][l] = x /\ \A m \in Lanes : m # l => lane'[t][m] = lane[t][m]
      /\ \A u \in Threads : u # t => lane'[u] = lane[u]
  BY <1>1 DEF Puts
<1> QED
  BY <1>2 DEF LaneTakes

\* What a step of t leaves to the others.
Frame(t) ==
  /\ loc' = loc
  /\ \A u \in Threads : u # t =>
       /\ lane'[u] = lane[u] /\ addr'[u] = addr[u] /\ pc'[u] = pc[u]
       /\ next'[u] = next[u] /\ j'[u] = j[u] /\ k'[u] = k[u]
StashGrows == \A s \in Slot : stash[s] # NoEntry => stash'[s] # NoEntry

LEMMA OthersStay ==
  ASSUME Inv, NEW t \in Threads, NEW u \in Threads, u # t, Frame(t), StashGrows
  PROVE  Local(u)' /\ Scanned(u)'
<1>0. Local(u) /\ Scanned(u)
  BY Zenon DEF Inv
<1>1. /\ lane'[u] = lane[u] /\ addr'[u] = addr[u] /\ pc'[u] = pc[u] /\ loc' = loc
      /\ next'[u] = next[u] /\ j'[u] = j[u] /\ k'[u] = k[u]
  BY Zenon DEF Frame
<1>2. Local(u)'
  BY <1>0, <1>1 DEF Local, Full, getHash, Size
<1>3. Scanned(u)'
  BY <1>0, <1>1 DEF Scanned, StashGrows
<1> QED
  BY <1>2, <1>3

LEMMA Assemble ==
  ASSUME Inv, NEW t \in Threads, Frame(t), StashGrows, Types', Local(t)', Scanned(t)',
         Front', AtHome', Apart(Held')
  PROVE  Inv'
<1>1. Given'
  BY DEF Inv, Given, RowsAssumption, WorkAssumption, SizesAssumption
<1>2. \A u \in Threads : Local(u)' /\ Scanned(u)'
  BY OthersStay, Zenon
<1>3. Apart(Held)'
  BY DEF Apart
<1> QED
  BY <1>1, <1>2, <1>3 DEF Inv

LEMMA AssembleKept ==
  ASSUME NEW t \in Threads, Frame(t), stash' = stash,
         pc'[t] \in Putting => stash[k'[t]] = NoEntry, Present(Held) => Present(Held')
  PROVE  Kept => Kept'
<1> SUFFICES ASSUME Kept PROVE Kept'
  OBVIOUS
<1>1. ASSUME NEW u \in Threads, pc'[u] \in Putting PROVE stash'[k'[u]] = NoEntry
  <2>1. CASE u = t
    BY <1>1, <2>1
  <2>2. CASE u # t
    BY <1>1, <2>2 DEF Frame, Kept
  <2> QED
    BY <2>1, <2>2
<1>2. Present(Held)'
  BY DEF Kept, Present
<1> QED
  BY <1>1, <1>2 DEF Kept

-----------------------------------------------------------------------------
(* The steps.                                                              *)

\* What is known of the thread that moves.
LEMMA Mover ==
  ASSUME Inv, NEW t \in Threads
  PROVE  /\ Given /\ Types /\ ItemFacts /\ Local(t) /\ Scanned(t) /\ Front /\ AtHome /\ Apart(Held)
         /\ Size(t) \in Nat /\ next[t] \in Nat /\ j[t] \in 1..(Batch + 1) /\ k[t] \in 0..StashSize
         /\ pc[t] \in Stops /\ Batch \in Nat \ {0}
         /\ \A l \in Lanes : lane[t][l] \in Lane
         /\ \A l \in Lanes : Full(t, l) =>
              lane[t][l].idx \in Items /\ lane[t][l].hash \in 0..(NumHashes - 1)
<1>1. Given /\ Types /\ Local(t) /\ Scanned(t) /\ Front /\ AtHome /\ Apart(Held)
  BY Zenon DEF Inv
<1>2. ItemFacts
  BY <1>1, ItemFactsHold
<1>3. Size(t) \in Nat /\ next[t] \in Nat /\ j[t] \in 1..(Batch + 1) /\ k[t] \in 0..StashSize
      /\ pc[t] \in Stops /\ Batch \in Nat \ {0}
  BY <1>1, <1>2 DEF Types, ItemFacts
<1>4. \A l \in Lanes : lane[t][l] \in Lane
  BY <1>1 DEF Types
<1>5. \A l \in Lanes : Full(t, l) =>
        lane[t][l].idx \in Items /\ lane[t][l].hash \in 0..(NumHashes - 1)
  BY <1>1, <1>2, <1>4 DEF ItemFacts, Local, Full
<1> QED
  BY <1>1, <1>2, <1>3, <1>4, <1>5

\* A step that moves nothing and leaves bins and stash alone.
LEMMA Quiet ==
  ASSUME Inv, NEW t \in Threads, Frame(t), UNCHANGED <<bins, stash, next>>, LanesKeep,
         Types', Local(t)', Scanned(t)', pc'[t] \in Putting => stash[k'[t]] = NoEntry
  PROVE  Inv' /\ (Kept => Kept')
<1>1. Front' /\ AtHome' /\ StashGrows
  BY DEF Inv, Front, AtHome, StashGrows, Frame, getHash
<1>2. Same(Held, Held')
  BY HeldSame
<1>3. Apart(Held') /\ (Present(Held) => Present(Held'))
  BY <1>2, SameKeeps DEF Inv
<1>4. Inv'
  BY <1>1, <1>3, Assemble
<1>5. stash' = stash
  OBVIOUS
<1> QED
  BY <1>3, <1>4, <1>5, AssembleKept

LEMMA ProbeStep == ASSUME Inv, NEW t \in Threads, Probe(t) PROVE Inv' /\ (Kept => Kept')
<1>1. /\ Given /\ Types /\ ItemFacts /\ Local(t) /\ Scanned(t)
      /\ Size(t) \in Nat /\ next[t] \in Nat /\ j[t] \in 1..(Batch + 1) /\ k[t] \in 0..StashSize
      /\ pc[t] \in Stops /\ Batch \in Nat \ {0}
      /\ \A l \in Lanes : Full(t, l) =>
           lane[t][l].idx \in Items /\ lane[t][l].hash \in 0..(NumHashes - 1)
  BY Mover
<1>2. /\ pc[t] = "probe" /\ j' = [j EXCEPT ![t] = 1]
      /\ UNCHANGED <<loc, bins, stash, lane, next, k>>
  BY DEF Probe
<1>3. LanesKeep
  BY <1>2 DEF LanesKeep
<1>4. j'[t] = 1 /\ j' \in [Threads -> 1..(Batch + 1)] /\ \A u \in Threads : u # t => j'[u] = j[u]
  BY <1>1, <1>2 DEF Types
<1>5. CASE Rounds(t, next[t])
  <2>1. /\ addr' = [addr EXCEPT ![t] = [l \in Lanes |-> getHash(lane[t][l].idx, lane[t][l].hash)]]
        /\ pc' = [pc EXCEPT ![t] = "swap"]
    BY <1>5 DEF Probe, Goto, Lanes
  <2>2. Batch < Size(t) /\ next[t] + Batch < Size(t)
    BY <1>1, <1>5 DEF Rounds, Size
  <2>3. \A l \in Lanes : Full(t, l)
    BY <1>1, <1>2, <2>2 DEF Local
  <2>4. \A l \in Lanes : getHash(lane[t][l].idx, lane[t][l].hash) \in Nat
    <3> TAKE l \in Lanes
    <3>1. getHash(lane[t][l].idx, lane[t][l].hash) \in Bin
      BY <1>1, <2>3, Address
    <3> QED
      BY <3>1 DEF Bin
  <2>5. pc'[t] = "swap" /\ \A u \in Threads : u # t => pc'[u] = pc[u] /\ addr'[u] = addr[u]
    BY <1>1, <2>1 DEF Types
  <2>6. addr' \in [Threads -> [Lanes -> Nat]] /\ pc' \in [Threads -> Stops]
    BY <1>1, <2>1, <2>4 DEF Types, Stops
  <2>7. \A l \in Lanes : addr'[t][l] = getHash(lane[t][l].idx, lane[t][l].hash)
    BY <1>1, <2>1 DEF Types
  <2>8. Types'
    BY <1>1, <1>2, <1>4, <2>6 DEF Types
  <2>9. Frame(t)
    BY <1>2, <1>4, <2>5 DEF Frame
  <2>10. Local(t)'
    BY <1>1, <1>2, <1>4, <2>2, <2>3, <2>5, <2>7 DEF Local, Full, getHash, Size, InRound, InOne
  <2>11. Scanned(t)' /\ pc'[t] \notin Putting
    BY <2>5 DEF Scanned, Scanning, Putting
  <2> QED
    BY <1>2, <1>3, <2>8, <2>9, <2>10, <2>11, Quiet
<1>6. CASE ~ Rounds(t, next[t])
  <2>1. addr' = addr /\ pc' = [pc EXCEPT ![t] = "drain"]
    BY <1>6 DEF Probe, Goto
  <2>2. /\ pc'[t] = "drain" /\ \A u \in Threads : u # t => pc'[u] = pc[u]
        /\ pc' \in [Threads -> Stops]
    BY <1>1, <2>1 DEF Types, Stops
  <2>3. Types' /\ Frame(t)
    BY <1>1, <1>2, <1>4, <2>1, <2>2 DEF Types, Frame
  <2>4. Local(t)'
    BY <1>1, <1>2, <1>4, <2>1, <2>2 DEF Local, Full, Size, InRound, InOne, Lanes
  <2>5. Scanned(t)' /\ pc'[t] \notin Putting
    BY <2>2 DEF Scanned, Scanning, Putting
  <2> QED
    BY <1>2, <1>3, <2>3, <2>4, <2>5, Quiet
<1> QED
  BY <1>5, <1>6

LEMMA ScanStep == ASSUME Inv, NEW t \in Threads, Scan(t) PROVE Inv' /\ (Kept => Kept')
<1>1. /\ Given /\ Types /\ ItemFacts /\ Local(t) /\ Scanned(t)
      /\ Size(t) \in Nat /\ next[t] \in Nat /\ j[t] \in 1..(Batch + 1) /\ k[t] \in 0..StashSize
      /\ StashSize \in Nat
  BY Mover DEF ItemFacts
<1>2. pc[t] \in Scanning /\ UNCHANGED <<loc, bins, stash, lane, addr, next, j>>
  BY DEF Scan
<1>3. LanesKeep
  BY <1>2 DEF LanesKeep
<1>4. CASE k[t] = StashSize /\ Goto(t, "throw") /\ UNCHANGED k
  <2>1. /\ pc'[t] = "throw" /\ \A u \in Threads : u # t => pc'[u] = pc[u]
        /\ pc' \in [Threads -> Stops]
    BY <1>1, <1>4 DEF Types, Stops, Goto
  <2>2. Types' /\ Frame(t)
    BY <1>1, <1>2, <1>4, <2>1 DEF Types, Frame
  <2>3. Local(t)'
    BY <1>1, <1>2, <2>1 DEF Local, Full, Size, InRound, InOne
  <2>4. \A s \in Slot : stash[s] # NoEntry
    BY <1>1, <1>2, <1>4 DEF Scanned, Slot
  <2>5. Scanned(t)' /\ pc'[t] \notin Putting
    BY <1>2, <2>1, <2>4 DEF Scanned, Scanning, Putting
  <2> QED
    BY <1>2, <1>3, <2>2, <2>3, <2>5, Quiet
<1>5. CASE k[t] < StashSize /\ stash[k[t]] = NoEntry /\ Goto(t, PutPc(pc[t])) /\ UNCHANGED k
  <2>1. /\ pc'[t] = PutPc(pc[t]) /\ \A u \in Threads : u # t => pc'[u] = pc[u]
        /\ pc' \in [Threads -> Stops]
    BY <1>1, <1>5 DEF Types, Stops, Goto, PutPc, InRound, InOne
  <2>2. Types' /\ Frame(t)
    BY <1>1, <1>2, <1>5, <2>1 DEF Types, Frame
  <2>3. Local(t)'
    BY <1>1, <1>2, <2>1 DEF Local, Full, Size, InRound, InOne, PutPc, Scanning
  <2>4. Scanned(t)'
    BY <1>1, <1>2, <1>5, <2>1 DEF Scanned, Scanning, Putting, PutPc
  <2>5. stash[k'[t]] = NoEntry
    BY <1>5
  <2> QED
    BY <1>2, <1>3, <2>2, <2>3, <2>4, <2>5, Quiet
<1>6. CASE /\ k[t] < StashSize /\ stash[k[t]] # NoEntry
           /\ k' = [k EXCEPT ![t] = @ + 1] /\ UNCHANGED pc
  <2>1. /\ k'[t] = k[t] + 1 /\ \A u \in Threads : u # t => k'[u] = k[u]
        /\ k' \in [Threads -> 0..StashSize]
    BY <1>1, <1>6 DEF Types
  <2>2. Types' /\ Frame(t)
    BY <1>1, <1>2, <1>6, <2>1 DEF Types, Frame
  <2>3. Local(t)'
    BY <1>1, <1>2, <1>6 DEF Local, Full, Size, getHash
  <2>4. Scanned(t)' /\ pc'[t] \notin Putting
    BY <1>1, <1>2, <1>6, <2>1 DEF Scanned, Scanning, Putting, Slot
  <2> QED
    BY <1>2, <1>3, <2>2, <2>3, <2>4, Quiet
<1> QED
  BY <1>4, <1>5, <1>6 DEF Scan

\* The lane's word goes to the bin its hash names, and the bin's old word to the lane
\* (the exchanges of the rounds and those of insertOne).
LEMMA ToBin ==
  ASSUME Inv, NEW t \in Threads, NEW l \in Lanes, Full(t, l),
         NEW b, b = getHash(lane[t][l].idx, lane[t][l].hash),
         bins' = [bins EXCEPT ![b] = Word(lane[t][l])],
         NEW x \in Lane, x.idx = bins[b].idx, Puts(t, l, x),
         UNCHANGED <<loc, stash, next>>
  PROVE  /\ b \in Bin /\ bins' \in [Bin -> Entry] /\ AtHome'
         /\ Apart(Held') /\ (Present(Held) => Present(Held'))
<1>1. /\ Given /\ Types /\ ItemFacts /\ AtHome /\ Apart(Held)
      /\ lane[t][l].idx \in Items /\ lane[t][l].hash \in 0..(NumHashes - 1)
  BY Mover
<1>2. b \in Bin
  BY <1>1, Address
<1>3. Word(lane[t][l]) \in Entry
  BY <1>1 DEF Word, Entry
<1>4. bins \in [Bin -> Entry]
  BY <1>1 DEF Types
<1>5. /\ bins' \in [Bin -> Entry] /\ bins'[b] = Word(lane[t][l])
      /\ \A c \in Bin : c # b => bins'[c] = bins[c]
  BY <1>2, <1>3, <1>4
<1>6. AtHome'
  <2> SUFFICES ASSUME NEW c \in Bin, bins'[c] # NoEntry
               PROVE  loc[bins'[c].idx][bins'[c].hash] = c
    BY <1>5 DEF AtHome, getHash
  <2>1. CASE c = b
    <3>1. bins'[c].idx = lane[t][l].idx /\ bins'[c].hash = lane[t][l].hash
      BY <1>5, <2>1 DEF Word
    <3> QED
      BY <2>1, <3>1, Zenon DEF getHash
  <2>2. CASE c # b
    <3>1. bins'[c] = bins[c] /\ c \in DOMAIN bins
      BY <1>4, <1>5, <2>2
    <3> QED
      BY <1>1, <3>1 DEF AtHome, getHash
  <2> QED
    BY <2>1, <2>2
<1>7. LaneTakes(t, l, bins[b].idx)
  <2>1. LaneTakes(t, l, x.idx)
    BY <1>1, LanePut
  <2> QED
    BY <2>1, Zenon
<1>8. \A c \in Bin : bins'[c].idx = IF c = b THEN lane[t][l].idx ELSE bins[c].idx
  BY <1>5 DEF Word
<1>9. Exchanges(Held, Held', <<"lane", t, l>>, <<"bin", 0, b>>)
  BY <1>2, <1>7, <1>8, HeldLaneBin
<1>10. <<"lane", t, l>> \in Places /\ <<"bin", 0, b>> \in Places
  BY <1>2, Kinds DEF PlaceKinds
<1>11. <<"lane", t, l>> # <<"bin", 0, b>>
  OBVIOUS
<1>12. Apart(Held') /\ (Present(Held) => Present(Held'))
  BY <1>1, <1>9, <1>10, <1>11, ExchangeKeeps
<1> QED
  BY <1>2, <1>5, <1>6, <1>12

\* What is left of a bin's word in a lane.
LEMMA EvictedLane ==
  ASSUME ItemFacts, NEW x \in Lane, NEW e \in Entry
  PROVE  /\ Evicted(x, e) \in Lane /\ Evicted(x, e).idx = e.idx
         /\ Evicted(x, e).tries = x.tries
         /\ Evicted(x, e).idx # Null => Evicted(x, e).hash \in 0..(NumHashes - 1)
         /\ Finished(Evicted(x, e)) \in Lane /\ Finished(Evicted(x, e)).idx = Null
BY DEF ItemFacts, Evicted, Finished, Lane

LEMMA RehashedLane ==
  ASSUME ItemFacts, NEW x \in Lane, x.tries # Limit
  PROVE  /\ Rehashed(x) \in Lane /\ Rehashed(x).idx = x.idx
         /\ Rehashed(x).hash \in 0..(NumHashes - 1)
<1>1. x.idx \in Items \cup {Null} /\ x.hash \in 0..255 /\ x.tries \in 0..Limit
      /\ Limit \in Nat /\ NumHashes \in 1..256
  BY DEF ItemFacts
<1>2. (x.hash + 1) % NumHashes \in 0..(NumHashes - 1)
  BY <1>1
<1>3. x.tries + 1 \in 0..Limit
  BY <1>1
<1>4. (x.hash + 1) % NumHashes \in 0..255
  <2> DEFINE h == (x.hash + 1) % NumHashes
  <2> HIDE DEF h
  <2>1. h \in 0..(NumHashes - 1) => h \in 0..255
    BY <1>1
  <2> QED
    BY <1>2, <2>1 DEF h
<1> QED
  BY <1>1, <1>2, <1>3, <1>4 DEF Rehashed, Lane

LEMMA LaneSwapStep == ASSUME Inv, NEW t \in Threads, LaneSwap(t) PROVE Inv' /\ (Kept => Kept')
<1> DEFINE x == lane[t][j[t]]
           b == addr[t][j[t]]
           y == Evicted(x, bins[b])
<1>1. /\ Given /\ Types /\ ItemFacts /\ Local(t) /\ Scanned(t) /\ Front
      /\ Size(t) \in Nat /\ next[t] \in Nat /\ j[t] \in 1..(Batch + 1) /\ Batch \in Nat \ {0}
  BY Mover
<1>2. /\ pc[t] = "swap" /\ bins' = [bins EXCEPT ![b] = Word(x)]
      /\ Puts(t, j[t], y)
      /\ j' = [j EXCEPT ![t] = IF j[t] = Batch THEN 1 ELSE j[t] + 1]
      /\ pc' = [pc EXCEPT ![t] = IF j[t] = Batch THEN "settle" ELSE "swap"]
      /\ UNCHANGED <<loc, stash, addr, next, k>>
  BY DEF LaneSwap, Goto, Puts
<1>3. /\ j[t] \in Lanes /\ next[t] + Batch < Size(t) /\ Full(t, j[t])
      /\ b = getHash(x.idx, x.hash)
      /\ \A l \in Lanes : l >= j[t] =>
           Full(t, l) /\ addr[t][l] = getHash(lane[t][l].idx, lane[t][l].hash)
  BY <1>1, <1>2 DEF Local, Lanes
<1>4. x \in Lane /\ x.idx \in Items /\ x.hash \in 0..(NumHashes - 1)
  BY <1>3, Mover
<1>5. b \in Bin
  BY <1>1, <1>3, <1>4, Address
<1>6. bins[b] \in Entry
  BY <1>1, <1>5 DEF Types
<1>7. /\ y \in Lane /\ y.idx = bins[b].idx
      /\ y.idx # Null => y.hash \in 0..(NumHashes - 1)
  BY <1>1, <1>4, <1>6, EvictedLane
<1> HIDE DEF y
<1>8. /\ bins' \in [Bin -> Entry] /\ AtHome'
      /\ Apart(Held') /\ (Present(Held) => Present(Held'))
  <2>1. bins' = [bins EXCEPT ![b] = Word(lane[t][j[t]])] /\ b = getHash(lane[t][j[t]].idx, lane[t][j[t]].hash)
        /\ UNCHANGED <<loc, stash, next>>
    BY <1>2, <1>3
  <2> HIDE DEF x, b
  <2> QED
    BY <1>2, <1>3, <1>7, <2>1, ToBin, Zenon
<1>9. /\ lane' \in [Threads -> [Lanes -> Lane]] /\ lane'[t][j[t]] = y
      /\ \A m \in Lanes : m # j[t] => lane'[t][m] = lane[t][m]
      /\ \A u \in Threads : u # t => lane'[u] = lane[u]
  <2>1. Types /\ j[t] \in Lanes /\ y \in Lane /\ Puts(t, j[t], y)
    BY <1>1, <1>2, <1>3, <1>7
  <2> QED
    BY <2>1, LanePut, Zenon
<1> HIDE DEF x, b
<1>10. /\ j'[t] = (IF j[t] = Batch THEN 1 ELSE j[t] + 1)
       /\ pc'[t] = (IF j[t] = Batch THEN "settle" ELSE "swap")
       /\ \A u \in Threads : u # t => pc'[u] = pc[u] /\ j'[u] = j[u]
       /\ pc' \in [Threads -> Stops] /\ j' \in [Threads -> 1..(Batch + 1)]
  BY <1>1, <1>2, <1>3 DEF Types, Stops, InRound, Lanes
<1>11. Types'
  BY <1>1, <1>2, <1>8, <1>9, <1>10 DEF Types
<1>12. Frame(t) /\ StashGrows
  BY <1>2, <1>9, <1>10 DEF Frame, StashGrows
<1>13. Local(t)'
  <2>1. \A l \in Lanes : lane'[t][l].idx # Null => lane'[t][l].hash \in 0..(NumHashes - 1)
    BY <1>1, <1>7, <1>9 DEF Local, Full
  <2>2. CASE j[t] = Batch
    <3>1. pc'[t] = "settle" /\ j'[t] = 1 /\ next'[t] = next[t]
      BY <1>2, <1>10, <2>2
    <3> QED
      BY <1>1, <1>3, <2>1, <3>1 DEF Local, Full, Size, InRound, InOne, Lanes
  <2>3. CASE j[t] # Batch
    <3>1. pc'[t] = "swap" /\ j'[t] = j[t] + 1 /\ next'[t] = next[t] /\ addr' = addr
      BY <1>2, <1>10, <2>3
    <3>2. \A l \in Lanes : l >= j'[t] => l # j[t] /\ l >= j[t]
      BY <1>1, <3>1 DEF Lanes
    <3>3. \A l \in Lanes : l >= j'[t] =>
            lane'[t][l].idx # Null /\ addr'[t][l] = getHash(lane'[t][l].idx, lane'[t][l].hash)
      BY <1>3, <1>9, <3>1, <3>2 DEF Full
    <3>4. j'[t] <= Batch
      BY <1>1, <1>3, <2>3, <3>1 DEF Lanes
    <3> QED
      BY <1>1, <1>2, <1>3, <2>1, <3>1, <3>3, <3>4 DEF Local, Full, Size, InRound, InOne, getHash
  <2> QED
    BY <2>2, <2>3
<1>14. Scanned(t)' /\ Front' /\ pc'[t] \notin Putting
  BY <1>1, <1>2, <1>10 DEF Scanned, Front, Scanning, Putting
<1>15. Inv'
  BY <1>8, <1>11, <1>12, <1>13, <1>14, Assemble
<1>16. Kept => Kept'
  BY <1>2, <1>8, <1>12, <1>14, AssembleKept
<1> QED
  BY <1>15, <1>16

\* The lane takes the next item, and is one that a round or a tail goes on with.
LEMMA Refilled ==
  ASSUME Inv, NEW t \in Threads, NEW l \in Lanes, next[t] < Size(t),
         Puts(t, l, Taken(t, next[t] + 1)), next' = [next EXCEPT ![t] = @ + 1]
  PROVE  /\ Taken(t, next[t] + 1) \in Lane
         /\ Taken(t, next[t] + 1).idx = Work[t][next[t] + 1]
         /\ Taken(t, next[t] + 1).idx # Null
         /\ Taken(t, next[t] + 1).hash \in 0..(NumHashes - 1)
         /\ lane' \in [Threads -> [Lanes -> Lane]] /\ lane'[t][l] = Taken(t, next[t] + 1)
         /\ \A m \in Lanes : m # l => lane'[t][m] = lane[t][m]
         /\ \A u \in Threads : u # t => lane'[u] = lane[u] /\ next'[u] = next[u]
         /\ next' \in [Threads -> Nat] /\ next'[t] = next[t] + 1
         /\ LaneTakes(t, l, Work[t][next[t] + 1])
         /\ next \in [Threads -> Nat] /\ Size(t) \in Nat
<1> DEFINE x == Taken(t, next[t] + 1)
<1>1. Types /\ ItemFacts /\ Size(t) \in Nat /\ next[t] \in Nat
  BY Mover
<1>2. next \in [Threads -> Nat]
  BY <1>1 DEF Types
<1>3. Work[t][next[t] + 1] \in Items /\ Work[t][next[t] + 1] # Null /\ NumHashes \in 1..256 /\ Limit \in Nat
  BY <1>1 DEF ItemFacts
<1>4. x.idx = Work[t][next[t] + 1] /\ x.hash = 0 /\ x.hash \in 0..(NumHashes - 1) /\ x \in Lane
  BY <1>3 DEF Taken, Lane
<1> HIDE DEF x
<1>5. Puts(t, l, x)
  BY DEF x
<1>6. /\ lane' \in [Threads -> [Lanes -> Lane]] /\ lane'[t][l] = x
      /\ \A m \in Lanes : m # l => lane'[t][m] = lane[t][m]
      /\ \A u \in Threads : u # t => lane'[u] = lane[u]
      /\ LaneTakes(t, l, x.idx)
  BY <1>1, <1>4, <1>5, LanePut, Zenon
<1>7. LaneTakes(t, l, Work[t][next[t] + 1])
  BY <1>4, <1>6, Zenon
<1>8. next' \in [Threads -> Nat] /\ next'[t] = next[t] + 1 /\ \A u \in Threads : u # t => next'[u] = next[u]
  BY <1>2
<1>9. /\ x \in Lane /\ x.idx = Work[t][next[t] + 1] /\ x.idx # Null
      /\ x.hash \in 0..(NumHashes - 1)
      /\ lane' \in [Threads -> [Lanes -> Lane]] /\ lane'[t][l] = x
      /\ \A m \in Lanes : m # l => lane'[t][m] = lane[t][m]
      /\ \A u \in Threads : u # t => lane'[u] = lane[u] /\ next'[u] = next[u]
  BY <1>3, <1>4, <1>6, <1>8, Zenon
<1> QED
  BY <1>1, <1>2, <1>7, <1>8, <1>9 DEF x

\* An empty lane that does so loses and doubles nothing.
LEMMA RefillKeeps ==
  ASSUME Inv, NEW t \in Threads, NEW l \in Lanes, next[t] < Size(t), ~ Full(t, l),
         Puts(t, l, Taken(t, next[t] + 1)), next' = [next EXCEPT ![t] = @ + 1],
         UNCHANGED <<bins, stash>>
  PROVE  Apart(Held') /\ (Present(Held) => Present(Held'))
<1>1. next \in [Threads -> Nat] /\ Size(t) \in Nat /\ LaneTakes(t, l, Work[t][next[t] + 1])
  BY Refilled
<1>2. lane[t][l].idx = Null
  BY DEF Full
<1>3. /\ <<"wait", t, next[t] + 1>> \in Places /\ <<"lane", t, l>> \in Places
      /\ Exchanges(Held, Held', <<"lane", t, l>>, <<"wait", t, next[t] + 1>>)
  BY <1>1, <1>2, HeldRefill
<1>4. <<"lane", t, l>> # <<"wait", t, next[t] + 1>>
  OBVIOUS
<1>5. Apart(Held)
  BY DEF Inv
<1> QED
  BY <1>3, <1>4, <1>5, ExchangeKeeps

\* In a round, the lane at hand exists and an item is left for it.
LEMMA RoundFacts ==
  ASSUME Inv, NEW t \in Threads, pc[t] \in InRound
  PROVE  /\ j[t] \in Lanes /\ Batch < Size(t) /\ next[t] + Batch + 1 < Size(t) + j[t]
         /\ \A l \in Lanes : l < j[t] => Full(t, l)
         /\ next[t] < Size(t)
<1>1. /\ Local(t) /\ Size(t) \in Nat /\ next[t] \in Nat /\ j[t] \in 1..(Batch + 1)
      /\ Batch \in Nat \ {0}
  BY Mover
<1> QED
  BY <1>1 DEF Local, Lanes

LEMMA NextLaneMoves ==
  ASSUME Inv, NEW t \in Threads, pc[t] \in InRound, NextLane(t)
  PROVE  /\ j'[t] = (IF j[t] = Batch THEN 1 ELSE j[t] + 1)
         /\ pc'[t] = (IF j[t] = Batch THEN "probe" ELSE "settle")
         /\ \A u \in Threads : u # t => pc'[u] = pc[u] /\ j'[u] = j[u]
         /\ pc' \in [Threads -> Stops] /\ j' \in [Threads -> 1..(Batch + 1)]
<1>1. Types /\ Batch \in Nat \ {0} /\ j[t] \in Lanes
  BY Mover, RoundFacts
<1>2. /\ j' = [j EXCEPT ![t] = IF j[t] = Batch THEN 1 ELSE j[t] + 1]
      /\ pc' = [pc EXCEPT ![t] = IF j[t] = Batch THEN "probe" ELSE "settle"]
  BY DEF NextLane, Goto
<1> QED
  BY <1>1, <1>2 DEF Types, Stops, InRound, Lanes

\* The lane that is settled is full, and the batch still fits.
LEMMA LaneSettled ==
  ASSUME Inv, NEW t \in Threads, pc[t] \in InRound, NextLane(t),
         next'[t] = next[t] \/ next'[t] = next[t] + 1,
         lane'[t][j[t]].idx # Null, lane'[t][j[t]].hash \in 0..(NumHashes - 1),
         \A m \in Lanes : m # j[t] => lane'[t][m] = lane[t][m]
  PROVE  Local(t)' /\ Scanned(t)' /\ pc'[t] \notin Putting
<1>10. /\ Local(t) /\ Size(t) \in Nat /\ next[t] \in Nat /\ j[t] \in 1..(Batch + 1)
       /\ Batch \in Nat \ {0}
  BY Mover
<1>11. /\ j[t] \in Lanes /\ Batch < Size(t) /\ next[t] + Batch + 1 < Size(t) + j[t]
       /\ \A l \in Lanes : l < j[t] => Full(t, l)
       /\ next[t] < Size(t)
  BY RoundFacts
<1>1. \A l \in Lanes : lane'[t][l].idx # Null => lane'[t][l].hash \in 0..(NumHashes - 1)
  BY <1>10 DEF Local, Full
<1>2. \A l \in Lanes : l <= j[t] => lane'[t][l].idx # Null
  BY <1>10, <1>11 DEF Full, Lanes
<1>3. next'[t] <= Size(t) /\ next'[t] + Batch < Size(t) + j[t]
  BY <1>10, <1>11
<1>4. CASE j[t] = Batch
  <2>1. pc'[t] = "probe"
    BY NextLaneMoves, <1>4
  <2>2. \A l \in Lanes : lane'[t][l].idx # Null
    BY <1>10, <1>2, <1>4 DEF Lanes
  <2>3. Local(t)'
    BY <1>1, <1>3, <2>1, <2>2 DEF Local, Full, Size, InRound, InOne
  <2> QED
    BY <2>1, <2>3 DEF Scanned, Scanning, Putting
<1>5. CASE j[t] # Batch
  <2>1. pc'[t] = "settle" /\ j'[t] = j[t] + 1
    BY NextLaneMoves, <1>5
  <2>2. j'[t] <= Batch /\ next'[t] + Batch + 1 < Size(t) + j'[t]
    BY <1>10, <1>11, <1>3, <1>5, <2>1 DEF Lanes
  <2>3. \A l \in Lanes : l < j'[t] => lane'[t][l].idx # Null
    BY <1>10, <1>2, <2>1 DEF Lanes
  <2>4. Local(t)'
    BY <1>11, <1>1, <1>3, <2>1, <2>2, <2>3 DEF Local, Full, Size, InRound, InOne
  <2> QED
    BY <2>1, <2>4 DEF Scanned, Scanning, Putting
<1> QED
  BY <1>4, <1>5

LEMMA SettleStep == ASSUME Inv, NEW t \in Threads, Settle(t) PROVE Inv' /\ (Kept => Kept')
<1> DEFINE x == lane[t][j[t]]
<1>1. /\ Types /\ ItemFacts /\ Local(t) /\ Scanned(t) /\ Front /\ AtHome /\ Apart(Held)
      /\ Size(t) \in Nat /\ next[t] \in Nat /\ j[t] \in 1..(Batch + 1) /\ k[t] \in 0..StashSize
      /\ Batch \in Nat \ {0} /\ StashSize \in Nat
  BY Mover DEF ItemFacts
<1>2. pc[t] = "settle" /\ UNCHANGED <<loc, bins, stash, addr>>
  BY DEF Settle
<1>3. /\ j[t] \in Lanes /\ Batch < Size(t) /\ next[t] + Batch + 1 < Size(t) + j[t]
      /\ \A l \in Lanes : l < j[t] => Full(t, l)
      /\ next[t] < Size(t)
  BY <1>2, RoundFacts DEF InRound
<1>4. x \in Lane
  BY <1>3, Mover
<1>5. Front' /\ AtHome' /\ StashGrows
  BY <1>1, <1>2 DEF Front, AtHome, StashGrows, getHash
<1>6. ASSUME NextLane(t)
      PROVE  /\ \A u \in Threads : u # t => pc'[u] = pc[u] /\ j'[u] = j[u]
             /\ pc' \in [Threads -> Stops] /\ j' \in [Threads -> 1..(Batch + 1)]
  BY <1>2, <1>6, NextLaneMoves DEF InRound
<1>7. CASE x.idx = Null /\ Refill(t) /\ NextLane(t) /\ UNCHANGED k
  <2>1. Puts(t, j[t], Taken(t, next[t] + 1)) /\ next' = [next EXCEPT ![t] = @ + 1] /\ ~ Full(t, j[t])
    BY <1>7 DEF Refill, Puts, Full
  <2>2. /\ lane'[t][j[t]].idx # Null /\ lane'[t][j[t]].hash \in 0..(NumHashes - 1)
        /\ lane' \in [Threads -> [Lanes -> Lane]]
        /\ \A m \in Lanes : m # j[t] => lane'[t][m] = lane[t][m]
        /\ \A u \in Threads : u # t => lane'[u] = lane[u] /\ next'[u] = next[u]
        /\ next' \in [Threads -> Nat] /\ next'[t] = next[t] + 1
    <3> DEFINE l == j[t]
               y == Taken(t, next[t] + 1)
    <3>1. l \in Lanes /\ Puts(t, l, y)
      BY <1>3, <2>1
    <3> HIDE DEF l
    <3>2. /\ lane'[t][l] = y /\ y.idx # Null /\ y.hash \in 0..(NumHashes - 1)
          /\ lane' \in [Threads -> [Lanes -> Lane]]
          /\ \A m \in Lanes : m # l => lane'[t][m] = lane[t][m]
          /\ \A u \in Threads : u # t => lane'[u] = lane[u] /\ next'[u] = next[u]
          /\ next' \in [Threads -> Nat] /\ next'[t] = next[t] + 1
      BY <1>3, <2>1, <3>1, Refilled
    <3> QED
      BY <3>2 DEF l
  <2>3. Apart(Held') /\ (Present(Held) => Present(Held'))
    BY <1>2, <1>3, <2>1, RefillKeeps
  <2>4. Local(t)' /\ Scanned(t)' /\ pc'[t] \notin Putting
    BY <1>2, <1>7, <2>2, LaneSettled DEF InRound
  <2>5. Types' /\ Frame(t)
    BY <1>1, <1>2, <1>6, <1>7, <2>2 DEF Types, Frame
  <2>6. Inv'
    BY <1>5, <2>3, <2>4, <2>5, Assemble
  <2> QED
    BY <1>2, <2>3, <2>4, <2>5, <2>6, AssembleKept
<1>8. CASE /\ x.idx # Null /\ x.tries # Limit
           /\ lane' = [lane EXCEPT ![t][j[t]] = Rehashed(x)]
           /\ NextLane(t) /\ UNCHANGED <<next, k>>
  <2> DEFINE y == Rehashed(x)
  <2>1. y \in Lane /\ y.idx = x.idx /\ y.hash \in 0..(NumHashes - 1)
    BY <1>1, <1>4, <1>8, RehashedLane
  <2>2. Types /\ j[t] \in Lanes /\ y \in Lane /\ Puts(t, j[t], y)
    BY <1>1, <1>3, <1>8, <2>1 DEF Puts
  <2> HIDE DEF y
  <2>3. /\ lane' \in [Threads -> [Lanes -> Lane]] /\ lane'[t][j[t]] = y
        /\ \A m \in Lanes : m # j[t] => lane'[t][m] = lane[t][m]
        /\ \A u \in Threads : u # t => lane'[u] = lane[u]
        /\ LaneTakes(t, j[t], y.idx)
    BY <2>2, LanePut, Zenon
  <2>4. LanesKeep
    BY <2>1, <2>3 DEF LanesKeep, LaneTakes
  <2>5. Local(t)' /\ Scanned(t)' /\ pc'[t] \notin Putting
    BY <1>2, <1>8, <2>1, <2>3, LaneSettled DEF InRound
  <2>6. Types' /\ Frame(t)
    BY <1>1, <1>2, <1>6, <1>8, <2>3 DEF Types, Frame
  <2>7. UNCHANGED <<bins, stash, next>>
    BY <1>2, <1>8
  <2> QED
    BY <2>4, <2>5, <2>6, <2>7, Quiet
<1>9. CASE /\ x.idx # Null /\ x.tries = Limit
            /\ k' = [k EXCEPT ![t] = 0]
            /\ Goto(t, "scanLane") /\ UNCHANGED <<lane, next, j>>
  <2>1. /\ k'[t] = 0 /\ \A u \in Threads : u # t => k'[u] = k[u]
        /\ k' \in [Threads -> 0..StashSize]
    BY <1>1, <1>9 DEF Types
  <2>2. /\ pc'[t] = "scanLane" /\ \A u \in Threads : u # t => pc'[u] = pc[u]
        /\ pc' \in [Threads -> Stops]
    BY <1>1, <1>9 DEF Types, Stops, Goto, InRound
  <2>3. Types' /\ Frame(t)
    BY <1>1, <1>2, <1>9, <2>1, <2>2 DEF Types, Frame
  <2>4. Full(t, j[t])
    BY <1>9 DEF Full
  <2>5. Local(t)'
    BY <1>1, <1>2, <1>3, <1>9, <2>2, <2>4 DEF Local, Full, Size, InRound, InOne
  <2>6. Scanned(t)' /\ pc'[t] \notin Putting
    BY <2>1, <2>2 DEF Scanned, Scanning, Putting, Slot
  <2>7. UNCHANGED <<bins, stash, next>> /\ LanesKeep
    BY <1>2, <1>9 DEF LanesKeep
  <2> QED
    BY <2>3, <2>5, <2>6, <2>7, Quiet
<1> QED
  BY <1>7, <1>8, <1>9 DEF Settle

LEMMA DrainStep == ASSUME Inv, NEW t \in Threads, Drain(t) PROVE Inv' /\ (Kept => Kept')
<1>1. /\ Types /\ ItemFacts /\ Local(t) /\ Scanned(t) /\ Front /\ AtHome /\ Apart(Held)
      /\ Size(t) \in Nat /\ next[t] \in Nat /\ j[t] \in 1..(Batch + 1) /\ k[t] \in 0..StashSize
      /\ Batch \in Nat \ {0}
  BY Mover
<1>2. pc[t] = "drain" /\ UNCHANGED <<loc, bins, stash, addr, k>>
  BY DEF Drain
<1>3. (\A l \in Lanes : l < j[t] => ~ Full(t, l)) /\ next[t] <= Size(t)
  BY <1>1, <1>2 DEF Local
<1>4. CASE /\ j[t] <= Batch /\ lane[t][j[t]].idx # Null
           /\ Goto(t, "one") /\ UNCHANGED <<lane, next, j>>
  <2>1. /\ pc'[t] = "one" /\ \A u \in Threads : u # t => pc'[u] = pc[u]
        /\ pc' \in [Threads -> Stops]
    BY <1>1, <1>4 DEF Types, Stops, Goto, InOne
  <2>2. Types' /\ Frame(t)
    BY <1>1, <1>2, <1>4, <2>1 DEF Types, Frame
  <2>3. Local(t)'
    BY <1>1, <1>3, <1>4, <2>1 DEF Local, Full, Size, InRound, InOne
  <2>4. Scanned(t)' /\ pc'[t] \notin Putting
    BY <2>1 DEF Scanned, Scanning, Putting
  <2>5. UNCHANGED <<bins, stash, next>> /\ LanesKeep
    BY <1>2, <1>4 DEF LanesKeep
  <2> QED
    BY <2>2, <2>3, <2>4, <2>5, Quiet
<1>5. CASE /\ j[t] <= Batch /\ lane[t][j[t]].idx = Null
           /\ j' = [j EXCEPT ![t] = @ + 1] /\ UNCHANGED <<pc, lane, next>>
  <2>1. /\ j'[t] = j[t] + 1 /\ \A u \in Threads : u # t => j'[u] = j[u]
        /\ j' \in [Threads -> 1..(Batch + 1)]
    BY <1>1, <1>5 DEF Types
  <2>2. Types' /\ Frame(t)
    BY <1>1, <1>2, <1>5, <2>1 DEF Types, Frame
  <2>3. \A l \in Lanes : l < j'[t] => lane[t][l].idx = Null
    <3> TAKE l \in Lanes
    <3>1. CASE l = j[t]
      BY <1>5, <3>1
    <3>2. CASE l # j[t]
      BY <1>1, <1>3, <2>1, <3>2 DEF Full, Lanes
    <3> QED
      BY <3>1, <3>2
  <2>4. Local(t)'
    BY <1>1, <1>2, <1>3, <1>5, <2>3 DEF Local, Full, Size, InRound, InOne
  <2>5. Scanned(t)' /\ pc'[t] \notin Putting
    BY <1>2, <1>5 DEF Scanned, Scanning, Putting
  <2>6. UNCHANGED <<bins, stash, next>> /\ LanesKeep
    BY <1>2, <1>5 DEF LanesKeep
  <2> QED
    BY <2>2, <2>4, <2>5, <2>6, Quiet
<1>6. CASE /\ j[t] > Batch /\ next[t] < Len(Work[t])
           /\ lane' = [lane EXCEPT ![t][1] = Taken(t, next[t] + 1)]
           /\ next' = [next EXCEPT ![t] = @ + 1]
           /\ j' = [j EXCEPT ![t] = 1]
           /\ Goto(t, "one")
  <2>1. Puts(t, 1, Taken(t, next[t] + 1)) /\ 1 \in Lanes /\ next[t] < Size(t)
    BY <1>1, <1>6 DEF Puts, Lanes, Size
  <2>2. ~ Full(t, 1)
    BY <1>1, <1>3, <1>6, <2>1
  <2>3. /\ lane' \in [Threads -> [Lanes -> Lane]]
        /\ lane'[t][1].idx # Null /\ lane'[t][1].hash \in 0..(NumHashes - 1)
        /\ \A m \in Lanes : m # 1 => lane'[t][m] = lane[t][m]
        /\ \A u \in Threads : u # t => lane'[u] = lane[u] /\ next'[u] = next[u]
        /\ next' \in [Threads -> Nat] /\ next'[t] = next[t] + 1
    <3> DEFINE y == Taken(t, next[t] + 1)
    <3>1. Puts(t, 1, y) /\ next' = [next EXCEPT ![t] = @ + 1]
      BY <1>6, <2>1
    <3>2. /\ lane' \in [Threads -> [Lanes -> Lane]]
          /\ y.idx # Null /\ y.hash \in 0..(NumHashes - 1) /\ lane'[t][1] = y
          /\ \A m \in Lanes : m # 1 => lane'[t][m] = lane[t][m]
          /\ \A u \in Threads : u # t => lane'[u] = lane[u] /\ next'[u] = next[u]
          /\ next' \in [Threads -> Nat] /\ next'[t] = next[t] + 1
      BY <2>1, <3>1, Refilled, Zenon
    <3> QED
      BY <3>2
  <2>4. Apart(Held') /\ (Present(Held) => Present(Held'))
    BY <1>2, <1>6, <2>1, <2>2, RefillKeeps
  <2>5. /\ pc'[t] = "one" /\ j'[t] = 1
        /\ \A u \in Threads : u # t => pc'[u] = pc[u] /\ j'[u] = j[u]
        /\ pc' \in [Threads -> Stops] /\ j' \in [Threads -> 1..(Batch + 1)]
    BY <1>1, <1>6 DEF Types, Stops, Goto, InOne
  <2>6. Types' /\ Frame(t)
    BY <1>1, <1>2, <2>3, <2>5 DEF Types, Frame
  <2>7. Local(t)'
    <3>1. \A l \in Lanes : lane'[t][l].idx # Null => lane'[t][l].hash \in 0..(NumHashes - 1)
      BY <1>1, <2>3 DEF Local, Full
    <3>2. \A l \in Lanes : ~ (l < 1)
      BY <1>1 DEF Lanes
    <3> QED
      BY <1>1, <2>1, <2>3, <2>5, <3>1, <3>2 DEF Local, Full, Size, InRound, InOne
  <2>8. Scanned(t)' /\ pc'[t] \notin Putting
    BY <2>5 DEF Scanned, Scanning, Putting
  <2>9. Front' /\ AtHome' /\ StashGrows /\ stash' = stash
    BY <1>1, <1>2 DEF Front, AtHome, StashGrows, getHash
  <2>10. Inv'
    BY <2>4, <2>6, <2>7, <2>8, <2>9, Assemble
  <2> QED
    BY <2>4, <2>6, <2>8, <2>9, <2>10, AssembleKept
<1>7. CASE /\ j[t] > Batch /\ next[t] = Len(Work[t])
           /\ Goto(t, "done") /\ UNCHANGED <<lane, next, j>>
  <2>1. /\ pc'[t] = "done" /\ \A u \in Threads : u # t => pc'[u] = pc[u]
        /\ pc' \in [Threads -> Stops]
    BY <1>1, <1>7 DEF Types, Stops, Goto
  <2>2. Types' /\ Frame(t)
    BY <1>1, <1>2, <1>7, <2>1 DEF Types, Frame
  <2>3. \A l \in Lanes : ~ Full(t, l)
    BY <1>1, <1>3, <1>7 DEF Lanes
  <2>4. Local(t)'
    BY <1>1, <1>7, <2>1, <2>3 DEF Local, Full, Size, InRound, InOne
  <2>5. Scanned(t)' /\ pc'[t] \notin Putting
    BY <2>1 DEF Scanned, Scanning, Putting
  <2>6. UNCHANGED <<bins, stash, next>> /\ LanesKeep
    BY <1>2, <1>7 DEF LanesKeep
  <2> QED
    BY <2>2, <2>4, <2>5, <2>6, Quiet
<1> QED
  BY <1>4, <1>5, <1>6, <1>7 DEF Drain

LEMMA InsertOneStep == ASSUME Inv, NEW t \in Threads, InsertOne(t) PROVE Inv' /\ (Kept => Kept')
<1> DEFINE x == lane[t][j[t]]
           b == getHash(x.idx, x.hash)
           e == Evicted(x, bins[b])
<1>1. /\ Given /\ Types /\ ItemFacts /\ Local(t) /\ Scanned(t) /\ Front
      /\ Size(t) \in Nat /\ next[t] \in Nat /\ j[t] \in 1..(Batch + 1) /\ Batch \in Nat \ {0}
      /\ k[t] \in 0..StashSize /\ StashSize \in Nat
  BY Mover DEF ItemFacts
<1>2. /\ pc[t] = "one" /\ bins' = [bins EXCEPT ![b] = Word(x)]
      /\ UNCHANGED <<loc, stash, addr, next, j>>
  BY DEF InsertOne
<1>3. /\ j[t] \in Lanes /\ Full(t, j[t]) /\ next[t] <= Size(t)
      /\ \A l \in Lanes : l < j[t] => ~ Full(t, l)
  BY <1>1, <1>2 DEF Local, Lanes, InOne
<1>4. x \in Lane /\ x.idx \in Items /\ x.hash \in 0..(NumHashes - 1)
  BY <1>3, Mover
<1>5. b \in Bin /\ bins[b] \in Entry
  <2>1. b \in Bin
    BY <1>1, <1>4, Address
  <2> QED
    BY <1>1, <2>1 DEF Types
<1>6. /\ e \in Lane /\ e.idx = bins[b].idx /\ (e.idx # Null => e.hash \in 0..(NumHashes - 1))
      /\ Finished(e) \in Lane /\ Finished(e).idx = Null
  BY <1>1, <1>4, <1>5, EvictedLane
<1> HIDE DEF e
\* What the lane is left with, and where the thread goes.
<1>7. PICK y \in Lane, w \in {"drain", "one", "scanOne"} :
        /\ Puts(t, j[t], y) /\ y.idx = e.idx /\ Goto(t, w)
        /\ y.idx # Null => y.hash \in 0..(NumHashes - 1)
        /\ w = "drain" <=> y.idx = Null
        /\ (w = "scanOne" /\ k' = [k EXCEPT ![t] = 0]) \/ (w # "scanOne" /\ k' = k)
  <2>1. CASE /\ e.idx = Null
             /\ lane' = [lane EXCEPT ![t][j[t]] = Finished(e)]
             /\ Goto(t, "drain") /\ UNCHANGED k
    BY <1>6, <2>1 DEF Puts
  <2>2. CASE /\ e.idx # Null /\ e.tries # Limit
             /\ lane' = [lane EXCEPT ![t][j[t]] = Rehashed(e)]
             /\ UNCHANGED <<pc, k>>
    <3>1. Rehashed(e) \in Lane /\ Rehashed(e).idx = e.idx /\ Rehashed(e).hash \in 0..(NumHashes - 1)
      BY <1>1, <1>6, <2>2, RehashedLane
    <3>2. Goto(t, "one")
      BY <1>1, <1>2, <2>2 DEF Goto, Types
    <3> QED
      BY <2>2, <3>1, <3>2 DEF Puts
  <2>3. CASE /\ e.idx # Null /\ e.tries = Limit
             /\ lane' = [lane EXCEPT ![t][j[t]] = e]
             /\ k' = [k EXCEPT ![t] = 0] /\ Goto(t, "scanOne")
    BY <1>6, <2>3 DEF Puts
  <2> QED
    BY <2>1, <2>2, <2>3 DEF InsertOne, e
<1>8. /\ bins' \in [Bin -> Entry] /\ AtHome'
      /\ Apart(Held') /\ (Present(Held) => Present(Held'))
  <2>1. /\ bins' = [bins EXCEPT ![b] = Word(lane[t][j[t]])]
        /\ b = getHash(lane[t][j[t]].idx, lane[t][j[t]].hash)
        /\ UNCHANGED <<loc, stash, next>> /\ y.idx = bins[b].idx
    BY <1>2, <1>6, <1>7
  <2> HIDE DEF x, b
  <2> QED
    BY <1>3, <1>7, <2>1, ToBin, Zenon
<1>9. /\ lane' \in [Threads -> [Lanes -> Lane]] /\ lane'[t][j[t]] = y
      /\ \A m \in Lanes : m # j[t] => lane'[t][m] = lane[t][m]
      /\ \A u \in Threads : u # t => lane'[u] = lane[u]
  <2>1. Types /\ j[t] \in Lanes /\ y \in Lane /\ Puts(t, j[t], y)
    BY <1>1, <1>3, <1>7
  <2> QED
    BY <2>1, LanePut, Zenon
<1> HIDE DEF x, b
<1>10. /\ pc'[t] = w /\ \A u \in Threads : u # t => pc'[u] = pc[u] /\ k'[u] = k[u]
       /\ pc' \in [Threads -> Stops] /\ k' \in [Threads -> 0..StashSize]
       /\ w = "scanOne" => k'[t] = 0
  <2>1. pc' = [pc EXCEPT ![t] = w] /\ w \in Stops
    BY <1>7 DEF Goto, Stops, InOne
  <2>2. pc'[t] = w /\ (\A u \in Threads : u # t => pc'[u] = pc[u]) /\ pc' \in [Threads -> Stops]
    BY <1>1, <2>1 DEF Types
  <2>3. k \in [Threads -> 0..StashSize]
    BY <1>1 DEF Types
  <2>4. CASE w = "scanOne" /\ k' = [k EXCEPT ![t] = 0]
    BY <1>1, <2>2, <2>3, <2>4
  <2>5. CASE w # "scanOne" /\ k' = k
    BY <2>2, <2>3, <2>5
  <2> QED
    BY <1>7, <2>4, <2>5
<1>11. Types'
  BY <1>1, <1>2, <1>8, <1>9, <1>10 DEF Types
<1>12. Frame(t) /\ StashGrows
  BY <1>2, <1>9, <1>10 DEF Frame, StashGrows
<1>13. Local(t)'
  <2>1. \A l \in Lanes : lane'[t][l].idx # Null => lane'[t][l].hash \in 0..(NumHashes - 1)
    BY <1>1, <1>7, <1>9 DEF Local, Full
  <2>2. \A l \in Lanes : l < j[t] => lane'[t][l].idx = Null
    BY <1>1, <1>3, <1>9 DEF Full, Lanes
  <2>3. j'[t] = j[t] /\ next'[t] = next[t] /\ j[t] <= Batch
    BY <1>1, <1>2, <1>3 DEF Lanes
  <2> QED
    BY <1>3, <1>7, <1>9, <1>10, <2>1, <2>2, <2>3 DEF Local, Full, Size, InRound, InOne
<1>14. Scanned(t)' /\ Front' /\ pc'[t] \notin Putting
  BY <1>1, <1>2, <1>10 DEF Scanned, Front, Scanning, Putting, Slot
<1>15. Inv'
  BY <1>8, <1>11, <1>12, <1>13, <1>14, Assemble
<1>16. Kept => Kept'
  BY <1>2, <1>8, <1>12, <1>14, AssembleKept
<1> QED
  BY <1>15, <1>16

LEMMA PutStashStep ==
  ASSUME Inv, NEW t \in Threads, PutStash(t) PROVE Inv' /\ (NoClash /\ Kept => Kept')
<1> DEFINE x == lane[t][j[t]]
           at == <<"lane", t, j[t]>>
           slot == <<"stash", 0, k[t]>>
<1>1. /\ Given /\ Types /\ ItemFacts /\ Local(t) /\ Scanned(t) /\ Front /\ AtHome /\ Apart(Held)
      /\ Size(t) \in Nat /\ next[t] \in Nat /\ j[t] \in 1..(Batch + 1) /\ Batch \in Nat \ {0}
      /\ k[t] \in 0..StashSize /\ StashSize \in Nat
  BY Mover DEF ItemFacts
<1>2. /\ pc[t] \in Putting /\ stash' = [stash EXCEPT ![k[t]] = Word(x)]
      /\ UNCHANGED <<loc, bins, addr, k>>
  BY DEF PutStash, Putting
<1>3. /\ j[t] \in Lanes /\ Full(t, j[t]) /\ next[t] <= Size(t)
  BY <1>1, <1>2, RoundFacts DEF Local, Lanes, InOne, InRound, Putting
<1>4. x \in Lane /\ x.idx \in Items /\ x.hash \in 0..(NumHashes - 1)
  BY <1>3, Mover
<1>5. k[t] \in Slot /\ \A s \in Slot : s < k[t] => stash[s] # NoEntry
  BY <1>1, <1>2 DEF Scanned, Slot
<1>6. Word(x) \in Entry /\ Word(x) # NoEntry /\ Word(x).idx = x.idx
  <2>1. Word(x) \in Entry /\ Word(x).idx = x.idx
    BY <1>4 DEF Word, Entry
  <2> QED
    BY <1>1, <1>4, <2>1 DEF ItemFacts
<1>7. /\ stash' \in [Slot -> Entry] /\ stash'[k[t]] = Word(x)
      /\ \A s \in Slot : s # k[t] => stash'[s] = stash[s]
  <2> DEFINE y == Word(x)
  <2>1. stash \in [Slot -> Entry] /\ y \in Entry /\ stash' = [stash EXCEPT ![k[t]] = y]
    BY <1>1, <1>2, <1>6 DEF Types
  <2> HIDE DEF y
  <2>2. /\ stash' \in [Slot -> Entry] /\ stash'[k[t]] = y
        /\ \A s \in Slot : s # k[t] => stash'[s] = stash[s]
    BY <1>5, <2>1
  <2> QED
    BY <2>2 DEF y
<1>8. StashGrows
  BY <1>6, <1>7 DEF StashGrows
<1>9. Front'
  <2> SUFFICES ASSUME NEW s \in Slot, stash'[s] # NoEntry, NEW r \in Slot, r < s
               PROVE  stash'[r] # NoEntry
    BY DEF Front
  <2>1. CASE s = k[t]
    BY <1>5, <1>8, <2>1 DEF StashGrows
  <2>2. CASE s # k[t]
    BY <1>1, <1>7, <1>8, <2>2 DEF Front, StashGrows
  <2> QED
    BY <2>1, <2>2
<1>10. AtHome'
  BY <1>1, <1>2 DEF AtHome, getHash
<1>11. \A r \in Slot : stash'[r].idx = IF r = k[t] THEN x.idx ELSE stash[r].idx
  BY <1>6, <1>7
\* The slot was free, and nobody else has chosen it.
<1>12. ASSUME NoClash, Kept, Frame(t), pc'[t] \notin Putting,
              Held[slot] = Null /\ Present(Held) => Present(Held')
       PROVE  Kept'
  <2>1. stash[k[t]] = NoEntry
    BY <1>2, <1>12 DEF Kept
  <2>2. Held[slot] = Null
    BY <1>5, <2>1, Kinds DEF PlaceKinds, NoEntry
  <2>3. Present(Held)'
    BY <1>12, <2>2 DEF Kept, Present
  <2>4. ASSUME NEW u \in Threads, pc'[u] \in Putting PROVE stash'[k'[u]] = NoEntry
    <3>1. u # t /\ pc[u] \in Putting /\ k'[u] = k[u]
      BY <1>2, <1>12, <2>4 DEF Frame
    <3>2. k[u] # k[t] /\ stash[k[u]] = NoEntry
      BY <1>2, <1>12, <3>1 DEF NoClash, Kept
    <3>3. k[u] \in Slot
      <4>1. k[u] < StashSize /\ k[u] \in 0..StashSize
        BY <1>1, <3>1 DEF Inv, Scanned, Types
      <4> QED
        BY <1>1, <4>1 DEF Slot
    <3> QED
      BY <1>7, <3>1, <3>2, <3>3
  <2> QED
    BY <2>3, <2>4 DEF Kept
<1>13. CASE pc[t] = "putLane" /\ Refill(t) /\ NextLane(t)
  <2>1. /\ Puts(t, j[t], Taken(t, next[t] + 1)) /\ next' = [next EXCEPT ![t] = @ + 1]
        /\ next[t] < Size(t)
    BY <1>13, RoundFacts DEF Refill, Puts, InRound
  <2>2. /\ lane'[t][j[t]].idx # Null /\ lane'[t][j[t]].hash \in 0..(NumHashes - 1)
        /\ lane' \in [Threads -> [Lanes -> Lane]]
        /\ \A m \in Lanes : m # j[t] => lane'[t][m] = lane[t][m]
        /\ \A u \in Threads : u # t => lane'[u] = lane[u] /\ next'[u] = next[u]
        /\ next' \in [Threads -> Nat] /\ next'[t] = next[t] + 1
        /\ LaneTakes(t, j[t], Work[t][next[t] + 1]) /\ next \in [Threads -> Nat]
    <3> DEFINE l == j[t]
               y == Taken(t, next[t] + 1)
    <3>1. l \in Lanes /\ Puts(t, l, y)
      BY <1>3, <2>1
    <3> HIDE DEF l
    <3>2. /\ lane'[t][l] = y /\ y.idx # Null /\ y.hash \in 0..(NumHashes - 1)
          /\ lane' \in [Threads -> [Lanes -> Lane]]
          /\ \A m \in Lanes : m # l => lane'[t][m] = lane[t][m]
          /\ \A u \in Threads : u # t => lane'[u] = lane[u] /\ next'[u] = next[u]
          /\ next' \in [Threads -> Nat] /\ next'[t] = next[t] + 1
          /\ LaneTakes(t, l, Work[t][next[t] + 1]) /\ next \in [Threads -> Nat]
      BY <2>1, <3>1, Refilled
    <3> QED
      BY <3>2 DEF l
  <2> DEFINE w == <<"wait", t, next[t] + 1>>
             f == Between(at, slot)
  <2>3. /\ at \in Places /\ slot \in Places /\ w \in Places
        /\ Replaces(Held, f, at, slot) /\ Exchanges(f, Held', at, w)
    <3>1. StashedAndRefilled(at, slot, w)
      BY <1>1, <1>2, <1>3, <1>5, <1>11, <2>1, <2>2, HeldToStashRefill
    <3> QED
      BY <3>1 DEF StashedAndRefilled
  <2>4. at # slot /\ at # w
    OBVIOUS
  <2> HIDE DEF f, at, slot, w
  <2>5. Apart(Held')
    <3>1. Apart(f)
      BY <1>1, <2>3, <2>4, ReplaceKeeps
    <3> QED
      BY <2>3, <2>4, <3>1, ExchangeKeeps
  <2>6. Held[slot] = Null /\ Present(Held) => Present(Held')
    <3> SUFFICES ASSUME Held[slot] = Null, Present(Held) PROVE Present(Held')
      OBVIOUS
    <3>1. Exchanges(Held, f, at, slot)
      BY <2>3, <2>4, ReplaceKeeps
    <3>2. Present(f)
      BY <2>3, <2>4, <3>1, ExchangeKeeps
    <3> QED
      BY <2>3, <2>4, <3>2, ExchangeKeeps
  <2>7. Local(t)' /\ Scanned(t)' /\ pc'[t] \notin Putting
    BY <1>13, <2>2, LaneSettled DEF InRound
  <2>8. /\ \A u \in Threads : u # t => pc'[u] = pc[u] /\ j'[u] = j[u]
        /\ pc' \in [Threads -> Stops] /\ j' \in [Threads -> 1..(Batch + 1)]
    BY <1>13, NextLaneMoves DEF InRound
  <2>9. Types' /\ Frame(t)
    BY <1>1, <1>2, <1>7, <2>2, <2>8 DEF Types, Frame
  <2>10. Inv'
    BY <1>8, <1>9, <1>10, <2>5, <2>7, <2>9, Assemble
  <2> QED
    BY <1>12, <2>6, <2>7, <2>9, <2>10
<1>14. CASE /\ pc[t] = "putOne" /\ lane' = [lane EXCEPT ![t][j[t]] = Finished(x)]
            /\ Goto(t, "drain") /\ UNCHANGED <<next, j>>
  <2> DEFINE y == Finished(x)
  <2>1. y \in Lane /\ y.idx = Null /\ Puts(t, j[t], y)
    BY <1>1, <1>4, <1>14 DEF Finished, Lane, ItemFacts, Puts
  <2> HIDE DEF y
  <2>2. /\ lane' \in [Threads -> [Lanes -> Lane]] /\ lane'[t][j[t]] = y
        /\ \A m \in Lanes : m # j[t] => lane'[t][m] = lane[t][m]
        /\ \A u \in Threads : u # t => lane'[u] = lane[u]
        /\ LaneTakes(t, j[t], y.idx)
    <3>1. Types /\ j[t] \in Lanes /\ y \in Lane /\ Puts(t, j[t], y)
      BY <1>1, <1>3, <2>1
    <3> QED
      BY <3>1, LanePut, Zenon
  <2>3. LaneTakes(t, j[t], Null)
    BY <2>1, <2>2, Zenon
  <2>4. /\ at \in Places /\ slot \in Places /\ Replaces(Held, Held', at, slot)
    BY <1>2, <1>3, <1>5, <1>11, <1>14, <2>3, HeldToStash
  <2>5. at # slot
    OBVIOUS
  <2> HIDE DEF at, slot
  <2>6. Apart(Held')
    BY <1>1, <2>4, <2>5, ReplaceKeeps
  <2>7. Held[slot] = Null /\ Present(Held) => Present(Held')
    BY <2>4, <2>5, ReplaceKeeps, ExchangeKeeps
  <2>8. /\ pc'[t] = "drain" /\ \A u \in Threads : u # t => pc'[u] = pc[u]
        /\ pc' \in [Threads -> Stops]
    BY <1>1, <1>14 DEF Types, Stops, Goto
  <2>9. Types' /\ Frame(t)
    BY <1>1, <1>2, <1>7, <1>14, <2>2, <2>8 DEF Types, Frame
  <2>10. Local(t)'
    <3>1. \A l \in Lanes : lane'[t][l].idx # Null => lane'[t][l].hash \in 0..(NumHashes - 1)
      BY <1>1, <2>1, <2>2 DEF Local, Full
    <3>2. \A l \in Lanes : l < j[t] => lane'[t][l].idx = Null
      BY <1>1, <1>14, <2>1, <2>2 DEF Local, Full, InOne
    <3> QED
      BY <1>3, <1>14, <2>8, <3>1, <3>2 DEF Local, Full, Size, InRound, InOne
  <2>11. Scanned(t)' /\ pc'[t] \notin Putting
    BY <2>8 DEF Scanned, Scanning, Putting
  <2>12. Inv'
    BY <1>8, <1>9, <1>10, <2>6, <2>9, <2>10, <2>11, Assemble
  <2> QED
    BY <1>12, <2>7, <2>9, <2>11, <2>12
<1> QED
  BY <1>2, <1>13, <1>14 DEF PutStash, Putting

-----------------------------------------------------------------------------
(* The initial state, and the invariant.                                   *)

\* At first a lane has the item of its number, and the rest waits.
LEMMA FirstHeld ==
  ASSUME Given, Init, NEW p \in Places, Held[p] # Null
  PROVE  \E t \in Threads : \E n \in 1..Size(t) :
           /\ Held[p] = Work[t][n]
           /\ p = <<IF n > next[t] THEN "wait" ELSE "lane", t, n>>
<1>1. ItemFacts
  BY ItemFactsHold
<1>2. CASE \E t \in Threads : \E n \in Nat : p = <<"wait", t, n>>
  <2>1. PICK t \in Threads, n \in Nat : p = <<"wait", t, n>>
    BY <1>2, Zenon
  <2>2. Held[p] = IF n \in (next[t] + 1)..Size(t) THEN Work[t][n] ELSE Null
    BY <2>1, Kinds, Zenon DEF PlaceKinds
  <2>3. n \in (next[t] + 1)..Size(t) /\ Held[p] = Work[t][n]
    BY <2>2
  <2>4. next[t] \in Nat
    BY <1>1 DEF Init, ItemFacts, Size
  <2>5. n > next[t] /\ n \in 1..Size(t)
    BY <1>1, <2>3, <2>4 DEF ItemFacts
  <2> QED
    BY <2>1, <2>3, <2>5
<1>3. CASE \E t \in Threads : \E l \in Lanes : p = <<"lane", t, l>>
  <2>1. PICK t \in Threads, l \in Lanes : p = <<"lane", t, l>>
    BY <1>3, Zenon
  <2>2. Held[p] = lane[t][l].idx
    BY <2>1, Kinds, Zenon DEF PlaceKinds
  <2>3. lane[t][l] = IF l <= Size(t) THEN Taken(t, l) ELSE NoLane
    BY DEF Init, FirstLanes, Lanes, Size
  <2>4. l <= Size(t) /\ Held[p] = Work[t][l]
    BY <2>2, <2>3 DEF Taken, NoLane
  <2>5. ~ (l > next[t]) /\ l \in 1..Size(t)
    BY <1>1, <2>4 DEF Init, Size, Lanes, ItemFacts
  <2> QED
    BY <2>1, <2>4, <2>5
<1>4. CASE \E c \in Bin : p = <<"bin", 0, c>>
  <2>1. PICK c \in Bin : p = <<"bin", 0, c>>
    BY <1>4, Zenon
  <2>2. Held[p] = bins[c].idx
    BY <2>1, Kinds, Zenon DEF PlaceKinds
  <2> QED
    BY <2>2 DEF Init, Bin, NoEntry
<1>5. CASE \E c \in Slot : p = <<"stash", 0, c>>
  <2>1. PICK c \in Slot : p = <<"stash", 0, c>>
    BY <1>5, Zenon
  <2>2. Held[p] = stash[c].idx
    BY <2>1, Kinds, Zenon DEF PlaceKinds
  <2> QED
    BY <2>2 DEF Init, Slot, NoEntry, EmptyStash
<1> QED
  BY <1>2, <1>3, <1>4, <1>5, OneOfFour, Zenon

LEMMA InvInit == Given /\ Init => Inv /\ Kept
<1> SUFFICES ASSUME Given, Init PROVE Inv /\ Kept
  OBVIOUS
<1>1. ItemFacts
  BY ItemFactsHold
<1>2. NoEntry \in Entry
  BY DEF Entry
<1>3. ASSUME NEW t \in Threads
      PROVE  /\ next[t] \in Nat /\ next[t] <= Size(t) /\ next[t] <= Batch /\ Size(t) \in Nat
             /\ \A l \in Lanes : l <= Size(t) <=> l <= next[t]
             /\ Size(t) > Batch => next[t] = Batch
  BY <1>1 DEF Init, Size, ItemFacts, Lanes
<1>4. ASSUME NEW t \in Threads, NEW l \in Lanes
      PROVE  /\ lane[t][l] = IF l <= Size(t) THEN Taken(t, l) ELSE NoLane
             /\ lane[t][l] \in Lane /\ lane[t][l].hash = 0
             /\ l <= Size(t) => lane[t][l].idx = Work[t][l] /\ lane[t][l].idx # Null
             /\ ~ (l <= Size(t)) => lane[t][l].idx = Null
  <2>1. lane[t][l] = IF l <= Size(t) THEN Taken(t, l) ELSE NoLane
    BY DEF Init, FirstLanes, Lanes, Size
  <2>2. l <= Size(t) => Work[t][l] \in Items /\ Work[t][l] # Null
    BY <1>1 DEF ItemFacts, Lanes
  <2>3. 0 \in 0..Limit
    BY <1>1 DEF ItemFacts
  <2> QED
    BY <2>1, <2>2, <2>3 DEF Taken, NoLane, Lane
<1>5. Types
  <2>1. lane = [t \in Threads |-> FirstLanes(t)]
    BY DEF Init
  <2>2. lane \in [Threads -> [Lanes -> Lane]]
    <3>1. ASSUME NEW t \in Threads PROVE lane[t] \in [Lanes -> Lane]
      <4>1. lane[t] = [l \in Lanes |-> IF l <= Len(Work[t]) THEN Taken(t, l) ELSE NoLane]
        BY <2>1 DEF FirstLanes, Lanes
      <4> QED
        BY <1>4, <4>1 DEF Size
    <3> QED
      BY <2>1, <3>1
  <2>3. addr \in [Threads -> [Lanes -> Nat]] /\ pc \in [Threads -> Stops]
    BY DEF Init, Lanes, Stops
  <2>4. next \in [Threads -> Nat] /\ j \in [Threads -> 1..(Batch + 1)] /\ k \in [Threads -> 0..StashSize]
    BY <1>1, <1>3 DEF Init, ItemFacts
  <2>5. bins \in [Bin -> Entry] /\ stash \in [Slot -> Entry] /\ loc \in [Items -> Rows]
    BY <1>2 DEF Init, EmptyStash, Bin, Slot
  <2> QED
    BY <2>2, <2>3, <2>4, <2>5 DEF Types
<1>6. ASSUME NEW t \in Threads PROVE Local(t) /\ Scanned(t)
  <2>1. pc[t] = "probe"
    BY DEF Init
  <2>2. \A l \in Lanes : lane[t][l].hash \in 0..(NumHashes - 1)
    BY <1>1, <1>4 DEF ItemFacts
  <2>3. Size(t) > Batch => \A l \in Lanes : Full(t, l)
    BY <1>1, <1>3, <1>4 DEF Full, Lanes, ItemFacts
  <2> QED
    BY <1>3, <2>1, <2>2, <2>3 DEF Local, Scanned, InRound, InOne, Scanning, Putting
<1>7. Front /\ AtHome
  BY DEF Init, Front, AtHome, EmptyStash, Slot
<1>8. Apart(Held)
  <2> SUFFICES ASSUME NEW p \in Places, NEW r \in Places, Held[p] = Held[r], Held[p] # Null
               PROVE  p = r
    BY Zenon DEF Apart
  <2>1. PICK t \in Threads : \E n \in 1..Size(t) :
          Held[p] = Work[t][n] /\ p = <<IF n > next[t] THEN "wait" ELSE "lane", t, n>>
    BY FirstHeld, Zenon
  <2>2. PICK n \in 1..Size(t) :
          Held[p] = Work[t][n] /\ p = <<IF n > next[t] THEN "wait" ELSE "lane", t, n>>
    BY <2>1, Zenon
  <2>3. PICK u \in Threads : \E m \in 1..Size(u) :
          Held[r] = Work[u][m] /\ r = <<IF m > next[u] THEN "wait" ELSE "lane", u, m>>
    BY FirstHeld, Zenon
  <2>4. PICK m \in 1..Size(u) :
          Held[r] = Work[u][m] /\ r = <<IF m > next[u] THEN "wait" ELSE "lane", u, m>>
    BY <2>3, Zenon
  <2>5. n \in DOMAIN Work[t] /\ m \in DOMAIN Work[u]
    BY DEF Size, Given, SizesAssumption
  <2>6. WorkAssumption /\ Work[t][n] = Work[u][m]
    BY <2>2, <2>4, Zenon DEF Given
  <2>7. t = u /\ n = m
    <3>1. \A x \in DOMAIN Work[t], y \in DOMAIN Work[u] : Work[t][x] = Work[u][y] => t = u /\ x = y
      BY <2>6, Zenon DEF WorkAssumption
    <3> HIDE DEF Threads
    <3> QED
      BY <2>5, <2>6, <3>1
  <2> QED
    BY <2>2, <2>4, <2>7
<1>9. Present(Held)
  <2> SUFFICES ASSUME NEW i \in Items PROVE \E p \in Places : Held[p] = i
    BY Zenon DEF Present
  <2>0. PICK t \in Threads : i \in {Work[t][n] : n \in DOMAIN Work[t]}
    BY DEF Items
  <2>1. PICK n \in DOMAIN Work[t] : Work[t][n] = i
    BY <2>0
  <2>2. n \in 1..Size(t) /\ n \in Nat
    BY DEF Size, Given, SizesAssumption
  <2>3. CASE n <= next[t]
    <3>1. n \in Lanes
      BY <1>1, <1>3, <2>2, <2>3 DEF Lanes, ItemFacts
    <3>2. lane[t][n].idx = i
      BY <1>3, <1>4, <2>1, <2>3, <3>1
    <3> QED
      BY <3>1, <3>2, Kinds, Zenon DEF PlaceKinds
  <2>4. CASE ~ (n <= next[t])
    <3>1. n \in (next[t] + 1)..Size(t)
      BY <1>3, <2>2, <2>4
    <3>2. Held[<<"wait", t, n>>] = i /\ <<"wait", t, n>> \in Places
      BY <2>1, <2>2, <3>1, Kinds DEF PlaceKinds
    <3> QED
      BY <3>2, Zenon
  <2> QED
    BY <2>3, <2>4
<1>10. \A t \in Threads : pc[t] \notin Putting
  BY DEF Init, Putting
<1> QED
  BY <1>5, <1>6, <1>7, <1>8, <1>9, <1>10 DEF Inv, Kept

LEMMA InvStep == Inv /\ [Next]_vars => Inv' /\ (NoClash /\ Kept => Kept')
<1> SUFFICES ASSUME Inv, [Next]_vars PROVE Inv' /\ (NoClash /\ Kept => Kept')
  OBVIOUS
<1>1. ASSUME NEW t \in Threads, Step(t) PROVE Inv' /\ (NoClash /\ Kept => Kept')
  <2>1. CASE Probe(t)
    BY <2>1, ProbeStep
  <2>2. CASE LaneSwap(t)
    BY <2>2, LaneSwapStep
  <2>3. CASE Settle(t)
    BY <2>3, SettleStep
  <2>4. CASE Drain(t)
    BY <2>4, DrainStep
  <2>5. CASE InsertOne(t)
    BY <2>5, InsertOneStep
  <2>6. CASE Scan(t)
    BY <2>6, ScanStep
  <2>7. CASE PutStash(t)
    BY <2>7, PutStashStep
  <2> QED
    BY <1>1, <2>1, <2>2, <2>3, <2>4, <2>5, <2>6, <2>7 DEF Step
<1>2. CASE UNCHANGED vars
  <2>1. UNCHANGED <<loc, bins, stash, pc, lane, addr, next, j, k>>
    BY <1>2 DEF vars
  <2>2. Held' = Held
    BY <2>1, Zenon DEF Held, Size
  <2>3. Given' /\ Types' /\ Front' /\ AtHome'
    BY <2>1 DEF Inv, Given, RowsAssumption, WorkAssumption, SizesAssumption, Types, Front, AtHome, getHash
  <2>4. ASSUME NEW t \in Threads PROVE Local(t)' /\ Scanned(t)'
    <3>1. Local(t) /\ Scanned(t)
      BY DEF Inv
    <3> QED
      BY <2>1, <3>1, Zenon DEF Local, Scanned, Full, Size, getHash
  <2>5. (Apart(Held))' /\ (Kept => Kept')
    <3>1. Apart(Held)
      BY DEF Inv
    <3> QED
      BY <2>1, <2>2, <3>1, Zenon DEF Apart, Kept, Present
  <2> QED
    BY <2>3, <2>4, <2>5, Zenon DEF Inv
<1> QED
  BY <1>1, <1>2 DEF Next

-----------------------------------------------------------------------------
(* From the places to what the runs check.                                 *)

\* PlacesOf leaves out which of a thread's waiting items it is.
Shown(p) == IF p[1] = "wait" THEN <<"wait", p[2], 0>> ELSE p

LEMMA ShownPlaces ==
  ASSUME Given, Types, NEW i \in Items
  PROVE  /\ \A x \in PlacesOf(i) : \E p \in Places : Held[p] = i /\ x = Shown(p)
         /\ \A p \in Places : Held[p] = i => Shown(p) \in PlacesOf(i)
<1>1. ItemFacts
  BY ItemFactsHold
<1>2. DOMAIN bins = Bin /\ DOMAIN stash = Slot
  BY DEF Types
<1>3. ASSUME NEW t \in Threads, NEW n \in Nat
      PROVE  /\ <<"wait", t, n>> \in Places /\ Shown(<<"wait", t, n>>) = <<"wait", t, 0>>
             /\ Held[<<"wait", t, n>>] = i <=> n \in (next[t] + 1)..Size(t) /\ Work[t][n] = i
  <2>1. Held[<<"wait", t, n>>] = IF n \in (next[t] + 1)..Size(t) THEN Work[t][n] ELSE Null
    BY Kinds, Zenon DEF PlaceKinds
  <2>2. i # Null
    BY <1>1, Zenon DEF ItemFacts
  <2> QED
    BY <2>1, <2>2, Kinds DEF PlaceKinds, Shown
<1>4. ASSUME NEW t \in Threads, NEW l \in Lanes
      PROVE  /\ <<"lane", t, l>> \in Places /\ Shown(<<"lane", t, l>>) = <<"lane", t, l>>
             /\ Held[<<"lane", t, l>>] = lane[t][l].idx
  BY Kinds DEF PlaceKinds, Shown
<1>5. ASSUME NEW c \in Bin
      PROVE  /\ <<"bin", 0, c>> \in Places /\ Shown(<<"bin", 0, c>>) = <<"bin", 0, c>>
             /\ Held[<<"bin", 0, c>>] = bins[c].idx
  BY Kinds DEF PlaceKinds, Shown
<1>6. ASSUME NEW c \in Slot
      PROVE  /\ <<"stash", 0, c>> \in Places /\ Shown(<<"stash", 0, c>>) = <<"stash", 0, c>>
             /\ Held[<<"stash", 0, c>>] = stash[c].idx
  BY Kinds DEF PlaceKinds, Shown
<1>7. ASSUME NEW t \in Threads
      PROVE  i \in Waiting(t) <=> \E n \in (next[t] + 1)..Size(t) : Work[t][n] = i
  BY DEF Waiting, Size
<1>8. ASSUME NEW t \in Threads, NEW n \in (next[t] + 1)..Size(t) PROVE n \in Nat
  BY <1>1 DEF Types, ItemFacts
<1>9. ASSUME NEW x \in PlacesOf(i) PROVE \E p \in Places : Held[p] = i /\ x = Shown(p)
  <2>1. \/ \E t \in Threads : i \in Waiting(t) /\ x = <<"wait", t, 0>>
        \/ \E t \in Threads : \E l \in Lanes : lane[t][l].idx = i /\ x = <<"lane", t, l>>
        \/ \E c \in Bin : bins[c].idx = i /\ x = <<"bin", 0, c>>
        \/ \E c \in Slot : stash[c].idx = i /\ x = <<"stash", 0, c>>
    BY <1>2 DEF PlacesOf, Lanes
  <2>2. CASE \E t \in Threads : i \in Waiting(t) /\ x = <<"wait", t, 0>>
    <3>1. PICK t \in Threads : i \in Waiting(t) /\ x = <<"wait", t, 0>>
      BY <2>2
    <3>2. PICK n \in (next[t] + 1)..Size(t) : Work[t][n] = i
      BY <1>7, <3>1, Zenon
    <3>3. n \in Nat
      BY <1>8, <3>2, Zenon
    <3> QED
      BY <1>3, <3>1, <3>2, <3>3, Zenon
  <2>3. CASE \E t \in Threads : \E l \in Lanes : lane[t][l].idx = i /\ x = <<"lane", t, l>>
    BY <1>4, <2>3, Zenon
  <2>4. CASE \E c \in Bin : bins[c].idx = i /\ x = <<"bin", 0, c>>
    BY <1>5, <2>4, Zenon
  <2>5. CASE \E c \in Slot : stash[c].idx = i /\ x = <<"stash", 0, c>>
    BY <1>6, <2>5, Zenon
  <2> QED
    BY <2>1, <2>2, <2>3, <2>4, <2>5, Zenon
<1>10. ASSUME NEW p \in Places, Held[p] = i PROVE Shown(p) \in PlacesOf(i)
  <2>1. CASE \E t \in Threads : \E n \in Nat : p = <<"wait", t, n>>
    <3>1. PICK t \in Threads, n \in Nat : p = <<"wait", t, n>>
      BY <2>1
    <3>2. i \in Waiting(t)
      BY <1>3, <1>7, <1>10, <3>1, Zenon
    <3>3. Shown(p) = <<"wait", t, 0>>
      BY <1>3, <3>1, Zenon
    <3> QED
      BY <3>2, <3>3 DEF PlacesOf
  <2>2. CASE \E t \in Threads : \E l \in Lanes : p = <<"lane", t, l>>
    <3>1. PICK t \in Threads, l \in Lanes : p = <<"lane", t, l>>
      BY <2>2
    <3>2. lane[t][l].idx = i /\ Shown(p) = <<"lane", t, l>>
      BY <1>4, <1>10, <3>1, Zenon
    <3>3. <<t, l>> \in {x \in Threads \X (1..Batch) : lane[x[1]][x[2]].idx = i}
      BY <3>2 DEF Lanes
    <3>4. <<"lane", t, l>> \in {<<"lane", x[1], x[2]>> :
                                 x \in {x \in Threads \X (1..Batch) : lane[x[1]][x[2]].idx = i}}
      <4> DEFINE z == <<t, l>>
      <4>1. <<"lane", t, l>> = <<"lane", z[1], z[2]>>
        OBVIOUS
      <4> HIDE DEF z
      <4> QED
        BY <3>3, <4>1 DEF z
    <3> QED
      BY <3>2, <3>4 DEF PlacesOf
  <2>3. CASE \E c \in Bin : p = <<"bin", 0, c>>
    <3>1. PICK c \in Bin : p = <<"bin", 0, c>>
      BY <2>3
    <3>2. bins[c].idx = i /\ Shown(p) = <<"bin", 0, c>> /\ c \in DOMAIN bins
      BY <1>2, <1>5, <1>10, <3>1, Zenon
    <3> QED
      BY <3>2 DEF PlacesOf
  <2>4. CASE \E c \in Slot : p = <<"stash", 0, c>>
    <3>1. PICK c \in Slot : p = <<"stash", 0, c>>
      BY <2>4
    <3>2. stash[c].idx = i /\ Shown(p) = <<"stash", 0, c>> /\ c \in DOMAIN stash
      BY <1>2, <1>6, <1>10, <3>1, Zenon
    <3> QED
      BY <3>2 DEF PlacesOf
  <2> QED
    BY <2>1, <2>2, <2>3, <2>4, OneOfFour, Zenon
<1> QED
  BY <1>9, <1>10, Zenon

LEMMA AtOnePlace ==
  /\ Inv => AtMostOnce
  /\ Inv /\ Kept => Conserved
<1>1. ASSUME Inv, NEW i \in Items
      PROVE  /\ PlacesOf(i) = {} \/ \E x : PlacesOf(i) = {x}
             /\ Kept => PlacesOf(i) # {}
  <2>1. Given /\ Types /\ Apart(Held) /\ i \in Nat /\ i # Null
    BY <1>1, ItemFactsHold DEF Inv, ItemFacts
  <2>2. ASSUME NEW x \in PlacesOf(i), NEW y \in PlacesOf(i) PROVE x = y
    <3>1. PICK p \in Places : Held[p] = i /\ x = Shown(p)
      BY <2>1, ShownPlaces, Zenon
    <3>2. PICK q \in Places : Held[q] = i /\ y = Shown(q)
      BY <2>1, ShownPlaces, Zenon
    <3>3. p = q
      BY <2>1, <3>1, <3>2, Zenon DEF Apart
    <3> QED
      BY <3>1, <3>2, <3>3
  <2>3. ASSUME Kept PROVE PlacesOf(i) # {}
    <3>1. PICK p \in Places : Held[p] = i
      BY <2>3, Zenon DEF Kept, Present
    <3> QED
      BY <2>1, <3>1, ShownPlaces
  <2>4. ASSUME NEW x \in PlacesOf(i) PROVE PlacesOf(i) = {x}
    BY <2>2
  <2> QED
    BY <2>3, <2>4
<1>2. \A S : /\ S = {} => Cardinality(S) = 0
             /\ (\E x : S = {x}) => Cardinality(S) = 1
  BY FS_EmptySet, FS_Singleton, Zenon
<1>3. ASSUME Inv, NEW i \in Items
      PROVE  Cardinality(PlacesOf(i)) <= 1 /\ (Kept => Cardinality(PlacesOf(i)) = 1)
  <2>1. CASE PlacesOf(i) = {}
    <3>1. Cardinality(PlacesOf(i)) = 0 /\ ~ Kept
      BY <1>1, <1>2, <1>3, <2>1, Zenon
    <3> QED
      BY <3>1
  <2>2. CASE \E x : PlacesOf(i) = {x}
    <3>1. Cardinality(PlacesOf(i)) = 1
      BY <1>2, <2>2, Zenon
    <3> QED
      BY <3>1
  <2> QED
    BY <1>1, <1>3, <2>1, <2>2, Zenon
<1>4. ASSUME Inv PROVE AtMostOnce
  BY <1>3, <1>4, Zenon DEF AtMostOnce
<1>5. ASSUME Inv, Kept PROVE Conserved
  BY <1>3, <1>5, Zenon DEF Conserved
<1> QED
  BY <1>4, <1>5

-----------------------------------------------------------------------------
(* What the readers find when all inserts returned.                        *)

Numbers == INSTANCE FieldLemmas WITH M <- 1

RowsOf(i) == {h \in 0..(NumHashes - 1) : bins[loc[i][h]].idx = i}
SlotsOf(i) == {s \in 0..(StashUsed - 1) : stash[s].idx = i}
FirstRow(i) == CHOOSE h \in RowsOf(i) : \A g \in RowsOf(i) : h <= g
SomeSlot(i) == CHOOSE s \in SlotsOf(i) : TRUE

LEMMA FindIs ==
  ASSUME NEW i
  PROVE  Find(i) = IF RowsOf(i) # {} THEN <<i, loc[i][FirstRow(i)]>>
                   ELSE IF SlotsOf(i) # {} THEN <<i, NumBins + SomeSlot(i)>> ELSE <<Null, Null>>
BY DEF Find, RowsOf, SlotsOf, FirstRow, SomeSlot

\* The full slots of the stash are those that find looks at.
LEMMA UsedIsFull ==
  ASSUME Inv, NEW s \in Slot, stash[s] # NoEntry
  PROVE  s \in 0..(StashUsed - 1)
<1>1. DOMAIN stash = Slot /\ StashSize \in Nat
  BY ItemFactsHold DEF Inv, Types, ItemFacts
<1> DEFINE Empty == {r \in Slot : stash[r] = NoEntry}
<1>2. CASE Empty = {}
  BY <1>1, <1>2 DEF StashUsed, Slot
<1>3. CASE Empty # {}
  <2>1. PICK e \in Empty : \A r \in Empty : e <= r
    <3>1. Empty \subseteq Nat
      BY <1>1 DEF Slot
    <3> HIDE DEF Empty
    <3> QED
      BY <1>3, <3>1, Numbers!LeastElement
  <2>2. e \in Slot /\ stash[e] = NoEntry /\ \A r \in Slot : r < e => stash[r] # NoEntry
    BY <1>1, <2>1 DEF Slot
  <2>3. StashUsed = CHOOSE x \in Slot : stash[x] = NoEntry /\ \A r \in Slot : r < x => stash[r] # NoEntry
    BY <1>1, <1>3 DEF StashUsed
  <2>4. StashUsed \in Slot /\ stash[StashUsed] = NoEntry
    BY <2>2, <2>3, Zenon
  <2>5. ~ (StashUsed < s) /\ StashUsed # s
    BY <2>4 DEF Inv, Front
  <2> QED
    BY <1>1, <2>4, <2>5 DEF Slot
<1> QED
  BY <1>2, <1>3

\* At the end an item is in a bin or in the stash, at one place only.
Settled(i) ==
  /\ \/ \E c \in Bin : bins[c].idx = i
     \/ \E s \in Slot : stash[s].idx = i
  /\ \A c, d \in Bin : bins[c].idx = i /\ bins[d].idx = i => c = d
  /\ \A c \in Bin, s \in Slot : ~ (bins[c].idx = i /\ stash[s].idx = i)

LEMMA AllSettled == ASSUME Inv, Kept, Done, NEW i \in Items PROVE Settled(i)
<1>1. i \in Nat /\ i # Null /\ Apart(Held)
  BY ItemFactsHold DEF Inv, ItemFacts
<1>2. PICK p \in Places : Held[p] = i
  BY Zenon DEF Kept, Present
<1>3. ASSUME NEW t \in Threads
      PROVE  next[t] = Size(t) /\ (\A l \in Lanes : lane[t][l].idx = Null) /\ Size(t) \in Nat
  BY ItemFactsHold DEF Inv, Local, Done, Full, ItemFacts
<1>4. ASSUME NEW t \in Threads, NEW n \in Nat PROVE p # <<"wait", t, n>>
  <2>1. ~ (n \in (next[t] + 1)..Size(t))
    BY <1>3
  <2>2. Held[<<"wait", t, n>>] = IF n \in (next[t] + 1)..Size(t) THEN Work[t][n] ELSE Null
    BY Kinds, Zenon DEF PlaceKinds
  <2>3. Held[<<"wait", t, n>>] # i
    BY <1>1, <2>1, <2>2
  <2> QED
    BY <1>2, <2>3, Zenon
<1>5. ASSUME NEW t \in Threads, NEW l \in Lanes PROVE p # <<"lane", t, l>>
  <2>1. Held[<<"lane", t, l>>] = lane[t][l].idx
    BY Kinds, Zenon DEF PlaceKinds
  <2>2. Held[<<"lane", t, l>>] # i
    BY <1>1, <1>3, <2>1, Zenon
  <2> QED
    BY <1>2, <2>2, Zenon
<1>6. ASSUME NEW c \in Bin PROVE <<"bin", 0, c>> \in Places /\ Held[<<"bin", 0, c>>] = bins[c].idx
  BY Kinds, Zenon DEF PlaceKinds
<1>7. ASSUME NEW s \in Slot
       PROVE  <<"stash", 0, s>> \in Places /\ Held[<<"stash", 0, s>>] = stash[s].idx
  BY Kinds, Zenon DEF PlaceKinds
<1>8. \/ \E c \in Bin : bins[c].idx = i
      \/ \E s \in Slot : stash[s].idx = i
  <2>1. \/ \E c \in Bin : p = <<"bin", 0, c>>
        \/ \E s \in Slot : p = <<"stash", 0, s>>
    BY <1>4, <1>5, OneOfFour, Zenon
  <2> QED
    BY <1>2, <1>6, <1>7, <2>1, Zenon
<1>9. ASSUME NEW c \in Bin, NEW d \in Bin, bins[c].idx = i, bins[d].idx = i PROVE c = d
  <2>1. Held[<<"bin", 0, c>>] = i /\ Held[<<"bin", 0, d>>] = i
    BY <1>9, <1>6, Zenon
  <2>2. <<"bin", 0, c>> = <<"bin", 0, d>>
    BY <1>1, <1>6, <2>1, Zenon DEF Apart
  <2> QED
    BY <2>2
<1>10. ASSUME NEW c \in Bin, NEW s \in Slot, bins[c].idx = i, stash[s].idx = i PROVE FALSE
  <2>1. Held[<<"bin", 0, c>>] = i /\ Held[<<"stash", 0, s>>] = i
    BY <1>10, <1>6, <1>7, Zenon
  <2>2. <<"bin", 0, c>> = <<"stash", 0, s>>
    BY <1>1, <1>6, <1>7, <2>1, Zenon DEF Apart
  <2> QED
    BY <2>2
<1> QED
  BY <1>8, <1>9, <1>10, Zenon DEF Settled

\* The row of an item leads to bins, and to the one that holds it.
LEMMA RowLeads ==
  ASSUME Inv, NEW i \in Items
  PROVE  /\ \A h \in 0..(NumHashes - 1) : loc[i][h] \in Bin
         /\ \A c \in Bin : bins[c].idx = i => \E h \in 0..(NumHashes - 1) : loc[i][h] = c
<1>1. loc[i] \in Rows
  BY DEF Inv, Types
<1>2. \A h \in 0..(NumHashes - 1) : loc[i][h] \in Bin
  BY <1>1 DEF Inv, Given, RowsAssumption, Bin
<1>3. ASSUME NEW c \in Bin, bins[c].idx = i
      PROVE  \E h \in 0..(NumHashes - 1) : loc[i][h] = c
  <2>1. bins[c] \in Entry /\ c \in DOMAIN bins /\ ItemFacts
    BY ItemFactsHold DEF Inv, Types
  <2>2. bins[c] # NoEntry /\ bins[c].hash \in 0..(NumHashes - 1)
    BY <1>3, <2>1 DEF ItemFacts
  <2>3. getHash(bins[c].idx, bins[c].hash) = c
    BY <2>1, <2>2 DEF Inv, AtHome
  <2> QED
    BY <1>3, <2>2, <2>3 DEF getHash
<1> QED
  BY <1>2, <1>3

\* find of one item.
FoundRight(i) ==
  /\ Find(i)[1] = i
  /\ IF Find(i)[2] < NumBins THEN bins[Find(i)[2]].idx = i
                             ELSE stash[Find(i)[2] - NumBins].idx = i
  /\ FindMany(i) = 1

LEMMA FindsItem == ASSUME Inv, Kept, Done, NEW i \in Items PROVE FoundRight(i)
<1>1. ItemFacts /\ i # Null /\ DOMAIN stash = Slot
  BY ItemFactsHold DEF Inv, ItemFacts, Types
<1>2. Settled(i)
  BY AllSettled
<1>3. CASE RowsOf(i) # {}
  <2>1. \E h \in RowsOf(i) : \A g \in RowsOf(i) : h <= g
    <3>1. RowsOf(i) \subseteq Nat
      BY <1>1 DEF RowsOf, ItemFacts
    <3> QED
      BY <1>3, <3>1, Numbers!LeastElement
  <2>2. FirstRow(i) \in RowsOf(i)
    BY <2>1, Zenon DEF FirstRow
  <2>3. FirstRow(i) \in 0..(NumHashes - 1) /\ bins[loc[i][FirstRow(i)]].idx = i
    BY <2>2 DEF RowsOf
  <2>4. loc[i][FirstRow(i)] \in Bin
    BY <2>3, RowLeads
  <2>5. Find(i) = <<i, loc[i][FirstRow(i)]>>
    BY <1>3, FindIs
  <2>6. Find(i)[1] = i /\ Find(i)[2] = loc[i][FirstRow(i)] /\ Find(i)[2] < NumBins
    BY <1>1, <2>4, <2>5 DEF Bin, ItemFacts
  <2> QED
    BY <1>1, <2>3, <2>6 DEF FoundRight, FindMany
<1>4. CASE RowsOf(i) = {}
  <2>1. ~ \E c \in Bin : bins[c].idx = i
    BY <1>4, RowLeads DEF RowsOf
  <2>2. PICK s \in Slot : stash[s].idx = i
    BY <1>2, <2>1 DEF Settled
  <2>3. stash[s] # NoEntry
    BY <1>1, <2>2 DEF NoEntry
  <2>4. s \in SlotsOf(i)
    BY <2>2, <2>3, UsedIsFull DEF SlotsOf
  <2>5. SomeSlot(i) \in SlotsOf(i)
    BY <2>4, Zenon DEF SomeSlot
  <2>6. SomeSlot(i) \in Int /\ SomeSlot(i) >= 0 /\ stash[SomeSlot(i)].idx = i
    BY <2>5 DEF SlotsOf
  <2>7. Find(i) = <<i, NumBins + SomeSlot(i)>>
    BY <1>4, <2>4, FindIs
  <2>8. /\ Find(i)[1] = i /\ ~ (Find(i)[2] < NumBins)
        /\ Find(i)[2] - NumBins = SomeSlot(i)
    BY <1>1, <2>6, <2>7 DEF ItemFacts
  <2> QED
    BY <1>1, <2>6, <2>8 DEF FoundRight, FindMany
<1> QED
  BY <1>3, <1>4

\* validate fails as soon as one item is in the stash.
LEMMA StashFailsValidate ==
  ASSUME Inv, Kept, Done, Validates PROVE \A s \in Slot : stash[s] = NoEntry
<1> SUFFICES ASSUME NEW s \in Slot, stash[s] # NoEntry PROVE FALSE
  OBVIOUS
<1> DEFINE i == stash[s].idx
           Homes == {b \in {loc[i][h] : h \in 0..(NumHashes - 1)} : bins[b].idx = i}
<1>1. i \in Items
  BY ItemFactsHold DEF Inv, ItemFacts, Types
<1>2. Homes = {}
  <2>1. \A h \in 0..(NumHashes - 1) : loc[i][h] \in Bin
    BY <1>1, RowLeads, Zenon
  <2>2. \A c \in Bin : bins[c].idx # i
    BY <1>1, AllSettled, Zenon DEF Settled
  <2> QED
    BY <2>1, <2>2
<1>3. Cardinality(Homes) = 1
  BY <1>1 DEF Validates, Matches
<1>4. Cardinality(Homes) = 0
  <2> HIDE DEF Homes
  <2> QED
    BY <1>2, FS_EmptySet
<1> QED
  BY <1>3, <1>4

LEMMA EmptyStashValidates ==
  ASSUME Inv, Kept, Done, \A s \in Slot : stash[s] = NoEntry PROVE Validates
<1>1. ItemFacts /\ DOMAIN bins = Bin /\ bins \in [Bin -> Entry]
  BY ItemFactsHold DEF Inv, Types
<1>2. ASSUME NEW i \in Items PROVE \E c \in Bin : bins[c].idx = i
  BY <1>1, AllSettled DEF Settled, NoEntry, ItemFacts
<1>3. ASSUME NEW i \in Items PROVE Matches(i) = 1
  <2> DEFINE Homes == {b \in {loc[i][h] : h \in 0..(NumHashes - 1)} : bins[b].idx = i}
  <2>1. PICK c \in Bin : bins[c].idx = i
    BY <1>2
  <2>2. c \in {loc[i][h] : h \in 0..(NumHashes - 1)}
    BY <2>1, RowLeads
  <2>3. \A d \in Bin : bins[d].idx = i => d = c
    BY <2>1, AllSettled, Zenon DEF Settled
  <2>4. \A h \in 0..(NumHashes - 1) : loc[i][h] \in Bin
    BY RowLeads, Zenon
  <2>5. Homes = {c}
    BY <2>1, <2>2, <2>3, <2>4
  <2>6. Cardinality(Homes) = 1
    <3> HIDE DEF Homes
    <3> QED
      BY <2>5, FS_Singleton
  <2> QED
    BY <2>6 DEF Matches
<1> DEFINE Used == {b \in DOMAIN bins : bins[b] # NoEntry}
           f == [b \in Used |-> bins[b].idx]
<1>4. IsFiniteSet(Used)
  <2>1. IsFiniteSet(Bin)
    BY <1>1, FS_Interval DEF Bin, ItemFacts
  <2>2. Used \in SUBSET Bin
    BY <1>1
  <2> HIDE DEF Used
  <2> QED
    BY <2>1, <2>2, FS_Subset
<1>5. \A b \in Used : b \in Bin /\ bins[b].idx \in Items
  BY <1>1 DEF ItemFacts
<1>6. f \in Bijection(Used, Items)
  <2>1. f \in [Used -> Items]
    BY <1>5
  <2>2. ASSUME NEW b \in Used, NEW c \in Used, f[b] = f[c] PROVE b = c
    <3>1. bins[b].idx = bins[c].idx /\ bins[b].idx \in Items /\ b \in Bin /\ c \in Bin
      BY <1>5, <2>2
    <3>2. Settled(bins[b].idx)
      BY <3>1, AllSettled
    <3> QED
      BY <3>1, <3>2, Zenon DEF Settled
  <2>3. ASSUME NEW i \in Items PROVE \E b \in Used : f[b] = i
    <3>1. PICK c \in Bin : bins[c].idx = i
      BY <1>2
    <3>2. c \in Used
      BY <1>1, <3>1 DEF ItemFacts, NoEntry
    <3> QED
      BY <3>1, <3>2
  <2> HIDE DEF f, Used
  <2> QED
    BY <2>1, <2>2, <2>3 DEF Bijection, Injection, Surjection, IsInjective
<1>7. Cardinality(Used) = Cardinality(Items)
  <2> HIDE DEF Used, f
  <2> QED
    BY <1>4, <1>6, FS_Bijection DEF ExistsBijection
<1> QED
  BY <1>3, <1>7 DEF Validates

LEMMA FindsAll == Inv /\ Kept => FindExact
<1> SUFFICES ASSUME Inv, Kept, Done
             PROVE  /\ \A i \in Items : FoundRight(i)
                    /\ Validates <=> \A s \in DOMAIN stash : stash[s] = NoEntry
  BY DEF FindExact, FoundRight
<1>1. DOMAIN stash = Slot
  BY DEF Inv, Types
<1> QED
  BY <1>1, FindsItem, StashFailsValidate, EmptyStashValidates

-----------------------------------------------------------------------------

\* The invariant holds for any number of threads (probeInsert, insertOne).
THEOREM InvHolds == Given /\ Spec => []Inv
<1>1. Given /\ Init => Inv
  BY InvInit
<1>2. Inv /\ [Next]_vars => Inv'
  BY InvStep
<1> QED
  BY <1>1, <1>2, PTL DEF Spec

\* Bins, stash, lanes and counters keep their types: a thread never takes more items than
\* it was given (probeInsert).
THEOREM TypeCorrect == Given /\ Spec => []TypeOK
<1>1. Inv => TypeOK
  <2> SUFFICES ASSUME Inv, NEW t \in Threads PROVE next[t] \in 0..Len(Work[t]) /\ k[t] \in 0..StashSize
    BY DEF TypeOK, Inv, Types, Bin, Slot, Lanes
  <2>1. next[t] \in Nat /\ k[t] \in 0..StashSize
    BY DEF Inv, Types
  <2>2. next[t] <= Len(Work[t]) /\ Len(Work[t]) \in Nat
    BY ItemFactsHold DEF Inv, Local, Size, ItemFacts
  <2> QED
    BY <2>1, <2>2
<1> QED
  BY <1>1, InvHolds, PTL

\* Whatever the threads do, a word in a bin names the hash that leads to this bin
\* (Bin::swap with the address of another round, insertOne's next hash).
THEOREM WordsAtHome == Given /\ Spec => []AtHome
<1>1. Inv => AtHome
  BY DEF Inv
<1> QED
  BY <1>1, InvHolds, PTL

\* No interleaving of the exchanges leaves an item at two places, not even one that loses an
\* item in the stash (Bin::swap).
THEOREM NothingDoubled == Given /\ Spec => []AtMostOnce
<1>1. Inv => AtMostOnce
  BY AtOnePlace
<1> QED
  BY <1>1, InvHolds, PTL

\* A thread that gives up has seen every slot of the stash full, and they are full still
\* (the throw after the loop over the stash).
THEOREM OverflowJustified == Given /\ Spec => []OverflowOnlyWhenFull
<1>1. Inv => OverflowOnlyWhenFull
  <2> SUFFICES ASSUME Inv, NEW t \in Threads, pc[t] = "throw", NEW s \in DOMAIN stash
               PROVE  stash[s] # NoEntry
    BY DEF OverflowOnlyWhenFull
  <2>1. s \in Slot /\ Scanned(t)
    BY DEF Inv, Types
  <2> QED
    BY <2>1 DEF Scanned
<1> QED
  BY <1>1, InvHolds, PTL

\* So the table stays safe under every interleaving of any number of threads.
THEOREM TableStaysSafe == Given /\ Spec => []TableSafe
<1>1. TypeOK /\ AtMostOnce /\ AtHome /\ OverflowOnlyWhenFull => TableSafe
  BY DEF TableSafe
<1> QED
  BY <1>1, TypeCorrect, NothingDoubled, WordsAtHome, OverflowJustified, PTL

LEMMA KeptHolds == Given /\ Spec /\ []NoClash => [](Inv /\ Kept)
<1>1. Given /\ Init => Inv /\ Kept
  BY InvInit
<1>2. Inv /\ [Next]_vars => Inv' /\ (NoClash /\ Kept => Kept')
  BY InvStep
<1> QED
  BY <1>1, <1>2, PTL DEF Spec

\* As long as no two threads have chosen the same stash slot, every item is waiting, in the
\* hands of one thread, in one bin or in one stash slot (probeInsert, insertOne).
THEOREM NothingLost == Given /\ Spec /\ []NoClash => []Conserved
BY AtOnePlace, KeptHolds, PTL

\* Then, after all inserts, find returns every item and where it is, and validate accepts
\* the table if and only if the stash is empty (find, validate).
THEOREM FindsEveryItem == Given /\ Spec /\ []NoClash => []FindExact
BY FindsAll, KeptHolds, PTL

\* Together: the table is right as long as no two threads have chosen the same stash slot.
THEOREM TableStaysRight == Given /\ Spec /\ []NoClash => []TableRight
<1>1. TableSafe /\ Conserved /\ FindExact => TableRight
  BY DEF TableRight, TableSafe
<1> QED
  BY <1>1, TableStaysSafe, NothingLost, FindsEveryItem, PTL

\* One thread has no other to clash with: insert without the thread-safe variant.
THEOREM OneThreadRight ==
  Given /\ (\A t, u \in Threads : t = u) /\ Spec => []TableRight
<1> SUFFICES ASSUME \A t, u \in Threads : t = u
             PROVE  Given /\ Spec => []TableRight
  OBVIOUS
<1>1. NoClash
  BY DEF NoClash
<1> QED
  BY <1>1, TableStaysRight, PTL

=============================================================================
