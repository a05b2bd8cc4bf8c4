----------------------------- MODULE Gf2Linear -----------------------------
(***************************************************************************)
(* Linear algebra over GF(2): the sparse, dense and dynamic matrices of    *)
(* libOTe/Tools/LDPC/Mtx, the generator matrices and combinations of       *)
(* LDPC/Util, and the byte-wise encoder of libOTe/Tools/LinearCode.        *)
(*                                                                         *)
(* A dense matrix is its size and the set of its ones.  A sparse matrix    *)
(* keeps each row and each column as a sorted sequence of indices; the     *)
(* dynamic one edits both while it walks along them.                       *)
(***************************************************************************)
EXTENDS Integers, Sequences, FiniteSets, SequencesExt

CONSTANTS
    Shapes,     \* sizes <<m, n>> of the matrices that are eliminated
    Factors,    \* sizes <<m, k, n>> of products
    DynSize,    \* bound on rows and columns of the dynamic matrix
    DynCalls,   \* bound on the count on it
    Choose,     \* the n of the combinations
    Codes,      \* codes: [blocks, bits]
    Bytes       \* values of a plaintext byte

VARIABLES fn, arg, res, dyn, ones, count
vars == <<fn, arg, res, dyn, ones, count>>

Upto(n) == 0 .. n - 1
XorSets(a, b) == (a \ b) \cup (b \ a)
Ascending(S) == SetToSortSeq(S, <)
Lowest(S) == CHOOSE x \in S : \A y \in S : x <= y

-----------------------------------------------------------------------------
(* DenseMtx. *)

Mtx(m, n, at) == [m |-> m, n |-> n, at |-> at]
Empty == Mtx(0, 0, {})
Matrices(m, n) == {Mtx(m, n, at) : at \in SUBSET (Upto(m) \X Upto(n))}
RowOf(A, i) == {j \in Upto(A.n) : <<i, j>> \in A.at}
ColOf(A, j) == {i \in Upto(A.m) : <<i, j>> \in A.at}

\* Row::swap and operator^= on every row of "into".
RowSwapped(A, i, j) ==
    [A EXCEPT !.at = {IF p[1] = i THEN <<j, p[2]>> ELSE IF p[1] = j THEN <<i, p[2]>> ELSE p : p \in @}]
RowAddedTo(A, i, into) == [A EXCEPT !.at = XorSets(@, into \X RowOf(A, i))]
\* swap_ranges of two columns.
ColSwapped(A, i, j) ==
    [A EXCEPT !.at = {IF p[2] = i THEN <<p[1], j>> ELSE IF p[2] = j THEN <<p[1], i>> ELSE p : p \in @}]

Identity(n) == Mtx(n, n, {<<i, i>> : i \in Upto(n)})
denseMult(A, B) ==
    Mtx(A.m, B.n, {p \in Upto(A.m) \X Upto(B.n) : Cardinality(RowOf(A, p[1]) \cap ColOf(B, p[2])) % 2 = 1})
denseAdd(A, B) == [A EXCEPT !.at = XorSets(@, B.at)]
transposed(A) == Mtx(A.n, A.m, {<<p[2], p[1]>> : p \in A.at})
subMatrix(A, r, c, m, n) ==
    Mtx(m, n, {p \in Upto(m) \X Upto(n) : <<p[1] + r, p[2] + c>> \in A.at})
selectColumns(A, perm) ==
    Mtx(A.m, Len(perm), {p \in Upto(A.m) \X Upto(Len(perm)) : <<p[1], perm[p[2] + 1]>> \in A.at})

\* upperTriangular and gausianElimination: the loop over rows, with the column
\* it has reached; "from" is the first row the pivot is cleared from.
RECURSIVE Eliminate(_, _, _, _)
Eliminate(A, i, c, full) ==
    IF i = A.m THEN A
    ELSE IF <<i, c>> \notin A.at
    THEN LET below == {j \in i + 1 .. A.m - 1 : <<j, c>> \in A.at}
         IN  IF below # {} THEN Eliminate(RowSwapped(A, i, Lowest(below)), i, c, full)
             ELSE IF c + 1 = A.n THEN A ELSE Eliminate(A, i, c + 1, full)
    ELSE LET others == {j \in IF full THEN Upto(A.m) \ {i} ELSE i + 1 .. A.m - 1 : <<j, c>> \in A.at}
         IN  Eliminate(RowAddedTo(A, i, others), i + 1, c, full)
upperTriangular(A) == Eliminate(A, 0, 0, FALSE)
gausianElimination(A) == Eliminate(A, 0, 0, TRUE)

\* invert, and computeGen of one argument: the same row operations on a pair.
RECURSIVE Reduce(_, _, _)
Reduce(A, B, i) ==
    IF i = A.m THEN <<A, B>>
    ELSE LET below == {j \in i + 1 .. A.m - 1 : <<j, i>> \in A.at}
             swap == <<i, i>> \notin A.at /\ below # {}
             A1 == IF swap THEN RowSwapped(A, i, Lowest(below)) ELSE A
             B1 == IF swap THEN RowSwapped(B, i, Lowest(below)) ELSE B
             others == {j \in Upto(A.m) \ {i} : <<j, i>> \in A1.at}
         IN  IF <<i, i>> \notin A1.at THEN <<>>
             ELSE Reduce(RowAddedTo(A1, i, others), RowAddedTo(B1, i, others), i + 1)
invert(A) == LET r == Reduce(A, Identity(A.m), 0) IN IF r = <<>> THEN Empty ELSE r[2]

-----------------------------------------------------------------------------
(* LDPC/Util. *)

\* [ I | P transposed ].
Generator(P, n) ==
    LET k == n - P.m
    IN  Mtx(k, n, {<<i, i>> : i \in Upto(k)} \cup {<<p[2], p[1] + k>> : p \in P.at})
computeGen(H) ==
    LET k == H.n - H.m
        r == Reduce(subMatrix(H, 0, k, H.m, H.m), subMatrix(H, 0, 0, H.m, k), 0)
    IN  IF r = <<>> THEN Empty ELSE Generator(r[2], H.n)

\* computeGen with column swaps: <<the swaps, the generator>>.  A row below
\* comes first, then the first column of the left part with a one not above.
RECURSIVE GenLoop(_, _, _)
GenLoop(H, row, swaps) ==
    LET k == H.n - H.m
        col == k + row
        below == {r \in row + 1 .. H.m - 1 : <<r, col>> \in H.at}
        left == {p \in H.at : p[1] >= row /\ p[2] < k}
        col2 == Lowest({p[2] : p \in left})
        row2 == Lowest({p[1] : p \in {p \in left : p[2] = col2}})
        Cleared(A) == RowAddedTo(A, row, {r \in Upto(A.m) \ {row} : <<r, col>> \in A.at})
    IN  IF row = H.m THEN <<swaps, Generator(subMatrix(H, 0, 0, H.m, k), H.n)>>
        ELSE IF <<row, col>> \in H.at THEN GenLoop(Cleared(H), row + 1, swaps)
        ELSE IF below # {} THEN GenLoop(Cleared(RowSwapped(H, row, Lowest(below))), row + 1, swaps)
        ELSE IF left # {}
        THEN GenLoop(Cleared(ColSwapped(RowSwapped(H, row, row2), col, col2)), row + 1,
                     Append(swaps, <<col, col2>>))
        ELSE <<swaps, Empty>>
computeGenSwaps(H) == GenLoop(H, 0, <<>>)
colSwap(G, swaps) == FoldLeft(LAMBDA A, s : ColSwapped(A, s[1], s[2]), G, swaps)

RECURSIVE SysLoop(_, _)
SysLoop(G, row) ==
    LET below == {r \in row + 1 .. G.m - 1 : <<r, row>> \in G.at}
        Cleared(A) == RowAddedTo(A, row, {r \in Upto(A.m) \ {row} : <<r, row>> \in A.at})
    IN  IF row = G.m THEN G
        ELSE IF <<row, row>> \in G.at THEN SysLoop(Cleared(G), row + 1)
        ELSE IF below # {} THEN SysLoop(Cleared(RowSwapped(G, row, Lowest(below))), row + 1)
        ELSE Empty
computeSysGen(G) == SysLoop(G, 0)

numNonzeroRows(A) == A.m - Cardinality({i \in Upto(A.m) : RowOf(A, i) = {}})

RECURSIVE choose(_, _)
choose(n, k) == IF k = 0 THEN 1 ELSE (n * choose(n - 1, k - 1)) \div k

\* ithCombination: the inner loop skips the combinations without the largest element.
RECURSIVE Skip(_, _, _, _, _)
Skip(cur, c, n, kk, index) ==
    IF cur - c <= index THEN <<cur, c, n>>
    ELSE LET c1 == c * (n - kk)
             c2 == c1 - (c1 % kk)
         IN  Skip(cur - c, c2 \div (n - 1), n - 1, kk, index)
RECURSIVE Combination(_, _, _, _, _)
Combination(cur, c, n, kk, index) ==
    IF kk = 0 THEN <<>>
    ELSE LET s == Skip(cur, (c * kk) \div n, n, kk, index)
         IN  Append(Combination(s[1], s[2], s[3] - 1, kk - 1, index), s[3] - 1)
RECURSIVE Binomial(_, _, _, _)
Binomial(c, nMinusI, iPlus1, last) ==
    IF nMinusI = last THEN c ELSE Binomial((c * nMinusI) \div iPlus1, nMinusI - 1, iPlus1 + 1, last)
ithCombination(index, n, k) ==
    LET nCk == Binomial(1, n, 1, n - k) IN Combination(nCk, nCk, n, k, index)
\* NChooseK::operator++
NextSetLate(set) ==
    LET i == Lowest({i \in 1 .. Len(set) : i = Len(set) \/ set[i] + 1 # set[i + 1]})
    IN  [j \in 1 .. Len(set) |-> IF j = i THEN set[i] + 1 ELSE set[j]]
NextSet(set) ==
    LET i == Lowest({i \in 1 .. Len(set) : i = Len(set) \/ set[i] + 1 # set[i + 1]})
    IN  [j \in 1 .. Len(set) |-> IF j = i THEN set[i] + 1 ELSE IF j < i THEN j - 1 ELSE set[j]]

-----------------------------------------------------------------------------
(* VecSortSet and SparseMtx. *)

LowerBound(s, x) == Cardinality({k \in DOMAIN s : s[k] < x}) + 1
Find(s, x) == LET k == LowerBound(s, x) IN k <= Len(s) /\ s[k] = x
Insert(s, x) ==
    LET k == LowerBound(s, x)
    IN  IF k > Len(s) THEN Append(s, x) ELSE IF s[k] > x THEN InsertAt(s, k, x) ELSE s
InsertAll(s, t) ==
    FoldLeft(LAMBDA acc, x : IF acc = <<>> \/ x > Last(acc) THEN Append(acc, x) ELSE Insert(acc, x), s, t)
\* erase looks for the lower bound and asserts only that there is one.
Erase(s, x) == RemoveAt(s, LowerBound(s, x))

SparseOf(A) ==  \* SparseMtx::init from a list of points
    [m |-> A.m, n |-> A.n,
     row |-> [i \in Upto(A.m) |-> Ascending(RowOf(A, i))],
     col |-> [j \in Upto(A.n) |-> Ascending(ColOf(A, j))]]
dense(S) == Mtx(S.m, S.n, UNION {{<<i, S.row[i][k]>> : k \in DOMAIN S.row[i]} : i \in Upto(S.m)})
isSet(S, i, j) == Find(S.col[j], i)
\* validate walks the rows and takes each entry off the front of its column.
validate(S) ==
    \A i \in Upto(S.m) :
        /\ \A k \in DOMAIN S.row[i] : S.row[i][k] < S.n /\ (k > 1 => S.row[i][k - 1] <= S.row[i][k])
        /\ \A k \in DOMAIN S.row[i] :
              LET j == S.row[i][k]
                  before == Cardinality({i2 \in Upto(i) : \E q \in DOMAIN S.row[i2] : S.row[i2][q] = j})
              IN  before < Len(S.col[j]) /\ S.col[j][before + 1] = i

\* Two sorted sequences walked side by side: the parity of their common
\* entries (mult), and their symmetric difference (add).
RECURSIVE Common(_, _, _)
Common(s, t, bit) ==
    IF s = <<>> \/ t = <<>> THEN bit
    ELSE IF Head(s) < Head(t) THEN Common(Tail(s), t, bit)
    ELSE IF Head(t) < Head(s) THEN Common(s, Tail(t), bit)
    ELSE Common(Tail(s), Tail(t), 1 - bit)
RECURSIVE Merge(_, _)
Merge(s, t) ==
    IF s = <<>> \/ t = <<>> THEN s \o t
    ELSE IF Head(s) < Head(t) THEN <<Head(s)>> \o Merge(Tail(s), t)
    ELSE IF Head(t) < Head(s) THEN <<Head(t)>> \o Merge(s, Tail(t))
    ELSE Merge(Tail(s), Tail(t))
sparseMult(S, T) ==
    SparseOf(Mtx(S.m, T.n, {p \in Upto(S.m) \X Upto(T.n) : Common(S.row[p[1]], T.col[p[2]], 0) = 1}))
sparseAdd(S, T) ==
    [S EXCEPT !.col = [j \in Upto(S.n) |-> Merge(S.col[j], T.col[j])],
              !.row = [i \in Upto(S.m) |-> Merge(S.row[i], T.row[i])]]
vConcat(S, T) ==
    SparseOf(Mtx(S.m + T.m, S.n, dense(S).at \cup {<<p[1] + S.m, p[2]>> : p \in dense(T).at}))
Window(s, from, to) ==
    LET a == LowerBound(s, from)
        b == LowerBound(s, to)
    IN  [k \in 1 .. b - a |-> s[a + k - 1] - from]
sparseSub(S, r, c, m, n) ==
    [m |-> m, n |-> n,
     row |-> [i \in Upto(m) |-> Window(S.row[r + i], c, c + n)],
     col |-> [j \in Upto(n) |-> Window(S.col[c + j], r, r + m)]]
\* multAdd on a vector, as the set of its ones.
sparseTimes(S, x) == {i \in Upto(S.m) : Cardinality({k \in DOMAIN S.row[i] : S.row[i][k] \in x}) % 2 = 1}
leftTimes(S, x) == {j \in Upto(S.n) : Cardinality({k \in DOMAIN S.col[j] : S.col[j][k] \in x}) % 2 = 1}

-----------------------------------------------------------------------------
(* DynSparseMtx: [m, n, row, col], as the sparse one but edited in place. *)

Enlarged(f, n) == [i \in Upto(n) |-> IF i \in DOMAIN f THEN f[i] ELSE <<>>]
pushBackRow(D, s) ==
    [D EXCEPT !.m = @ + 1, !.row = [Enlarged(@, D.m + 1) EXCEPT ![D.m] = InsertAll(<<>>, s)],
              !.col = [j \in DOMAIN @ |-> IF j \in Range(s) THEN Insert(@[j], D.m) ELSE @[j]]]
pushBackCol(D, s) ==
    [D EXCEPT !.n = @ + 1, !.col = [Enlarged(@, D.n + 1) EXCEPT ![D.n] = InsertAll(<<>>, s)],
              !.row = [i \in DOMAIN @ |-> IF i \in Range(s) THEN Insert(@[i], D.n) ELSE @[i]]]

\* rowAdd: i0 walks along row r0, which is edited under it, i1 along row r1.
RECURSIVE RowAdd(_, _, _, _, _)
RowAdd(D, r0, r1, i0, i1) ==
    LET s == D.row[r0]
        t == D.row[r1]
        rest == SubSeq(t, i1, Len(t))
    IN  IF i0 > Len(s) \/ i1 > Len(t)
        THEN [D EXCEPT !.row[r0] = InsertAll(@, rest),
                       !.col = [j \in DOMAIN @ |-> IF j \in Range(rest) THEN Insert(@[j], r0) ELSE @[j]]]
        ELSE IF s[i0] < t[i1] THEN RowAdd(D, r0, r1, i0 + 1, i1)
        ELSE IF s[i0] = t[i1]
        THEN RowAdd([D EXCEPT !.col[s[i0]] = Erase(@, r0), !.row[r0] = RemoveAt(@, i0)], r0, r1, i0, i1 + 1)
        ELSE RowAdd([D EXCEPT !.col[t[i1]] = Insert(@, r0), !.row[r0] = InsertAt(@, i0, t[i1])],
                    r0, r1, i0 + 1, i1 + 1)
rowAddStays(D, r0, r1) ==
    [D EXCEPT !.row[r0] = Merge(@, D.row[r1]),
              !.col = [j \in DOMAIN @ |-> IF j \in Range(D.row[r1]) THEN Insert(@[j], r0) ELSE @[j]]]
rowAdd(D, r0, r1) == RowAdd(D, r0, r1, 1, 1)

\* rowSwap: only the columns in which the rows differ are touched.
rowSwap(D, r0, r1) ==
    IF r0 = r1 THEN D
    ELSE LET only0 == Range(D.row[r0]) \ Range(D.row[r1])
             only1 == Range(D.row[r1]) \ Range(D.row[r0])
         IN  [D EXCEPT !.col = [j \in DOMAIN @ |-> IF j \in only0 THEN Insert(Erase(@[j], r0), r1)
                                                   ELSE IF j \in only1 THEN Insert(Erase(@[j], r1), r0)
                                                   ELSE @[j]],
                       !.row[r0] = D.row[r1], !.row[r1] = D.row[r0]]

\* resize: rows and columns are cleared when the matrix GROWS, each from the
\* other side only; then both vectors get their new lengths.
ClearRows(D) == [D EXCEPT !.col = [j \in DOMAIN @ |-> SelectSeq(@[j], LAMBDA i : j \notin Range(D.row[i]))]]
ClearCols(D) == [D EXCEPT !.row = [i \in DOMAIN @ |-> SelectSeq(@[i], LAMBDA j : i \notin Range(D.col[j]))]]
resize(D, m, n) ==
    LET D1 == IF D.m < m THEN ClearRows(D) ELSE D
        D2 == IF D.n < n THEN ClearCols(D1) ELSE D1
    IN  [m |-> m, n |-> n, row |-> Enlarged(D2.row, m), col |-> Enlarged(D2.col, n)]
\* operator= resizes, clears every row and column and inserts.
assign(D, S) ==
    LET R == resize(D, S.m, S.n)
    IN  [R EXCEPT !.row = [i \in DOMAIN @ |-> InsertAll(<<>>, S.row[i])],
                  !.col = [j \in DOMAIN @ |-> InsertAll(<<>>, S.col[j])]]
dynSelect(D, perm) ==
    FoldLeft(LAMBDA R, j : pushBackCol(R, D.col[j]),
             [m |-> D.m, n |-> 0, row |-> [i \in Upto(D.m) |-> <<>>], col |-> <<>>], perm)

-----------------------------------------------------------------------------
(* LinearCode.  Row r of the generator is the formal sum {r} in every block.  *)

RoundUp8(x) == ((x + 7) \div 8) * 8
mPow2CodeSize(blocks) == CASE blocks = 3 -> 4 [] blocks \in {5, 6, 7} -> 8 [] OTHER -> blocks
TableRowsTight(bits) == (bits + 7) \div 8
TableRows(bits) == RoundUp8((bits + 7) \div 8)   \* pipelinedMod8RowCount

\* The table entries row gRow of a group of eight is added to.
RECURSIVE Walk(_, _, _)
Walk(g8Row, stride, seen) ==
    IF g8Row >= 256 THEN seen
    ELSE IF (g8Row + 1) % stride # 0 THEN Walk(g8Row + 1, stride, seen \cup {g8Row})
    ELSE Walk(g8Row + 1 + stride, stride, seen \cup {g8Row})
Touched == [g \in 0 .. 7 |-> Walk(2 ^ g, 2 ^ g, {})]
Garbage == {-1}
Entry(c, i, v) ==
    IF i >= TableRows(c.bits) THEN Garbage
    ELSE {8 * i + g : g \in {g \in 0 .. 7 : 8 * i + g < c.bits /\ v \in Touched[g]}}

\* How many table rows one turn of the loop adds, and the rows it reaches.
Lanes(size) == CASE size = 1 -> 8 [] size = 2 -> 4 [] size \in {3, 4} -> 2 [] size \in 5 .. 8 -> 1 [] OTHER -> 8
Reached(c) ==
    LET size == mPow2CodeSize(c.blocks)
        u8 == (c.bits + 7) \div 8
    IN  IF size = 1 \/ size > 8 THEN RoundUp8(u8) ELSE TableRows(c.bits)
\* encode: lane q collects rows q, q + lanes, ...; the lanes are added at the end.
\* Bytes beyond the plaintext are whatever the stack holds.
encode(c, plain, stack) ==
    LET n == Lanes(mPow2CodeSize(c.blocks))
        u8 == (c.bits + 7) \div 8
        Byte(i) == IF i < u8 THEN plain[i] ELSE stack
        LaneSum(q) == FoldLeft(LAMBDA acc, t : XorSets(acc, Entry(c, n * t + q, Byte(n * t + q))), {},
                               [t \in 1 .. Reached(c) \div n |-> t - 1])
    IN  FoldLeft(LAMBDA acc, q : XorSets(acc, LaneSum(q)), {}, [q \in 1 .. n |-> q - 1])
encode_bch511(c, plain) ==
    FoldLeft(LAMBDA acc, i : XorSets(acc, Entry(c, i, plain[i])), {}, [i \in 1 .. 10 |-> i - 1])

-----------------------------------------------------------------------------
\* Plaintexts: one value up to some byte and another from there on.
Plain(c) == LET I == Upto((c.bits + 7) \div 8)
            IN  {[i \in I |-> IF i < k THEN b[1] ELSE b[2]] : k \in I, b \in Bytes \X Bytes}
NoDyn == [m |-> 0, n |-> 0, row |-> <<>>, col |-> <<>>]

Init ==
    /\ res = <<>> /\ dyn = NoDyn /\ ones = {} /\ count = 0
    /\ \/ fn = "eliminate" /\ \E s \in Shapes : arg \in Matrices(s[1], s[2])
       \/ fn = "product" /\ \E f \in Factors : arg \in Matrices(f[1], f[2]) \X Matrices(f[2], f[3])
       \/ fn = "sum" /\ \E f \in Factors : arg \in Matrices(f[1], f[2]) \X Matrices(f[1], f[2])
       \/ fn = "combine" /\ arg \in {<<n, k>> \in (1 .. Choose) \X (1 .. Choose) : k <= n}
       \/ fn = "encode" /\ \E c \in Codes : arg \in [code : {c}, plain : Plain(c), stack : Bytes]
       \/ fn = "dyn" /\ arg = <<>>

Keep == UNCHANGED <<fn, arg, dyn, ones>>
Return ==
    /\ count = 0 /\ count' = 1 /\ Keep
    /\ \/ /\ fn = "eliminate"
          /\ res' = [upper |-> upperTriangular(arg), full |-> gausianElimination(arg),
                     inverse |-> IF arg.m = arg.n THEN invert(arg) ELSE Empty,
                     gen |-> IF arg.m < arg.n THEN computeGen(arg) ELSE Empty,
                     swapped |-> IF arg.m < arg.n THEN computeGenSwaps(arg) ELSE <<<<>>, Empty>>,
                     sys |-> IF arg.m <= arg.n THEN computeSysGen(arg) ELSE Empty]
       \/ fn = "product" /\ res' = sparseMult(SparseOf(arg[1]), SparseOf(arg[2]))
       \/ /\ fn = "sum"
          /\ LET S == SparseOf(arg[1])
                 T == SparseOf(arg[2])
             IN  res' = [sum |-> sparseAdd(S, T), tall |-> vConcat(S, T)]
       \/ fn = "combine" /\ res' = [i \in 0 .. choose(arg[1], arg[2]) - 1 |-> ithCombination(i, arg[1], arg[2])]
       \/ /\ fn = "encode"
          /\ res' = [any |-> encode(arg.code, arg.plain, arg.stack),
                     bch |-> IF arg.code.bits \in 73 .. 80 /\ mPow2CodeSize(arg.code.blocks) = 4
                             THEN encode_bch511(arg.code, arg.plain) ELSE {}]

\* Calls on a dynamic matrix; ones is the set of ones they denote.
Call(D, W) == fn = "dyn" /\ count < DynCalls /\ count' = count + 1 /\ dyn' = D /\ ones' = W
              /\ UNCHANGED <<fn, arg, res>>
PushRow == \E s \in SUBSET Upto(dyn.n) :
    /\ dyn.m < DynSize
    /\ Call(pushBackRow(dyn, Ascending(s)), ones \cup ({dyn.m} \X s))
PushCol == \E s \in SUBSET Upto(dyn.m) :
    /\ dyn.n < DynSize
    /\ Call(pushBackCol(dyn, Ascending(s)), ones \cup (s \X {dyn.n}))
AddRow == \E r0, r1 \in Upto(dyn.m) :
    /\ r0 # r1
    /\ Call(rowAdd(dyn, r0, r1), XorSets(ones, {<<r0, p[2]>> : p \in {p \in ones : p[1] = r1}}))
SwapRow == \E r0, r1 \in Upto(dyn.m) :
    /\ r0 < r1
    /\ Call(rowSwap(dyn, r0, r1), RowSwapped(Mtx(dyn.m, dyn.n, ones), r0, r1).at)
SelectCols == \E perm \in {p \in [1 .. 2 -> Upto(dyn.n)] : p[1] # p[2]} :
    Call(dynSelect(dyn, perm), selectColumns(Mtx(dyn.m, dyn.n, ones), perm).at)
Assign == \E m, n \in 1 .. DynSize :
    LET A == Mtx(m, n, {p \in Upto(m) \X Upto(n) : p[1] <= p[2]})
    IN  Call(assign(dyn, SparseOf(A)), A.at)

Next == Return \/ PushRow \/ PushCol \/ AddRow \/ SwapRow \/ SelectCols \/ Assign

Spec == Init /\ [][Next]_vars

-----------------------------------------------------------------------------
RowSums(A) == {FoldSet(LAMBDA i, acc : XorSets(acc, RowOf(A, i)), {}, S) : S \in SUBSET Upto(A.m)}
Leads(A) == [i \in {i \in Upto(A.m) : RowOf(A, i) # {}} |-> Lowest(RowOf(A, i))]
\* Zero rows last, and every row starts to the right of the one above it.
Echelon(A) == LET lead == Leads(A)
              IN  \A i \in DOMAIN lead : \A j \in Upto(i) : j \in DOMAIN lead /\ lead[j] < lead[i]
Singular(A) == \E S \in SUBSET Upto(A.m) : S # {} /\
                   FoldSet(LAMBDA i, acc : XorSets(acc, RowOf(A, i)), {}, S) = {}
Orthogonal(G, H) == \A i \in Upto(G.m), j \in Upto(H.m) : Cardinality(RowOf(G, i) \cap RowOf(H, j)) % 2 = 0
Systematic(G) == \A i, j \in Upto(G.m) : <<i, j>> \in G.at <=> i = j

Done(f) == fn = f /\ count = 1

\* Elimination keeps the row space and ends in (reduced) echelon form.
EliminationRight ==
    Done("eliminate") =>
        /\ Echelon(res.upper) /\ RowSums(res.upper) = RowSums(arg)
        /\ Echelon(res.full) /\ RowSums(res.full) = RowSums(arg)
        /\ \A i \in DOMAIN Leads(res.full) : ColOf(res.full, Leads(res.full)[i]) = {i}
        /\ 2 ^ numNonzeroRows(res.full) = Cardinality(RowSums(arg))
\* The inverse is one, and is refused for singular matrices only.
InverseRight ==
    Done("eliminate") /\ arg.m = arg.n =>
        IF Singular(arg) THEN res.inverse = Empty ELSE denseMult(arg, res.inverse) = Identity(arg.n)
\* A generator is systematic and spans the kernel of the parity checks: of the
\* given ones, or of those with the reported columns swapped; the same swaps
\* lead the generator back.
GeneratorRight ==
    Done("eliminate") =>
        /\ arg.m < arg.n =>
              /\ res.gen = Empty <=> Singular(subMatrix(arg, 0, arg.n - arg.m, arg.m, arg.m))
              /\ res.gen # Empty => Systematic(res.gen) /\ Orthogonal(res.gen, arg)
              /\ res.swapped[2] = Empty <=> Singular(arg)
              /\ res.swapped[2] # Empty =>
                    /\ Systematic(res.swapped[2])
                    /\ Orthogonal(res.swapped[2], colSwap(arg, res.swapped[1]))
                    /\ Orthogonal(colSwap(res.swapped[2], res.swapped[1]), arg)
        /\ arg.m <= arg.n /\ res.sys # Empty => Systematic(res.sys) /\ RowSums(res.sys) = RowSums(arg)

\* The sparse operations are the dense ones, in both of their orders.
SparseRight ==
    /\ Done("product") => res = SparseOf(denseMult(arg[1], arg[2])) /\ validate(res)
    /\ Done("sum") =>
          LET S == SparseOf(arg[1])
              m == arg[1].m
              n == arg[1].n
          IN  /\ res.sum = SparseOf(denseAdd(arg[1], arg[2])) /\ validate(res.sum)
              /\ sparseSub(res.tall, 0, 0, m, n) = S
              /\ sparseSub(res.tall, m, 0, m, n) = SparseOf(arg[2])
              /\ sparseSub(S, 1, 0, m - 1, n) = SparseOf(subMatrix(arg[1], 1, 0, m - 1, n))
              /\ dense(S) = arg[1]
              /\ \A i \in Upto(m), j \in Upto(n) : isSet(S, i, j) <=> <<i, j>> \in arg[1].at
              /\ \A x \in SUBSET Upto(n) :
                    sparseTimes(S, x) = {i \in Upto(m) : Cardinality(RowOf(arg[1], i) \cap x) % 2 = 1}
              /\ \A x \in SUBSET Upto(m) :
                    leftTimes(S, x) = sparseTimes(SparseOf(transposed(arg[1])), x)

\* Rows and columns of the dynamic matrix always tell of the same ones, those
\* the count denote, whatever was added, swapped, selected or assigned.
DynRight == fn = "dyn" => dyn = SparseOf(Mtx(dyn.m, dyn.n, ones))

\* Every combination has one index, and ++ goes to the next index.
CombinationsRight ==
    Done("combine") =>
        LET n == arg[1]
            k == arg[2]
        IN  /\ {Range(res[i]) : i \in DOMAIN res} = {S \in SUBSET Upto(n) : Cardinality(S) = k}
            /\ Cardinality(DOMAIN res) = Cardinality({S \in SUBSET Upto(n) : Cardinality(S) = k})
            /\ \A i \in DOMAIN res : i + 1 \in DOMAIN res => NextSet(res[i]) = res[i + 1]

\* A codeword is the sum of the generator rows at the ones of the plaintext,
\* whatever lies on the stack behind it.
CodeRight ==
    Done("encode") =>
        LET rows == {r \in Upto(arg.code.bits) : (arg.plain[r \div 8] \div 2 ^ (r % 8)) % 2 = 1}
        IN  res.any = rows /\ (res.bch = {} \/ res.bch = rows)

LinearRight ==
    /\ EliminationRight /\ InverseRight /\ GeneratorRight
    /\ SparseRight /\ DynRight /\ CombinationsRight /\ CodeRight
=============================================================================
