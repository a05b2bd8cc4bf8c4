----------------------------- MODULE Transpose -----------------------------
(***************************************************************************)
(* Bit-matrix tools (libOTe/Tools/Tools.cpp, Tools.h): the transposition   *)
(* of 128 by 128 bit squares in place, in its portable, SSE and AVX forms, *)
(* the transposition of rectangles of any size with its left-over rows and *)
(* columns, the product of two double blocks and the primality test.       *)
(*                                                                         *)
(* A bit is the set of input bits it is the XOR of, so that one behaviour  *)
(* speaks for every content of the matrix.  A store into an output matrix  *)
(* is an address and the eight bits written there: the order of the stores *)
(* does not matter when no address is written twice, and an address        *)
(* outside the output is a store into a neighbour.                         *)
(***************************************************************************)
EXTENDS Integers, Sequences, FiniteSets, FiniteSetsExt

CONSTANTS
    Blocks,     \* squares side by side in an in-place job (8 in "x1024")
    Rects,      \* sizes of rectangles: [rows, stride, outRows, outStride]
    Square,     \* the side of a square of avx_transpose (128)
    Half,       \* bits of a block in mul256 (128)
    Bits,       \* the width of a word of the primality test (64)
    Numbers     \* the numbers tested

VARIABLES fn, arg, mat, sub, blk, step, res
vars == <<fn, arg, mat, sub, blk, step, res>>

N == 128
Side == 0 .. N - 1
Zero == {}
Xor(a, b) == (a \ b) \cup (b \ a)
DivCeil(a, b) == (a + b - 1) \div b
Least(a, b) == IF a < b THEN a ELSE b
Upto(n) == 0 .. n - 1

Origin(i, r, c) == {(i * N + r) * N + c}

-----------------------------------------------------------------------------
(* eklundh_transpose128: seven rounds that exchange ever smaller blocks of  *)
(* two rows, each row two words of 64 bits.                                 *)

Word == 0 .. 63
And(w, mask) == [b \in Word |-> IF b \in mask THEN w[b] ELSE Zero]
XorWord(v, w) == [b \in Word |-> Xor(v[b], w[b])]
ShiftUp(w, s) == [b \in Word |-> IF b >= s THEN w[b - s] ELSE Zero]
ShiftDown(w, s) == [b \in Word |-> IF b + s <= 63 THEN w[b + s] ELSE Zero]

Low(row) == [b \in Word |-> row[b]]
High(row) == [b \in Word |-> row[64 + b]]
Join(lo, hi) == [c \in Side |-> IF c < 64 THEN lo[c] ELSE hi[c - 64]]

\* TRANSPOSE_MASKS128: its two columns differ in the first row only.
Stripes(width) == {b \in Word : (b \div width) % 2 = 0}
Mask1(i) == IF i = 0 THEN Word ELSE Stripes(2 ^ (6 - i))
Mask2(i) == IF i = 0 THEN {} ELSE Stripes(2 ^ (6 - i))

FirstRow(r1, r2, i, width) ==
    IF width < 64
    THEN Join(XorWord(And(Low(r1), Mask1(i)), ShiftUp(And(Low(r2), Mask1(i)), width)),
              XorWord(XorWord(And(High(r1), Mask2(i)), ShiftUp(And(High(r2), Mask2(i)), width)),
                      ShiftDown(And(Low(r2), Mask1(i)), 64 - width)))
    ELSE Join(And(Low(r1), Mask1(i)),
              XorWord(And(High(r1), Mask2(i)), ShiftDown(And(Low(r2), Mask1(i)), 64 - width)))
SecondRow(r1, r2, i, width) ==
    LET inv1 == Word \ Mask1(i)
        inv2 == Word \ Mask2(i)
    IN  IF width < 64
        THEN Join(XorWord(XorWord(And(Low(r2), inv1), ShiftDown(And(Low(r1), inv1), width)),
                          ShiftUp(And(High(r1), inv2), 64 - width)),
                  XorWord(And(High(r2), inv2), ShiftDown(And(High(r1), inv2), width)))
        ELSE Join(XorWord(And(Low(r2), inv1), ShiftUp(And(High(r1), inv2), 64 - width)),
                  And(High(r2), inv2))

FirstRows(nswaps, width) == {k + 2 * width * j : j \in Upto(nswaps), k \in Upto(width)}
EklundhRoundLate(m, i) ==
    LET width == 2 ^ (6 - i)
        first == FirstRows(2 ^ i - 1, width)
    IN  [r \in Side |-> IF r \in first THEN FirstRow(m[r], m[r + width], i, width)
                        ELSE IF r - width \in first THEN SecondRow(m[r - width], m[r], i, width)
                        ELSE m[r]]
EklundhRound(m, i) ==
    LET width == 2 ^ (6 - i)
        first == FirstRows(2 ^ i, width)
    IN  [r \in Side |-> IF r \in first THEN FirstRow(m[r], m[r + width], i, width)
                        ELSE SecondRow(m[r - width], m[r], i, width)]

-----------------------------------------------------------------------------
(* sse_transpose128: 16 by 16 sub-squares, loaded as two columns of 16      *)
(* bytes and stored one row of 16 bits at a time, the top bits first.       *)

sse_loadSubSquare(m, i, x, y) ==
    [h \in 0 .. 1 |-> [l \in 0 .. 15 |-> [b \in 0 .. 7 |-> m[16 * x + l][i][16 * y + 8 * h + b]]]]
sse_transposeSubSquare(m, i, a, x, y) ==
    [r \in Side |->
        IF r \div 16 # x THEN m[r]
        ELSE LET h == (r % 16) \div 8
                 j == 7 - (r % 8)            \* the shift after which this row is shaved off
             IN  [m[r] EXCEPT ![i] = [c \in Side |->
                    IF c \div 16 = y THEN a[h][c % 16][7 - j] ELSE @[c]]]]
SseSquare(m, i, j, k) ==
    IF k = j
    THEN sse_transposeSubSquare(m, i, sse_loadSubSquare(m, i, j, j), j, j)
    ELSE LET a == sse_loadSubSquare(m, i, k, j)
             b == sse_loadSubSquare(m, i, j, k)
         IN  sse_transposeSubSquare(sse_transposeSubSquare(m, i, a, j, k), i, b, k, j)

-----------------------------------------------------------------------------
(* avx_transpose128: a pass exchanges blocks of 2^b bits between two        *)
(* vectors of two rows each.                                                *)

Vec(m, v) == [c \in 0 .. 255 |-> IF c < N THEN m[2 * v][c] ELSE m[2 * v + 1][c - N]]
UpIn(v, lane, s) == [c \in 0 .. 255 |-> IF c % lane >= s THEN v[c - s] ELSE Zero]
DownIn(v, lane, s) == [c \in 0 .. 255 |-> IF (c % lane) + s < lane THEN v[c + s] ELSE Zero]
XorVec(v, w) == [c \in 0 .. 255 |-> Xor(v[c], w[c])]
\* Both vectors after "diff = (x ^ y << s) & mask; x ^= diff; y ^= diff >> s".
Exchange(x, y, lane, s, mask) ==
    LET diff == [c \in 0 .. 255 |-> IF c % lane \in mask THEN Xor(x[c], UpIn(y, lane, s)[c]) ELSE Zero]
    IN  <<XorVec(x, diff), XorVec(y, DownIn(diff, lane, s))>>
Halves(x, y, h) == [c \in 0 .. 255 |-> IF c < N THEN x[h * N + c] ELSE y[h * N + c - N]]

\* The mask of the loop over k: alternating runs of 2^b bits.
Smear(mask, k) == {c \in Word : (c \in mask) # (c + 2 ^ k \in mask)}
RECURSIVE BlockMask(_, _, _)
BlockMask(mask, k, b) == IF k < b THEN mask ELSE BlockMask(Smear(mask, k), k - 1, b)

Pair(x0, y0, b) ==
    IF b = 6
    THEN LET Part(h) == [c \in 0 .. 255 |-> IF c % N < 64 THEN x0[(c \div N) * N + 64 * h + (c % N)]
                                            ELSE y0[(c \div N) * N + 64 * h + (c % N) - 64]]
         IN  <<Part(0), Part(1)>>
    ELSE LET uv == Exchange(Halves(x0, y0, 0), Halves(x0, y0, 1), 16, 1, {c \in 0 .. 15 : c % 2 = 1})
             x == IF b = 1 THEN Halves(uv[1], uv[2], 0) ELSE x0
             y == IF b = 1 THEN Halves(uv[1], uv[2], 1) ELSE y0
         IN  Exchange(x, y, 64, 2 ^ b, BlockMask(32 .. 63, 4, b))

\* avx_transpose_block_iter1 and iter2: the vectors that come first in a pair.
FirstVecs(p) ==
    {p.base + i \div 2 + j \div 2 :
        i \in {i \in Upto(p.rows) : i % (2 ^ (p.b + 1)) = 0},
        j \in {j \in Upto(2 ^ p.b) : j % (2 ^ p.shift) = 0}}
\* avx_transpose_block over avx_transpose: the passes in their order.
BlockShift == 4
BlockPasses(from, to, shift, matRows, base) ==
    [q \in 1 .. to - from |->
        [b |-> from + q - 1, shift |-> shift, rows |-> 2 ^ (matRows + to), base |-> base]]
Passes ==
    LET small(q) == BlockPasses(1, 7 - BlockShift, 1, BlockShift + 1 - (7 - BlockShift), 16 * q)
        large(q) == BlockPasses(7 - BlockShift, 7, 7 - BlockShift, 0, q)
    IN  small(0) \o small(1) \o small(2) \o small(3) \o large(0) \o large(1) \o large(2) \o large(3)
AvxPass(m, p) ==
    LET first == FirstVecs(p)
        gap == 2 ^ (p.b - 1)
        new == [v \in first |-> Pair(Vec(m, v), Vec(m, v + gap), p.b)]
        Of(v) == IF v \in first THEN new[v][1] ELSE new[v - gap][2]
    IN  [r \in Side |->
            LET v == r \div 2
            IN  IF v \in first \/ v - gap \in first
                THEN [c \in Side |-> Of(v)[(r % 2) * N + c]]
                ELSE m[r]]

-----------------------------------------------------------------------------
(* Rectangles.  InBit is what is read: row r of the input, bit c.           *)

InBit(r, c) == <<r, c>>
None == <<>>

\* One byte column of up to n rows, written to the eight output rows below
\* R + 8 - skip, "bytes" of each.
ColumnStores(z, row0, byte, n, R, w, skip, bytes) ==
    {[addr |-> (R + 7 - (skip + j)) * z.outStride + 2 * w + h,
      bits |-> [b \in 0 .. 7 |-> IF 8 * h + b < n
                                 THEN InBit(row0 + 8 * h + b, 8 * byte + 7 - (skip + j)) ELSE None]] :
        j \in 0 .. 7 - skip, h \in Upto(bytes)}
LeftOverBytesEven(n) == 2
LeftOverBytes(n) == IF n > 8 THEN 2 ELSE 1
sse_transpose(z) ==
    LET width == z.rows \div 16
        height == z.outRows \div 64
        overH == z.outRows % 64
        overW == z.rows % 16
        hhEnd == DivCeil(overH, 8)
        Skip(hh) == IF hh = hhEnd - 1 THEN (8 - (overH % 8)) % 8 ELSE 0
        Main(w, n, bytes) ==
            UNION {ColumnStores(z, 16 * w, q, n, 8 * q, w, 0, bytes) : q \in Upto(8 * height)}
        Rest(w, n, bytes) ==
            UNION {ColumnStores(z, 16 * w, 8 * height + hh, n, 8 * (8 * height + hh), w, Skip(hh), bytes) :
                       hh \in Upto(hhEnd)}
        last == LeftOverBytes(overW)
    IN  UNION {Main(w, 16, 2) \cup Rest(w, 16, 2) : w \in Upto(width)}
        \cup (IF overW = 0 THEN {} ELSE Main(width, overW, last) \cup Rest(width, overW, last))
Refused(z) == z.outStride < DivCeil(z.rows, 8) \/ z.outRows > 8 * z.stride

\* One square of avx_transpose: nr rows and nc columns of it are copied to the
\* buffer, the rest of the buffer is zero, and "bytes" of nc rows come back.
SquareStores(z, i, j, nr, nc, bytes) ==
    {[addr |-> (Square * j + k) * z.outStride + (Square \div 8) * i + q,
      bits |-> [b \in 0 .. 7 |-> IF 8 * q + b < nr THEN InBit(Square * i + 8 * q + b, Square * j + k)
                                 ELSE None]] :
        k \in Upto(nc), q \in Upto(bytes)}
avx_transpose(z) ==
    LET rBits == Least(z.rows, 8 * z.outStride)
        cBits == Least(8 * z.stride, z.outRows)
        rMain == rBits \div Square
        cMain == cBits \div Square
        rRem == rBits - rMain * Square
        cRem == cBits - cMain * Square
        full == Square \div 8
    IN  UNION {SquareStores(z, i, j, Square, Square, full) : i \in Upto(rMain), j \in Upto(cMain)}
        \cup UNION {SquareStores(z, i, cMain, Square, cRem, full) : i \in Upto(rMain)}
        \cup UNION {SquareStores(z, rMain, j, rRem, Square, DivCeil(rRem, 8)) : j \in Upto(cMain)}
        \cup SquareStores(z, rMain, cMain, rRem, cRem, DivCeil(rRem, 8))

\* What a transposition of r by c bits has to write.
Transposed(z, r, c) ==
    {[addr |-> row * z.outStride + q,
      bits |-> [b \in 0 .. 7 |-> IF 8 * q + b < r THEN InBit(8 * q + b, row) ELSE None]] :
        row \in Upto(c), q \in Upto(DivCeil(r, 8))}

-----------------------------------------------------------------------------
(* Products of polynomials over GF(2), as sets of exponents.                *)

Product(a, b) == FoldSet(LAMBDA e, acc : Xor(acc, {e + f : f \in b}), {}, a)
mul128(a, b) == LET p == Product(a, b)
                IN  <<{e \in p : e < Half}, {e - Half : e \in {e \in p : e >= Half}}>>
mul256Swapped(a0, a1, b0, b1) ==
    LET lo == mul128(a0, b0)
        hi == mul128(a1, b1)
        mid == mul128(Xor(a0, a1), Xor(b0, b1))
    IN  <<lo[1], Xor(lo[2], mid[1]), Xor(hi[1], mid[2]), hi[2]>>
mul256(a0, a1, b0, b1) ==
    LET lo == mul128(a0, b0)
        hi == mul128(a1, b1)
        mid == mul128(Xor(a0, a1), Xor(b0, b1))
        c4 == Xor(Xor(mid[1], lo[1]), hi[1])
        c5 == Xor(Xor(mid[2], lo[2]), hi[2])
    IN  <<lo[1], Xor(lo[2], c4), Xor(hi[1], c5), hi[2]>>

-----------------------------------------------------------------------------
(* The primality test, in words of Bits bits.                               *)

Wrap(x) == x % 2 ^ Bits
RECURSIVE Power(_, _, _, _)
Power(x, y, p, acc) ==
    IF y = 0 THEN acc
    ELSE Power(Wrap(x * x) % p, y \div 2, p, IF y % 2 = 1 THEN Wrap(acc * x) % p ELSE acc)
power(x, y, p) == Power(x % p, y, p, 1)

RECURSIVE Squarings(_, _, _)
Squarings(x, d, n) ==
    IF d = n - 1 THEN FALSE
    ELSE LET y == Wrap(x * x) % n
         IN  IF y = 1 THEN FALSE ELSE IF y = n - 1 THEN TRUE ELSE Squarings(y, 2 * d, n)
millerTest(d, a, n) ==
    LET x == power(a, d, n)
    IN  IF x = 1 \/ x = n - 1 THEN TRUE ELSE Squarings(x, d, n)
RECURSIVE OddPart(_)
OddPart(d) == IF d % 2 = 0 THEN OddPart(d \div 2) ELSE d
\* a = 2 + random % (n - 4)
Witnesses(n) == 2 .. n - 3
\* The choices of the random witness for which one trial of isPrime accepts n.
Accepting(n) ==
    IF n <= 1 \/ n = 4 THEN {}
    ELSE IF n <= 3 THEN {0}
    ELSE {a \in Witnesses(n) : millerTest(OddPart(n - 1), a, n)}

-----------------------------------------------------------------------------
Squares == {"eklundh", "sse", "avx"}

InitMat == [r \in Side |-> [i \in Upto(Blocks) |-> [c \in Side |-> Origin(i, r, c)]]]

Init ==
    /\ sub = <<>> /\ blk = 0 /\ step = 0 /\ res = <<>>
    /\ \/ fn \in Squares /\ arg = <<>> /\ mat = InitMat
       \/ fn \in {"sse_transpose", "avx_transpose"} /\ arg \in Rects /\ mat = <<>>
       \/ fn = "mul256" /\ arg \in [1 .. 4 -> SUBSET Upto(Half)] /\ mat = <<>>
       \/ fn = "isPrime" /\ arg \in Numbers /\ mat = <<>>

Column(m, i) == [r \in Side |-> m[r][i]]
Stored(m, i, s) == [r \in Side |-> [m[r] EXCEPT ![i] = s[r]]]
Keep == UNCHANGED <<fn, arg, res>>

\* eklundh_transpose128x1024: one block column at a time, through "sub".
EklundhStep ==
    /\ fn = "eklundh" /\ blk < Blocks /\ Keep
    /\ \/ step = 0 /\ sub' = Column(mat, blk) /\ step' = 1 /\ UNCHANGED <<mat, blk>>
       \/ step \in 1 .. 7 /\ sub' = EklundhRound(sub, step - 1) /\ step' = step + 1 /\ UNCHANGED <<mat, blk>>
       \/ /\ step = 8
          /\ mat' = Stored(mat, blk, sub) /\ blk' = blk + 1 /\ step' = 0 /\ UNCHANGED sub

\* sse_transpose128x1024: in place, step = 8 * j + k.
SseStep ==
    /\ fn = "sse" /\ blk < Blocks /\ Keep /\ UNCHANGED sub
    /\ LET j == step \div 8
           k == step % 8
       IN  /\ mat' = SseSquare(mat, blk, j, k)
           /\ IF k < j THEN step' = step + 1 /\ UNCHANGED blk
              ELSE IF j < 7 THEN step' = 8 * (j + 1) /\ UNCHANGED blk
              ELSE step' = 0 /\ blk' = blk + 1

\* avx_transpose128x1024: all blocks are transposed in a buffer before any is stored.
AvxStep ==
    /\ fn = "avx" /\ Keep
    /\ \/ /\ blk < Blocks /\ step = 0
          /\ sub' = Append(sub, Column(mat, blk)) /\ step' = 1 /\ UNCHANGED <<mat, blk>>
       \/ /\ blk < Blocks /\ step \in 1 .. Len(Passes)
          /\ sub' = [sub EXCEPT ![blk + 1] = AvxPass(@, Passes[step])]
          /\ IF step = Len(Passes) THEN step' = 0 /\ blk' = blk + 1 ELSE step' = step + 1 /\ UNCHANGED blk
          /\ UNCHANGED mat
       \/ /\ blk = Blocks /\ step < Blocks
          /\ mat' = Stored(mat, step, sub[step + 1]) /\ step' = step + 1 /\ UNCHANGED <<sub, blk>>

\* The calls that return in one step.
Return ==
    /\ step = 0 /\ step' = 1 /\ UNCHANGED <<fn, arg, mat, sub, blk>>
    /\ \/ fn = "sse_transpose" /\ res' = IF Refused(arg) THEN {"throw"} ELSE sse_transpose(arg)
       \/ fn = "avx_transpose" /\ res' = avx_transpose(arg)
       \/ fn = "mul256" /\ res' = mul256(arg[1], arg[2], arg[3], arg[4])
       \/ fn = "isPrime" /\ res' = Accepting(arg)

Next == EklundhStep \/ SseStep \/ AvxStep \/ Return

Spec == Init /\ [][Next]_vars

-----------------------------------------------------------------------------
SquareDone == fn \in Squares /\ blk = Blocks /\ (fn = "avx" => step = Blocks)

\* Each of the three in-place transpositions puts bit (r, c) of every block at
\* (c, r) of the same block, whatever the matrix holds.
SquareRight ==
    SquareDone =>
        \A i \in Upto(Blocks), r \in Side, c \in Side : mat[r][i][c] = Origin(i, c, r)

\* A rectangle is transposed completely, left-over rows and columns included,
\* the padding bits of its last bytes are zero, and no byte outside it is written.
RectRight ==
    /\ fn = "sse_transpose" /\ step = 1 =>
           res = IF Refused(arg) THEN {"throw"} ELSE Transposed(arg, arg.rows, arg.outRows)
    /\ fn = "avx_transpose" /\ step = 1 =>
           res = Transposed(arg, Least(arg.rows, 8 * arg.outStride), Least(8 * arg.stride, arg.outRows))

\* Three block products give the four blocks of the product of double blocks.
ProductRight ==
    fn = "mul256" /\ step = 1 =>
        UNION {{e + (i - 1) * Half : e \in res[i]} : i \in 1 .. 4}
          = Product(arg[1] \cup {e + Half : e \in arg[2]}, arg[3] \cup {e + Half : e \in arg[4]})

\* A prime is accepted whatever the random witness; a composite number by at
\* most a quarter of them, as long as squares fit into a word.
Prime(n) == n > 1 /\ \A q \in 2 .. n - 1 : n % q # 0
PrimeRight ==
    fn = "isPrime" /\ step = 1 /\ arg <= 2 ^ (Bits \div 2) =>
        IF arg <= 4 THEN Prime(arg) <=> res # {}
        ELSE IF Prime(arg) THEN res = Witnesses(arg)
        ELSE 4 * Cardinality(res) <= Cardinality(Witnesses(arg))

ToolsRight == SquareRight /\ RectRight /\ ProductRight /\ PrimeRight
=============================================================================
