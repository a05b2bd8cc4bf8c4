---------------------------- MODULE BetaLibrary ----------------------------
(***************************************************************************)
(* The arithmetic circuits of cryptoTools (Circuit/BetaLibrary.cpp): ripple *)
(* and Sklansky adders, subtraction and comparison, the multiplier, the     *)
(* divider, the sign circuits.  BetaCircuit shows that a circuit computes   *)
(* what the builder calls denote, so a wire is its bit here and a bundle is *)
(* the sequence of its bits, lowest first; a gate is the function of its    *)
(* table.  A sum wire the caller did not ask for ("-1" in the code) is a    *)
(* position outside the set "asked".                                        *)
(*                                                                         *)
(* Then the arithmetic on Bits (MxCircuitLibrary.h, .cpp) and the integer   *)
(* types built on it (MxTypes.h), which uses the same bits and tables.      *)
(* MxCircuit shows that an expression of Bits computes what it denotes.    *)
(* Unlike the circuits of BetaLibrary these write into spans the caller    *)
(* owns, and some calls read and write the same span: "inPlace" says that  *)
(* the first operand is the output, read while it is being overwritten.    *)
(***************************************************************************)
EXTENDS Integers, Sequences, FiniteSets, SequencesExt

CONSTANTS MaxBits,    \* widest input
          MaxWide     \* widest sum or product

Widths == MaxBits \in Nat \ {0} /\ MaxWide \in Nat /\ MaxWide >= MaxBits

Bit == {0, 1}
Vec(n) == [1 .. n -> Bit]
xor(a, b) == (a + b) % 2
and(a, b) == a * b
or(a, b) == (a + b) - (a * b)
not(a) == 1 - a

Signed == "TwosComplement"   Unsigned == "Unsigned"
Size == "Size"               Depth == "Depth"
Addition == "Addition"       Subtraction == "Subtraction"
IntTypes == {Signed, Unsigned}
Optimized == {Size, Depth}

LeastOf(a, b) == IF a < b THEN a ELSE b
MostOf(a, b) == IF a > b THEN a ELSE b
Log2Ceil(n) == CHOOSE d \in 0 .. n : 2 ^ d >= n /\ (d = 0 \/ 2 ^ (d - 1) < n)

\* What a bundle stands for.
UnsignedOf(v) == FoldLeftDomain(LAMBDA s, i : s + (v[i] * (2 ^ (i - 1))), 0, v)
SignedOf(v) == UnsignedOf(v) - (IF v[Len(v)] = 1 THEN 2 ^ Len(v) ELSE 0)
ValueOf(v, it) == IF it = Signed THEN SignedOf(v) ELSE UnsignedOf(v)

----------------------------------------------------------------------------
(* Adders: the bits 1 .. n of a1 + a2 or a1 - a2.                           *)

\* A bit past the end of a bundle is its sign, or zero.
GetBitZero(b, i, it) == IF i <= Len(b) THEN b[i] ELSE 0
GetBit(b, i, it) == IF it = Signed THEN b[LeastOf(i, Len(b))] ELSE IF i <= Len(b) THEN b[i] ELSE 0
SignExtendResize(b, n, it) == [i \in 1 .. n |-> GetBit(b, i, it)]

\* One carry wire walks up; in a sum it plays x, in a difference z.
RippleAdder(a1, a2, n, it, at) ==
    LET Step(s, i) ==
            LET xi == IF at = Addition THEN s.c ELSE GetBit(a1, i, it)
                yi == GetBit(a2, i, it)
                zi == IF at = Addition THEN GetBit(a1, i, it) ELSE s.c
                t0 == xor(xi, yi)
                t1 == xor(xi, zi)
                g == IF at = Addition THEN and(t0, t1) ELSE or(t0, t1)
            IN  [c |-> xor(g, xi), out |-> Append(s.out, xor(t0, zi))]
    IN  FoldLeft(Step, [c |-> 0, out |-> <<>>], [i \in 1 .. n |-> i]).out

\* The Sklansky graph over positions 0 .. n-1: at level l, position cur joins
\* the carry of the block ending at low; first marks the block that starts at 0.
JoinsAllFirst(n, l) == {[cur |-> k, low |-> (k \div (2 ^ l)) * (2 ^ l) - 1, first |-> TRUE] :
                    k \in {k \in 1 .. n - 1 : (k \div (2 ^ l)) % 2 = 1}}
Joins(n, l) == {[cur |-> k, low |-> (k \div (2 ^ l)) * (2 ^ l) - 1, first |-> k < 2 ^ (l + 1)] :
                    k \in {k \in 1 .. n - 1 : (k \div (2 ^ l)) % 2 = 1}}

\* lvls: the last level below l that joined position p, or -1.
LastJoin(n, l, p) ==
    LET ls == {k \in 0 .. l - 1 : \E j \in Joins(n, k) : j.cur = p}
    IN  IF ls = {} THEN -1 ELSE CHOOSE k \in ls : \A m \in ls : m <= k

\* The joins an asked-for sum bit needs: the last join of the position below
\* it and, above level 0, the joins its two operands went through.
UsedJoinsRoots(n, asked) ==
    LET d == Log2Ceil(n)
    IN  {<<LastJoin(n, d, p - 1), p - 1>> : p \in {q \in asked \ {0} : LastJoin(n, d, q - 1) # -1}}

UsedJoins(n, asked) ==
    LET d == Log2Ceil(n)
        Last0(l, p) == IF LastJoin(n, l, p) = -1 THEN {} ELSE {<<LastJoin(n, l, p), p>>}
        Below(lp) == LET j == CHOOSE j \in Joins(n, lp[1]) : j.cur = lp[2]
                     IN  IF lp[1] = 0 THEN {} ELSE Last0(lp[1], j.cur) \cup Last0(lp[1], j.low)
        roots == UNION {Last0(d, p - 1) : p \in (asked \ {0})}
        Grow(s, i) == s \cup UNION {Below(lp) : lp \in s}
    IN  FoldLeft(Grow, roots, [i \in 1 .. d |-> i])

\* Within a level every join of the code reads carries that no join of the
\* level writes, so the joins of a level act at once.
PrefixLevel(n, used, s, l) ==
    LET js == {j \in Joins(n, l) : <<l, j.cur>> \in used}
        Of(p) == CHOOSE j \in js : j.cur = p
        Is(p) == \E j \in js : j.cur = p
    IN  [G |-> [p \in 0 .. n - 1 |-> IF Is(p) /\ p < n - 1 THEN xor(and(s.P[p], s.G[Of(p).low]), s.G[p]) ELSE s.G[p]],
         P |-> [p \in 0 .. n - 1 |-> IF Is(p) /\ ~Of(p).first THEN and(s.P[Of(p).low], s.P[p]) ELSE s.P[p]]]

ParallelPrefixShort(a1, a2, n, it, at, asked) == RippleAdder(a1, a2, n - 1, it, at)

ParallelPrefix(a1, a2, n, it, at, asked) ==
    LET x == SignExtendResize(a1, n, it)
        y == SignExtendResize(a2, n, it)
        s0 == [P |-> [p \in 0 .. n - 1 |-> IF at = Addition THEN xor(x[p + 1], y[p + 1]) ELSE not(xor(x[p + 1], y[p + 1]))],
               G |-> [p \in 0 .. n - 1 |-> IF at = Addition THEN and(x[p + 1], y[p + 1]) ELSE and(not(x[p + 1]), y[p + 1])]]
        used == UsedJoins(n, asked)
        s == FoldLeft(LAMBDA t, l : PrefixLevel(n, used, t, l - 1), s0, [i \in 1 .. Log2Ceil(n) |-> i])
    IN  [i \in 1 .. n |-> IF i = 1 THEN xor(x[1], y[1]) ELSE xor(xor(x[i], y[i]), s.G[i - 2])]

AddSub(a1, a2, n, it, at, op, asked) ==
    IF op = Size THEN RippleAdder(a1, a2, n, it, at) ELSE ParallelPrefix(a1, a2, n, it, at, asked)

Add(a1, a2, n, it, op) == AddSub(a1, a2, n, it, Addition, op, 0 .. n - 1)
Subtract(a1, a2, n, it, op) == AddSub(a1, a2, n, it, Subtraction, op, 0 .. n - 1)
\* Only the bit at bitIdx is asked for.
ExtractBit(a1, a2, bitIdx, it, at, op) == AddSub(a1, a2, bitIdx + 1, it, at, op, {bitIdx})[bitIdx + 1]
LessThan(a1, a2, it, op) == ExtractBit(a1, a2, MostOf(Len(a1), Len(a2)), it, Subtraction, op)
GreaterThanEq(a1, a2, it, op) == not(LessThan(a1, a2, it, op))

----------------------------------------------------------------------------
(* Multiplication: rows b[i] * a are added one after the other, each sum     *)
(* giving one more bit of the product.                                       *)

MultRowsUnsigned(na, nb, nc, it) == LeastOf(nb, nc)
MultRows(na, nb, nc, it) == IF it = Signed THEN nc ELSE LeastOf(nb, nc)
Row(a, b, nc, i) == LET bi == b[LeastOf(i + 1, Len(b))]
                    IN  [j \in 1 .. LeastOf(nc - i, Len(a)) |-> and(bi, a[j])]

MultOrdered(a, b, nc, op, it) ==
    LET rows == MultRows(Len(a), Len(b), nc, it)
        row0 == Row(a, b, nc, 0)
        Step(s, i) ==
            LET n == LeastOf(Len(Row(a, b, nc, i)) + 1, nc - i)
                sum == Add(s.acc, Row(a, b, nc, i), n, it, op)
            IN  [acc |-> Tail(sum), c |-> Append(s.c, sum[1])]
        s == FoldLeft(Step, [acc |-> Tail(row0), c |-> <<row0[1]>>], [i \in 1 .. rows - 1 |-> i])
        prod == s.c \o s.acc
    IN  \* product bits no gate has written read as zero
        [i \in 1 .. nc |-> IF i <= Len(prod) THEN prod[i] ELSE 0]
MultAsGiven(a, b, nc, op, it) == MultOrdered(a, b, nc, op, it)
Mult(a, b, nc, op, it) == IF Len(a) >= Len(b) THEN MultOrdered(a, b, nc, op, it) ELSE MultOrdered(b, a, nc, op, it)

----------------------------------------------------------------------------
(* Signs and choices.                                                        *)

BitwiseInvert(a) == [i \in 1 .. Len(a) |-> not(a[i])]
\* The constant one has two bits, so that its sign extension is zero.
NegateOneBit(a, n, op) == Add(BitwiseInvert(a), <<1>>, n, Signed, op)
Negate(a, n, op) == Add(BitwiseInvert(a), <<1, 0>>, n, Signed, op)
Multiplex(t, f, s, n) == [i \in 1 .. n |-> xor(f[i], and(xor(f[i], t[i]), s))]
RemoveSign(a, op) == Multiplex(Negate(a, Len(a), op), a, a[Len(a)], Len(a))
AddSign(a, sign, n, op) == Multiplex(Negate(a, Len(a), op), a, sign, n)

----------------------------------------------------------------------------
(* Division: schoolbook, from the top bit of the dividend down.  A result    *)
(* says whether the circuit was built, and what the wires of the quotient,  *)
(* of the caller's remainder and of the dividend hold afterwards.           *)

DivStep(divider, op, s, bit) ==
    LET r == <<bit>> \o s.rem
        ge == GreaterThanEq(r, divider, Unsigned, op)
        sub == [j \in 1 .. LeastOf(Len(divider), Len(r)) |-> and(divider[j], ge)]
    IN  [minuend |-> r, rem |-> Subtract(r, sub, Len(r), Unsigned, op), q |-> <<ge>> \o s.q]
\* The loop subtracts from one bundle into the other by turns and both grow by
\* wires of the dividend, so that those end as bits of the last remainder and
\* of the last minuend.
Overwritten(s) == [j \in 1 .. Len(s.q) |-> IF j % 2 = 0 THEN s.rem[j \div 2] ELSE s.minuend[(j + 1) \div 2]]
\* No gate writes the caller's remainder: it only gives its width, r wires,
\* which read as zero.
DivUnsigned(a, b, r, op) ==
    LET Step(s, bit) == DivStep(b, op, s, bit)
        s == FoldLeft(Step, [minuend |-> <<>>, rem |-> <<>>, q |-> <<>>], Reverse(a))
    IN  [built |-> TRUE, q |-> s.q, rem |-> [i \in 1 .. r |-> 0], dividend |-> Overwritten(s)]
\* On copies without their signs.  A remainder has its sign added to the wires
\* the unsigned division did not write, and inverting such a wire throws.
DivSignedPlain(a, b, r, op) ==
    IF r > 0 THEN [built |-> FALSE]
    ELSE [DivUnsigned(RemoveSign(a, op), RemoveSign(b, op), r, op) EXCEPT !.dividend = a]
DivSigned(a, b, r, op) ==
    IF r > 0 THEN [built |-> FALSE]
    ELSE LET sign == xor(a[Len(a)], b[Len(b)])
             u == DivUnsigned(RemoveSign(a, op), RemoveSign(b, op), r, op)
         IN  [u EXCEPT !.q = AddSign(u.q, sign, Len(u.q), op), !.dividend = a]

----------------------------------------------------------------------------
(* Zero and equality.                                                        *)

\* One wire: the copy is made first, then the input wire is inverted.
IsZero(a) == IF Len(a) = 1 THEN a[1]
             ELSE FoldLeftDomain(LAMBDA o, i : IF i <= 2 THEN o ELSE and(o, not(a[i])), and(not(a[1]), not(a[2])), a)

\* A tree of ANDs; a level of one wire is the output.  out is 0 until written.
EqLevel(s, size) ==
    LET t2 == [j \in 1 .. size |-> and(s.temp[(2 * j) - 1], s.temp[2 * j])]
    IN  [temp |-> t2, out |-> IF size = 1 THEN t2[1] ELSE s.out]
Eq(a, b) ==
    LET t0 == [i \in 1 .. Len(a) |-> not(xor(a[i], b[i]))]
        s0 == [temp |-> t0, out |-> IF Len(a) = 1 THEN t0[1] ELSE 0]
    IN  FoldLeft(EqLevel, s0, [i \in 1 .. Log2Ceil(Len(a)) |-> (Len(a) \div 2) \div (2 ^ (i - 1))]).out

----------------------------------------------------------------------------
(* One call of the library on one input.                                     *)

VARIABLES call,   \* the circuit asked for and its inputs
          out     \* what it computes
vars == <<call, out>>

NoCall == [fn |-> "none"]
Init == call = NoCall /\ out = <<>>
Asks(c) == call = NoCall /\ call' = c
Operands == UNION {Vec(n) : n \in 1 .. MaxBits}

CallAddSub == \E a \in Operands, b \in Operands, n \in 1 .. MaxWide, it \in IntTypes, op \in Optimized, at \in {Addition, Subtraction} :
    /\ Asks([fn |-> at, a |-> a, b |-> b, n |-> n, it |-> it])
    /\ out' = IF at = Addition THEN Add(a, b, n, it, op) ELSE Subtract(a, b, n, it, op)
CallBit == \E a \in Operands, b \in Operands, it \in IntTypes, op \in Optimized, at \in {Addition, Subtraction} :
    \E n \in 0 .. MaxWide - 1 :
        /\ Asks([fn |-> "bit", at |-> at, a |-> a, b |-> b, n |-> n, it |-> it])
        /\ out' = <<ExtractBit(a, b, n, it, at, op)>>
CallCompare == \E a \in Operands, b \in Operands, it \in IntTypes, op \in Optimized :
    /\ Asks([fn |-> "lt", a |-> a, b |-> b, it |-> it])
    /\ out' = <<LessThan(a, b, it, op), GreaterThanEq(a, b, it, op)>>
\* The signed product of two single bits adds to an empty row: not asked for here.
CallMult == \E a \in Operands, b \in Operands, it \in IntTypes, op \in Optimized : \E n \in 1 .. Len(a) + Len(b) :
    /\ ~(it = Signed /\ Len(a) = 1 /\ Len(b) = 1 /\ n = 2)
    /\ Asks([fn |-> "mult", a |-> a, b |-> b, n |-> n, it |-> it])
    /\ out' = Mult(a, b, n, op, it)
CallSign == \E a \in Operands, s \in Bit, op \in Optimized :
    /\ Asks([fn |-> "sign", a |-> a, s |-> s])
    /\ out' = <<Negate(a, Len(a), op), RemoveSign(a, op), AddSign(a, s, Len(a), op)>>
\* The quotient is as wide as the dividend, else building throws.  int_int_div asks
\* for the signed one without a remainder; the builder itself is public too.
CallDiv == \E a \in Operands, b \in Operands, it \in IntTypes, op \in Optimized : \E r \in {0, Len(b)} :
    /\ Asks([fn |-> "div", a |-> a, b |-> b, it |-> it, r |-> r])
    /\ out' = IF it = Signed THEN DivSigned(a, b, r, op) ELSE DivUnsigned(a, b, r, op)
CallEq == \E n \in 1 .. MaxBits : \E a \in Vec(n), b \in Vec(n) :
    /\ Asks([fn |-> "eq", a |-> a, b |-> b])
    /\ out' = <<Eq(a, b), IsZero(a)>>

Next == /\ call = NoCall
        /\ CallAddSub \/ CallBit \/ CallCompare \/ CallMult \/ CallSign \/ CallDiv \/ CallEq
Spec == Init /\ [][Next]_vars

----------------------------------------------------------------------------
\* The output width is what the caller asked for.
TypeOK == call.fn \in {Addition, Subtraction, "mult"} => out \in Vec(call.n)

SumOf(c) == IF c.fn = Addition \/ (c.fn = "bit" /\ c.at = Addition)
          THEN ValueOf(c.a, c.it) + ValueOf(c.b, c.it) ELSE ValueOf(c.a, c.it) - ValueOf(c.b, c.it)

\* Both adders compute the sum and the difference modulo the output width, for
\* operands of different widths, signed or not, wider or narrower than the output.
AddersAgree == call.fn \in {Addition, Subtraction} => UnsignedOf(out) = SumOf(call) % (2 ^ call.n)

\* A single bit of a sum is right although the depth-optimised adder leaves out
\* every join that this bit does not need.
BitExact == call.fn = "bit" => out[1] = (SumOf(call) \div (2 ^ call.n)) % 2

\* The comparison takes the sign of a difference one bit wider than its
\* operands, so it is exact where the difference of equal widths overflows.
CompareExact == call.fn = "lt" =>
    out = IF ValueOf(call.a, call.it) < ValueOf(call.b, call.it) THEN <<1, 0>> ELSE <<0, 1>>

\* The product is exact modulo the output width for every pair of widths.
MultExact == call.fn = "mult" =>
    UnsignedOf(out) = (ValueOf(call.a, call.it) * ValueOf(call.b, call.it)) % (2 ^ call.n)

\* Negation, absolute value (read unsigned, so that the least value has one)
\* and sign: -a, |a| and +-a modulo the width.
SignExact == call.fn = "sign" =>
    LET m == 2 ^ Len(call.a)   v == SignedOf(call.a)
    IN  /\ UnsignedOf(out[1]) = (0 - v) % m
        /\ UnsignedOf(out[2]) = IF v < 0 THEN 0 - v ELSE v
        /\ UnsignedOf(out[3]) = (IF call.s = 1 THEN 0 - v ELSE v) % m

\* Division truncates towards zero; the quotient wraps only where -a overflows.
\* So does every circuit that is built: asked for a remainder, the unsigned one
\* still gives the quotient (and zeros), the signed one is not built at all.
DivExact == (call.fn = "div" /\ out.built /\ ValueOf(call.b, call.it) # 0) =>
    LET va == ValueOf(call.a, call.it)   vb == ValueOf(call.b, call.it)
        Abs(v) == IF v < 0 THEN 0 - v ELSE v
        q == (IF (va < 0) = (vb < 0) THEN 1 ELSE -1) * (Abs(va) \div Abs(vb))
    IN  UnsignedOf(out.q) = q % (2 ^ Len(call.a))

\* int_eq decides equality.
EqDecides == call.fn = "eq" => out[1] = IF call.a = call.b THEN 1 ELSE 0

----------------------------------------------------------------------------
(* Arithmetic on Bits.                                                     *)

\* A bit past the end: the last one of a signed integer, else zero.
SignExtend(b, i, it) == GetBit(b, i, it)

----------------------------------------------------------------------------
(* Adders: sum0 is the output span before the call.                         *)

Cell(a1, a2, cIn, at) ==
    LET t1 == xor(cIn, a1)   t2 == xor(a1, a2)
        t3 == IF at = Addition THEN and(t1, t2) ELSE or(t1, t2)
    IN  [sum |-> xor(t2, cIn), cOut |-> xor(a1, t3)]

Ripple(sum0, inPlace, a1, a2, it, at) ==
    LET Step(s, i) == LET x == SignExtend(IF inPlace THEN s.sum ELSE a1, i, it)
                          r == Cell(x, SignExtend(a2, i, it), s.c, at)
                      IN  [sum |-> [s.sum EXCEPT ![i] = r.sum], c |-> r.cOut]
    IN  FoldLeftDomain(Step, [sum |-> sum0, c |-> 0], sum0).sum

\* The Sklansky tree: at level l every position with bit l set joins the block
\* that ends at Low.  Nodes of the graph are <<level, position>>; LastLevel is
\* the level below l that position p joined last, or -1.
Joins2(l, p) == (p \div (2 ^ l)) % 2 = 1
Low(l, p) == ((p \div (2 ^ l)) * (2 ^ l)) - 1
LastLevel(l, p) == CHOOSE k \in -1 .. l - 1 : (k = -1 \/ Joins2(k, p)) /\ \A m \in k + 1 .. l - 1 : ~Joins2(m, p)
Enqueue(l, p) == IF LastLevel(l, p) = -1 THEN {} ELSE {<<LastLevel(l, p), p>>}

\* The nodes the carries need, from the last join of every position downwards.
NeededNodes(n) ==
    LET d == Log2Ceil(n)
        roots == UNION {Enqueue(d, p - 1) : p \in 1 .. n - 1}
        Operand(nd) == IF nd[1] = 0 THEN {} ELSE Enqueue(nd[1], nd[2]) \cup Enqueue(nd[1], Low(nd[1], nd[2]))
    IN  FoldLeft(LAMBDA s, i : s \cup UNION {Operand(nd) : nd \in s}, roots, [i \in 1 .. d |-> i])
Needed == [n \in 1 .. 2 * MaxWide |-> NeededNodes(n)]

\* P and G are the sets of positions that propagate and generate a carry.  A
\* level reads only positions it does not write, so its nodes act at once; the
\* blocks that start at 0 propagate no carry.
TreeLevel(n, s, l) ==
    LET Join(acts) ==
            [G |-> {p \in 0 .. n - 2 : (p \in s.G) # (p \in acts /\ p \in s.P /\ Low(l, p) \in s.G)},
             P |-> {p \in s.P : p \in acts /\ p >= 2 ^ (l + 1) => Low(l, p) \in s.P}]
    IN  Join({p \in 0 .. n - 1 : <<l, p>> \in Needed[n]})

\* The last loop reads the operands a second time, while it writes the sum.
Prefix(sum0, inPlace, a1, a2, it, at) ==
    LET n == Len(sum0)
        x(p) == SignExtend(IF inPlace THEN sum0 ELSE a1, p + 1, it)
        y(p) == SignExtend(a2, p + 1, it)
        s0 == [P |-> {p \in 0 .. n - 1 : (x(p) = y(p)) = (at = Subtraction)},
               G |-> {p \in 0 .. n - 2 : y(p) = 1 /\ (x(p) = 1) = (at = Addition)}]
        s == FoldLeft(LAMBDA t, l : TreeLevel(n, t, l - 1), s0, [i \in 1 .. Log2Ceil(n) |-> i])
        Carry(i) == IF i - 2 \in s.G THEN 1 ELSE 0
        Write(sum, i) ==
            [sum EXCEPT ![i] = xor(xor(SignExtend(IF inPlace THEN sum ELSE a1, i, it), y(i - 1)), Carry(i))]
    IN  FoldLeftDomain(Write, sum0, sum0)

Into(sum0, inPlace, a1, a2, it, at, op) ==
    IF op = Size THEN Ripple(sum0, inPlace, a1, a2, it, at) ELSE Prefix(sum0, inPlace, a1, a2, it, at)
Zeros(n) == [i \in 1 .. n |-> 0]
AddTo(a1, a2, n, it, at, op) == Into(Zeros(n), FALSE, a1, a2, it, at, op)

\* A tree of ANDs; a wire left over at a level is carried to the next.
Halve(t) == [j \in 1 .. (Len(t) + 1) \div 2 |-> IF 2 * j <= Len(t) THEN and(t[(2 * j) - 1], t[2 * j]) ELSE t[(2 * j) - 1]]
ParallelEquality(a1, a2) ==
    FoldLeftDomain(LAMBDA t, i : Halve(t), [i \in DOMAIN a1 |-> not(xor(a1[i], a2[i]))], a1)[1]

----------------------------------------------------------------------------
(* Sums of many: three integers become two, their sums and their carries.   *)

SavedSize(a, b, c, n, it) == IF it = Signed THEN n ELSE MostOf(MostOf(Len(a) + 1, Len(b) + 1), Len(c))
CarrySave(a, b, c, n, it) ==
    LET size == SavedSize(a, b, c, n, it)
        At(j) == Cell(SignExtend(a, j, it), SignExtend(b, j, it), SignExtend(c, j, it), Addition)
    IN  << [j \in 1 .. size |-> At(j).sum], [j \in 1 .. size |-> IF j = 1 THEN 0 ELSE At(j - 1).cOut] >>
Compress(temps, n, it) ==
    LET full == Len(temps) \div 3
    IN  IF Len(temps) <= 2 THEN temps
        ELSE FoldLeft(LAMBDA s, k : s \o CarrySave(temps[(3 * k) - 2], temps[(3 * k) - 1], temps[3 * k], n, it),
                      <<>>, [k \in 1 .. full |-> k]) \o SubSeq(temps, (3 * full) + 1, Len(temps))

Extended(x, n, it) == [i \in 1 .. n |-> SignExtend(x, i, it)]
ParallelSummation(xs, n, op, it) ==
    LET temps == FoldLeftDomain(LAMBDA t, i : Compress(t, n, it), xs, xs)
        two == AddTo(xs[1], xs[2], n, it, Addition, Size)
    IN  CASE op = Depth -> IF Len(temps) = 2 THEN AddTo(temps[1], temps[2], n, it, Addition, Depth)
                           ELSE Extended(temps[1], n, it)
          [] op = Size -> IF Len(xs) = 1 THEN Extended(xs[1], n, it)
                          ELSE FoldLeft(LAMBDA sum, x : Ripple(sum, TRUE, sum, x, it, Addition), two, SubSeq(xs, 3, Len(xs)))

\* Row i is b[i] * a shifted by i and cut at the width of the product.
Shifted(a, bi, i, n) == [j \in 1 .. LeastOf(n, Len(a) + i) |-> IF j <= i THEN 0 ELSE and(bi, a[j - i])]
Multiply(a, b, n, op, it) ==
    LET rows == IF it = Signed THEN n ELSE LeastOf(Len(b), n)
    IN  ParallelSummation([i \in 1 .. rows |-> Shifted(a, SignExtend(b, i, it), i - 1, n)], n, op, it)

----------------------------------------------------------------------------
(* Signs, comparison, division.                                             *)

Minus(a, op) == AddTo(<<0>>, a, Len(a), Unsigned, Subtraction, op)
WithoutSign(a, op) == Multiplex(Minus(a, op), a, a[Len(a)], Len(a))
WithSign(sign, a, op) == Multiplex(Minus(a, op), a, sign, Len(a))
Less(a1, a2, it, op) ==
    LET n == MostOf(Len(a1), Len(a2)) + 1 IN AddTo(a1, a2, n, it, Subtraction, op)[n]

\* Step i subtracts the divider, shifted by i, where it fits; the bits of the
\* current value it lines up with are updated in place.
Subtracted(s, divider, i, op) ==
    LET hi == LeastOf(i + Len(divider) + 1, Len(s.cur))
        c2 == SubSeq(s.cur, i + 1, hi)
        q == not(Less(c2, divider, Unsigned, op))
        sub == [j \in 1 .. LeastOf(Len(c2), Len(divider)) |-> and(divider[j], q)]
        left == Into(c2, TRUE, c2, sub, Unsigned, Subtraction, op)
    IN  [cur |-> SubSeq(s.cur, 1, i) \o left \o SubSeq(s.cur, hi + 1, Len(s.cur)), quot |-> [s.quot EXCEPT ![i + 1] = q]]
DivideUnsigned(a, b, r, op) ==
    LET n == Len(a)
        Result(s) == [quot |-> s.quot, rem |-> [i \in 1 .. r |-> IF i <= n THEN s.cur[i] ELSE 0]]
    IN  Result(FoldLeft(LAMBDA t, k : Subtracted(t, b, n - k, op), [cur |-> a, quot |-> Zeros(n)], [k \in 1 .. n |-> k]))
\* The remainder takes the sign of the dividend.
DivideRemainder(a, b, r, op, it) ==
    LET aSign == a[Len(a)]
        Signs(u) == [quot |-> WithSign(xor(aSign, b[Len(b)]), u.quot, op),
                     rem |-> IF r = 0 THEN <<>> ELSE WithSign(aSign, u.rem, op)]
    IN  IF it = Unsigned THEN DivideUnsigned(a, b, r, op)
        ELSE Signs(DivideUnsigned(WithoutSign(a, op), WithoutSign(b, op), r, op))

----------------------------------------------------------------------------
(* The operators of BInt and BDynInt: all optimise depth.                    *)

Lt(a, b, it) == Less(a, b, it, Depth)
Gt(a, b, it) == Lt(b, a, it)
LtEq(a, b, it) == not(Gt(a, b, it))
GtEq(a, b, it) == LtEq(b, a, it)
Equal(a, b) == ParallelEquality(a, b)
NotEqual(a, b) == not(Equal(a, b))
Not(a) == Equal(a, Zeros(Len(a)))
Bitwise2(a, b) == << [i \in DOMAIN a |-> and(a[i], b[i])], [i \in DOMAIN a |-> or(a[i], b[i])],
                     [i \in DOMAIN a |-> xor(a[i], b[i])], [i \in DOMAIN a |-> not(a[i])] >>
ShiftRight(a, v, it) == [i \in DOMAIN a |-> IF i + v <= Len(a) THEN a[i + v] ELSE IF it = Signed THEN a[Len(a)] ELSE 0]
ShiftLeft(a, v) == [i \in DOMAIN a |-> IF i > v THEN a[i - v] ELSE 0]
\* Only a signed integer that becomes signed is extended by its sign.
Cast(a, n, from, to) == [i \in 1 .. n |-> IF i <= Len(a) THEN a[i]
                                          ELSE IF from = Signed /\ to = Signed THEN a[Len(a)] ELSE 0]
FromValue(v, n) == [i \in 1 .. n |-> (v \div (2 ^ (i - 1))) % 2]

----------------------------------------------------------------------------
(* One call on one input.                                                   *)

MxInit == Init
MxCallAdd == \E a \in Operands, b \in Operands, n \in 1 .. MaxWide, it \in IntTypes, op \in Optimized, at \in {Addition, Subtraction} :
    /\ Asks([fn |-> at, a |-> a, b |-> b, n |-> n, it |-> it])
    /\ out' = AddTo(a, b, n, it, at, op)
\* x += y: the output is the first operand.
MxCallInPlace == \E a \in Operands, b \in Operands, it \in IntTypes, op \in Optimized, at \in {Addition, Subtraction} :
    /\ Asks([fn |-> at, a |-> a, b |-> b, n |-> Len(a), it |-> it, own |-> TRUE])
    /\ out' = Into(a, TRUE, a, b, it, at, op)
Terms == [1 .. 3 -> Operands] \cup [1 .. 1 -> Operands] \cup [1 .. 4 -> Vec(2)] \cup [1 .. 6 -> Vec(1)]
MxCallSum == \E xs \in Terms, n \in {2, MaxWide}, it \in IntTypes, op \in Optimized :
    /\ Asks([fn |-> "sum", xs |-> xs, n |-> n, it |-> it])
    /\ out' = ParallelSummation(xs, n, op, it)
MxCallMult == \E a \in Operands, b \in Operands, n \in 1 .. MaxWide, it \in IntTypes, op \in Optimized :
    /\ Asks([fn |-> "mult", a |-> a, b |-> b, n |-> n, it |-> it])
    /\ out' = Multiply(a, b, n, op, it)
MxCallDiv == \E a \in Operands, b \in Operands, r \in 0 .. MaxBits + 1, it \in IntTypes, op \in Optimized :
    /\ Asks([fn |-> "div", a |-> a, b |-> b, it |-> it, r |-> r])
    /\ out' = DivideRemainder(a, b, r, op, it)
MxCallCompare == \E a \in Operands, b \in Operands, it \in IntTypes :
    /\ Asks([fn |-> "compare", a |-> a, b |-> b, it |-> it])
    /\ out' = <<Lt(a, b, it), Gt(a, b, it), LtEq(a, b, it), GtEq(a, b, it)>>
MxCallEqual == \E n \in 1 .. MaxWide : \E a \in Vec(n), b \in Vec(n) :
    /\ Asks([fn |-> "equal", a |-> a, b |-> b])
    /\ out' = <<Equal(a, b), NotEqual(a, b), Not(a)>> \o Bitwise2(a, b)
MxCallSign == \E a \in Operands, s \in Bit, op \in Optimized :
    /\ Asks([fn |-> "sign", a |-> a, s |-> s])
    /\ out' = <<Minus(a, op), WithoutSign(a, op), WithSign(s, a, op)>>
MxCallShift == \E a \in Operands, it \in IntTypes : \E v \in 0 .. Len(a) :
    /\ Asks([fn |-> "shift", a |-> a, v |-> v, it |-> it])
    /\ out' = <<ShiftRight(a, v, it), ShiftLeft(a, v)>>
MxCallCast == \E a \in Operands, n \in 1 .. MaxWide, from \in IntTypes, to \in IntTypes, v \in -5 .. 5 :
    /\ Asks([fn |-> "cast", a |-> a, n |-> n, from |-> from, to |-> to, v |-> v])
    /\ out' = <<Cast(a, n, from, to), FromValue(v, n)>>

MxNext ==
    /\ call = NoCall
    /\ \/ MxCallAdd \/ MxCallInPlace \/ MxCallSum \/ MxCallMult \/ MxCallDiv \/ MxCallCompare
       \/ MxCallEqual \/ MxCallSign \/ MxCallShift \/ MxCallCast
MxSpec == MxInit /\ [][MxNext]_vars

----------------------------------------------------------------------------
\* Sums of two or many integers, also where the output is an operand, are
\* exact modulo the output width, whatever the widths of the terms.
MxSumsExact ==
    /\ AddersAgree
    /\ call.fn = "sum" => UnsignedOf(out) = FoldLeft(LAMBDA s, x : s + ValueOf(x, call.it), 0, call.xs) % (2 ^ call.n)

\* Products, signs, quotients and remainders are those of integers that wrap.
MxProductsExact ==
    /\ MultExact /\ SignExact
    /\ (call.fn = "div" /\ ValueOf(call.b, call.it) # 0) =>
          LET va == ValueOf(call.a, call.it)   vb == ValueOf(call.b, call.it)
              Abs(v) == IF v < 0 THEN 0 - v ELSE v
              q == (IF (va < 0) = (vb < 0) THEN 1 ELSE -1) * (Abs(va) \div Abs(vb))
          IN  /\ UnsignedOf(out.quot) = q % (2 ^ Len(call.a))
              /\ UnsignedOf(out.rem) = (va - (q * vb)) % (2 ^ call.r)

\* Comparisons decide the order of the values, equality of every width is
\* exact, a shift multiplies or divides, a cast keeps the value.
Truth(p) == IF p THEN 1 ELSE 0
MxComparesExact ==
    /\ call.fn = "compare" =>
          LET va == ValueOf(call.a, call.it)   vb == ValueOf(call.b, call.it)
          IN  out = <<Truth(va < vb), Truth(va > vb), Truth(va <= vb), Truth(va >= vb)>>
    /\ call.fn = "equal" =>
          /\ SubSeq(out, 1, 3) = <<Truth(call.a = call.b), Truth(call.a # call.b), Truth(UnsignedOf(call.a) = 0)>>
          /\ UnsignedOf(out[4]) + UnsignedOf(out[5]) = UnsignedOf(call.a) + UnsignedOf(call.b)
          /\ UnsignedOf(out[6]) = UnsignedOf(out[5]) - UnsignedOf(out[4])
          /\ UnsignedOf(out[7]) + UnsignedOf(call.a) = (2 ^ Len(call.a)) - 1
    /\ call.fn = "shift" =>
          /\ ValueOf(out[1], call.it) = ValueOf(call.a, call.it) \div (2 ^ call.v)
          /\ UnsignedOf(out[2]) = (UnsignedOf(call.a) * (2 ^ call.v)) % (2 ^ Len(call.a))
    /\ call.fn = "cast" =>
          /\ UnsignedOf(out[1]) = (IF call.to = Signed THEN ValueOf(call.a, call.from) ELSE UnsignedOf(call.a)) % (2 ^ call.n)
          /\ UnsignedOf(out[2]) = call.v % (2 ^ call.n)
============================================================================
