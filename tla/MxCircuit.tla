------------------------------ MODULE MxCircuit ------------------------------
(***************************************************************************)
(* Circuits written as expressions (cryptoTools Circuit/MxCircuit.h, .cpp  *)
(* and MxBit.h, .cpp).  A Bit is a constant or the address of a gate's     *)
(* output; an operator on Bits folds constants away or appends a gate to   *)
(* the circuit.  evaluate walks the gates in the order they were appended; *)
(* asBetaCircuit walks them with two stacks, linear gates first, and writes *)
(* a levelled BetaCircuit in which no gate of a level reads what an AND of  *)
(* the same level writes.  Prints are gates without outputs, chained so     *)
(* that they stay in order.                                                 *)
(*                                                                         *)
(* Next to every Bit the model keeps the function of the inputs its        *)
(* expression denotes ("means").                                           *)
(***************************************************************************)
EXTENDS Integers, Sequences, FiniteSets, SequencesExt

CONSTANTS Bundles,    \* widths of the inputs, in the order they are asked for
          MaxCalls,   \* bound on the operators, prints and outputs called
          Ops,        \* binary operators used: subset of {Xor, And, Or}
          Extras,     \* other calls used: subset of {"not", "select", "print", "text", "output"}
          GateBits,   \* bits of an address for the gate (40 in the code)
          OffsetBits, \* bits of an address for the offset (24 in the code)
          MinBlock    \* least block of the arena (64 in the code)

NumIn == FoldLeft(LAMBDA s, n : s + n, 0, Bundles)
MxSizes == /\ \A i \in DOMAIN Bundles : Bundles[i] \in 1 .. 2 ^ (OffsetBits - 1)
           /\ MaxCalls \in Nat /\ MinBlock \in Nat \ {0}
           /\ MaxCalls * 3 + Len(Bundles) < 2 ^ GateBits

Beta == INSTANCE BetaCircuit WITH NumOut <- 1, NumTemp <- 0, Types <- {}, MaxCalls <- 0,
            flags <- 0, gates <- 0, nonlinear <- 0, levels <- 0, want <- 0, calls <- 0, phase <- 0
Xor == Beta!Xor2
And == Beta!And2
Or == 14
InputType == 16
OutputType == 17
PrintType == 18
Assignments == [0 .. NumIn - 1 -> {0, 1}]

----------------------------------------------------------------------------
(* Addresses: the gate in the low bits, the signed offset above.            *)

Address(g, o) == g + ((o % (2 ^ OffsetBits)) * (2 ^ GateBits))
GateOf(a) == a % (2 ^ GateBits)
OffsetOf(a) == LET o == a \div (2 ^ GateBits)
               IN  IF o >= 2 ^ (OffsetBits - 1) THEN o - (2 ^ OffsetBits) ELSE o
\* The last input of a print but the first: the print before it.
PrintOrder(g) == Address(g, -1)
IsPrintOrder(a) == OffsetOf(a) = -1

----------------------------------------------------------------------------
(* The arena that holds the input lists of the gates.                       *)

EmptyArena == [blocks |-> <<>>, free |-> <<>>, total |-> 0, spans |-> <<>>]
MaxOf(S) == CHOOSE m \in S : \A n \in S : n <= m
Reserve(ar, n) == [ar EXCEPT !.blocks = Append(@, [begin |-> 0, end |-> n]),
                             !.free = Append(@, Len(ar.blocks) + 1), !.total = @ + n]
\* The last free block with room for n; a block filled to its end leaves the list.
Room(ar, n) == {i \in DOMAIN ar.free : ar.blocks[ar.free[i]].begin + n <= ar.blocks[ar.free[i]].end}
TakeFrom(ar, n, i) ==
    LET b == ar.free[i]   blk == ar.blocks[b]
    IN  [ar EXCEPT !.blocks[b].begin = @ + n,
                   !.free = IF blk.begin + n = blk.end THEN RemoveAt(@, i) ELSE @,
                   !.spans = Append(@, [block |-> b, at |-> blk.begin, size |-> n])]
Allocate(ar, n) ==
    LET ar2 == IF Room(ar, n) # {} THEN ar ELSE Reserve(ar, MaxOf({MinBlock, ar.total, n}))
    IN  TakeFrom(ar2, n, MaxOf(Room(ar2, n)))

----------------------------------------------------------------------------
(* Bits and the circuit c: [gates, inputs, outputs, prev (last print), arena]. *)

Const(v) == [const |-> TRUE, val |-> v]
Wire(a) == [const |-> FALSE, addr |-> a]
EmptyCircuit == [gates |-> <<>>, inputs |-> <<>>, outputs |-> <<>>, prev |-> 0, arena |-> EmptyArena]
Push(c, g) == [c EXCEPT !.gates = Append(@, g), !.arena = Allocate(@, Len(g.in))]
Next1(c) == Len(c.gates) + 1

Input(c, n) == [c EXCEPT !.inputs = Append(@, Next1(c)),
                         !.gates = Append(@, [type |-> InputType, in |-> <<>>, nout |-> n, idx |-> Len(c.inputs) + 1])]
NewGate(c, t, in) == [c |-> Push(c, [type |-> t, in |-> in, nout |-> 1]), bit |-> Wire(Address(Next1(c), 0))]
Negate(c, a) == IF a.const THEN [c |-> c, bit |-> Const(1 - a.val)] ELSE NewGate(c, Beta!na, <<a.addr>>)

\* One input is the constant v, the other the wire w.
FoldConst(c, t, v, w) ==
    CASE t = Xor -> IF v = 1 THEN Negate(c, w) ELSE [c |-> c, bit |-> w]
      [] t = And -> [c |-> c, bit |-> IF v = 1 THEN w ELSE Const(0)]
      [] t = Or -> [c |-> c, bit |-> IF v = 1 THEN Const(1) ELSE w]
AddGate(c, t, a, b) ==
    CASE a.const /\ b.const -> [c |-> c, bit |-> Const(Beta!GateEval(t, a.val, b.val))]
      [] a.const /\ ~b.const -> FoldConst(c, t, a.val, b)
      [] ~a.const /\ b.const -> FoldConst(c, t, b.val, a)
      [] OTHER -> NewGate(c, t, <<a.addr, b.addr>>)
\* f ^ ((f ^ t) & s)
Select(c, s, t, f) == LET d == AddGate(c, Xor, f, t)   e == AddGate(d.c, And, d.bit, s)
                      IN  AddGate(e.c, Xor, f, e.bit)

Wires(elems) == SelectSeq(elems, LAMBDA b : ~b.const)
AddrSeq(elems) == [i \in DOMAIN Wires(elems) |-> Wires(elems)[i].addr]
\* What is printed: the elements, the constants among them kept aside.
AddPrint(c, elems) ==
    LET in == AddrSeq(elems) \o (IF c.prev # 0 THEN <<PrintOrder(c.prev)>> ELSE <<>>)
    IN  [Push(c, [type |-> PrintType, in |-> in, nout |-> 0, elems |-> elems]) EXCEPT !.prev = Next1(c)]
Output(c, elems) ==
    [Push(c, [type |-> OutputType, in |-> AddrSeq(elems), nout |-> 0, idx |-> Len(c.outputs) + 1, elems |-> elems])
        EXCEPT !.outputs = Append(@, Next1(c))]

\* The elements with the values vs of the wires among them put in their places.
Refill(elems, vs) ==
    FoldLeft(LAMBDA s, e : IF e.const THEN [out |-> Append(s.out, e.val), k |-> s.k]
                           ELSE [out |-> Append(s.out, vs[s.k + 1]), k |-> s.k + 1],
             [out |-> <<>>, k |-> 0], elems).out

----------------------------------------------------------------------------
(* Circuit::evaluate.  s: [vals (per gate its outputs), out, shown].        *)

EvalStep(c, x, s, g) ==
    LET V(a) == s.vals[GateOf(a)][OffsetOf(a) + 1]
        base(i) == FoldLeft(LAMBDA t, n : t + n, 0, SubSeq(Bundles, 1, i - 1))
        data == IF g.in # <<>> /\ IsPrintOrder(Last(g.in)) THEN Front(g.in) ELSE g.in
        Vals(as) == [i \in DOMAIN as |-> V(as[i])]
        Gives(v) == [s EXCEPT !.vals = Append(@, v)]
    IN  CASE g.type = InputType -> Gives([j \in 1 .. g.nout |-> x[base(g.idx) + j - 1]])
          [] g.type = OutputType -> [Gives(<<>>) EXCEPT !.out = Append(@, Refill(g.elems, Vals(g.in)))]
          [] g.type = PrintType -> [Gives(<<>>) EXCEPT !.shown = Append(@, Refill(g.elems, Vals(data)))]
          [] g.type = Beta!na -> Gives(<<1 - V(g.in[1])>>)
          [] OTHER -> Gives(<<Beta!GateEval(g.type, V(g.in[1]), V(g.in[2]))>>)
Evaluate(c, x) == FoldLeft(LAMBDA s, g : EvalStep(c, x, s, g), [vals |-> <<>>, out |-> <<>>, shown |-> <<>>], c.gates)

----------------------------------------------------------------------------
(* Circuit::asBetaCircuit.                                                  *)

IsLinear(g) == IF g.type = PrintType THEN g.in = <<>> ELSE g.type \notin {InputType, OutputType} /\ Beta!Linear(g.type)

\* computeChildEdges: for every gate its consumers, once per input they take.
ChildEdges(c) ==
    FoldLeftDomain(LAMBDA r, i : FoldLeft(LAMBDA r2, a : [r2 EXCEPT ![GateOf(a)] = Append(@, i)], r, c.gates[i].in),
                   [i \in DOMAIN c.gates |-> <<>>], c.gates)

\* A temporary wire of the BetaCircuit: the next number, not yet written.
AddTemp(s, g) == [s EXCEPT !.wire[g] = s.next, !.next = @ + 1,
                           !.c.flags = @ @@ (s.next :> Beta!Uninit)]
WireOf(s, a) == s.wire[GateOf(a)] + OffsetOf(a)
Raise(ns, l) == [ns EXCEPT ![l] = @ + 1]
CountGate(s, c2, linear) ==
    [s EXCEPT !.c = c2, !.counts = Raise(@, Len(@)), !.ands = IF linear THEN @ ELSE Raise(@, Len(@))]

\* The gate g itself; no input may come from an AND of this level (dirty).
EmitGate(c, s, i) ==
    LET g == c.gates[i]   Src(k) == WireOf(s, g.in[k])   dst == s.wire[i]
        data == IF g.in # <<>> /\ IsPrintOrder(Last(g.in)) THEN Front(g.in) ELSE g.in
    IN  IF \E k \in DOMAIN g.in : GateOf(g.in[k]) \in s.dirty THEN [s EXCEPT !.ok = FALSE]
        ELSE CASE g.type = InputType -> s
               [] g.type = OutputType -> [s EXCEPT !.ok = @ /\ \A k \in DOMAIN g.in : s.wire[GateOf(g.in[k])] # -1]
               [] g.type = PrintType ->
                    LET ws == [k \in DOMAIN data |-> WireOf(s, data[k])]
                    IN  [s EXCEPT !.prints = Append(@, [at |-> Len(s.c.gates), gate |-> i, wires |-> ws,
                                                        flags |-> [k \in DOMAIN ws |-> s.c.flags[ws[k]]]])]
               [] g.type = Beta!na -> CountGate(s, Beta!AddInvertTo(s.c, Src(1), dst), TRUE)
               [] OTHER -> [CountGate(s, Beta!AddGate(s.c, Src(1), Src(2), g.type, dst), Beta!Linear(g.type))
                                EXCEPT !.dirty = IF Beta!Linear(g.type) THEN @ ELSE @ \cup {i}]

\* A child whose last input this was goes on one of the two stacks.
NotifyChild(c, s, k) ==
    LET t == [s EXCEPT !.dep[k] = @ - 1, !.ok = @ /\ s.dep[k] # 0]
    IN  IF t.dep[k] # 0 THEN t
        ELSE IF IsLinear(c.gates[k]) THEN [t EXCEPT !.lin = Append(@, k)] ELSE [t EXCEPT !.later = Append(@, k)]

EvalNode(c, kids, s, i) ==
    LET mapped == IF s.wire[i] = -1 /\ c.gates[i].nout > 0 THEN AddTemp(s, i) ELSE s
    IN  FoldLeft(LAMBDA t, k : NotifyChild(c, t, k), EmitGate(c, mapped, i), kids[i])

NewLevel(s) == [s EXCEPT !.dirty = {}, !.counts = Append(@, 0), !.ands = Append(@, 0), !.mode = "linear"]
\* One turn of the loops: empty the linear stack, then the non-linear gates
\* that were ready by then; what became ready meanwhile waits for a new level.
Turn(c, kids, s) ==
    CASE s.mode = "linear" /\ s.lin # <<>> -> EvalNode(c, kids, [s EXCEPT !.lin = Front(@)], Last(s.lin))
      [] s.mode = "linear" /\ s.lin = <<>> -> [s EXCEPT !.mode = "nonlinear", !.non = s.later, !.later = <<>>]
      [] s.mode = "nonlinear" /\ s.non # <<>> -> EvalNode(c, kids, [s EXCEPT !.non = Front(@)], Last(s.non))
      [] s.mode = "nonlinear" /\ s.non = <<>> ->
            IF s.lin # <<>> \/ s.later # <<>> THEN NewLevel(s) ELSE [s EXCEPT !.mode = "done"]
      [] OTHER -> s

\* Input wires first, then output wires, one after the other.
OutWidth(c, o) == Len(c.gates[c.outputs[o]].elems)
OutBase(c, o) == FoldLeft(LAMBDA t, p : t + OutWidth(c, p), NumIn, [p \in 1 .. o - 1 |-> p])
Start(c) ==
    LET outs == Len(c.outputs)
        wires == NumIn + (IF outs = 0 THEN 0 ELSE OutBase(c, outs) + OutWidth(c, outs) - NumIn)
        InBase(i) == FoldLeft(LAMBDA t, n : t + n, 0, SubSeq(Bundles, 1, i - 1))
        ready == SelectSeq([i \in DOMAIN c.gates |-> i], LAMBDA i : c.gates[i].in = <<>>)
    IN  [lin |-> ready, non |-> <<>>, later |-> <<>>, dep |-> [i \in DOMAIN c.gates |-> Len(c.gates[i].in)],
         wire |-> [i \in DOMAIN c.gates |-> IF c.gates[i].type = InputType THEN InBase(c.gates[i].idx) ELSE -1],
         c |-> [flags |-> [w \in 0 .. wires - 1 |-> IF w < NumIn THEN Beta!Plain ELSE Beta!Uninit],
                gates |-> <<>>, nonlinear |-> 0],
         counts |-> <<>>, ands |-> <<>>, dirty |-> {}, next |-> wires, prints |-> <<>>, ok |-> TRUE, mode |-> "nonlinear"]

\* Every output wire is a constant or a copy, after the last AND's level.
CopyOutputs(c, s) ==
    LET s0 == IF s.ands = <<>> \/ Last(s.ands) # 0 THEN NewLevel(s) ELSE s
        One(t, e, w) == IF e.const THEN [t EXCEPT !.c = Beta!AddConst(t.c, w, e.val)]
                           ELSE CountGate(t, Beta!AddCopy(t.c, WireOf(t, e.addr), w), TRUE)
        Bundle(t, o) == LET es == c.gates[c.outputs[o]].elems
                        IN  FoldLeftDomain(LAMBDA u, j : One(u, es[j], OutBase(c, o) + j - 1), t, es)
    IN  FoldLeftDomain(Bundle, s0, c.outputs)

AsBetaCircuit(c) ==
    LET kids == ChildEdges(c)
        s == FoldLeft(LAMBDA t, n : Turn(c, kids, t), Start(c), [n \in 1 .. 3 * Len(c.gates) + 4 |-> n])
        r == CopyOutputs(c, s)
    IN  [r EXCEPT !.ok = @ /\ s.mode = "done" /\ \A i \in DOMAIN c.gates : r.dep[i] = 0]

\* BetaCircuit::evaluate on the result: outputs, prints, and whether no level
\* read what one of its own ANDs wrote.
BetaRun(c, b, x) ==
    LET ws == DOMAIN b.c.flags
        m == Beta!Mem(ws, b.c.gates, b.counts, x)
        Shown(p) == LET mem == Beta!Mem(ws, SubSeq(b.c.gates, 1, p.at), <<>>, x).mem
                    IN  Refill(c.gates[p.gate].elems, [k \in DOMAIN p.wires |->
                                IF p.flags[k] = Beta!Inv THEN 1 - mem[p.wires[k]] ELSE mem[p.wires[k]]])
    IN  [ok |-> m.ok, shown |-> [k \in DOMAIN b.prints |-> Shown(b.prints[k])],
         out |-> [o \in DOMAIN c.outputs |-> [j \in 1 .. OutWidth(c, o) |->
                      Beta!ReadWire(b.c.flags, m.mem, OutBase(c, o) + j - 1)]]]

----------------------------------------------------------------------------
(* The calls of a program that writes a circuit.                            *)

VARIABLES cir,     \* the circuit
          bits,    \* the Bits in hand: [bit, means]
          asked,   \* what is output and printed: sequences of meanings
          made,    \* number of calls
          beta     \* the BetaCircuit, once converted

mxVars == <<cir, bits, asked, made, beta>>
None == [none |-> TRUE]

\* The inputs are asked for first; both constants are at hand.
InputCircuit == FoldLeft(Input, EmptyCircuit, Bundles)
InputBits ==
    LET At(i) == FoldLeft(LAMBDA t, n : t + n, 0, SubSeq(Bundles, 1, i - 1))
        Of(i) == [j \in 1 .. Bundles[i] |-> [bit |-> Wire(Address(i, j - 1)), means |-> [x \in Assignments |-> x[At(i) + j - 1]]]]
    IN  FlattenSeq([i \in DOMAIN Bundles |-> Of(i)])
MxInit == /\ cir = InputCircuit /\ made = 0 /\ beta = None /\ asked = [out |-> <<>>, shown |-> <<>>]
          /\ bits = InputBits \o [v \in 1 .. 2 |-> [bit |-> Const(v - 1), means |-> [x \in Assignments |-> v - 1]]]

Calls == beta = None /\ made < MaxCalls /\ made' = made + 1 /\ UNCHANGED beta
Gives(r, f) == /\ cir' = r.c /\ bits' = Append(bits, [bit |-> r.bit, means |-> f]) /\ UNCHANGED asked

CallOp == /\ Calls
          /\ \E t \in Ops, i \in DOMAIN bits, j \in DOMAIN bits :
                /\ i <= j
                /\ Gives(AddGate(cir, t, bits[i].bit, bits[j].bit),
                         [x \in Assignments |-> Beta!GateEval(t, bits[i].means[x], bits[j].means[x])])
CallNot == /\ Calls /\ "not" \in Extras
           /\ \E i \in DOMAIN bits : Gives(Negate(cir, bits[i].bit), [x \in Assignments |-> 1 - bits[i].means[x]])
CallSelect ==
    /\ Calls /\ "select" \in Extras
    /\ \E s \in DOMAIN bits, t \in DOMAIN bits, f \in DOMAIN bits :
          /\ t # f
          /\ Gives(Select(cir, bits[s].bit, bits[t].bit, bits[f].bit),
                   [x \in Assignments |-> IF bits[s].means[x] = 1 THEN bits[t].means[x] ELSE bits[f].means[x]])

Elems(s) == [k \in DOMAIN s |-> bits[s[k]].bit]
Meanings(s) == [k \in DOMAIN s |-> bits[s[k]].means]
\* The newest Bit between a constant and an input.
Chosen == {<<3, Len(bits), 1>>, <<Len(bits)>>}
CallPrint == /\ Calls /\ "print" \in Extras /\ UNCHANGED bits
             /\ \E s \in Chosen : cir' = AddPrint(cir, Elems(s)) /\ asked' = [asked EXCEPT !.shown = Append(@, Meanings(s))]
CallText == /\ Calls /\ "text" \in Extras /\ UNCHANGED bits
            /\ cir' = AddPrint(cir, <<>>) /\ asked' = [asked EXCEPT !.shown = Append(@, <<>>)]
Outputs(s) == cir' = Output(cir, Elems(s)) /\ asked' = [asked EXCEPT !.out = Append(@, Meanings(s))]
CallOutput == /\ Calls /\ "output" \in Extras /\ UNCHANGED bits
              /\ Outputs(<<Len(bits)>>)
\* At the end all Bits in hand are output and the circuit is converted.
CallLast == /\ beta = None /\ made = MaxCalls /\ made' = made + 1 /\ UNCHANGED <<bits, beta>>
            /\ Outputs([i \in DOMAIN bits |-> i])
Convert == /\ beta = None /\ made = MaxCalls + 1 /\ beta' = AsBetaCircuit(cir) /\ UNCHANGED <<cir, bits, asked, made>>

MxNext == CallOp \/ CallNot \/ CallSelect \/ CallPrint \/ CallText \/ CallOutput \/ CallLast \/ Convert
Spec == MxInit /\ [][MxNext]_mxVars

----------------------------------------------------------------------------
At(f, x) == [k \in DOMAIN f |-> f[k][x]]
Expected(x) == [out |-> [o \in DOMAIN asked.out |-> At(asked.out[o], x)],
                shown |-> [p \in DOMAIN asked.shown |-> At(asked.shown[p], x)]]

\* evaluate outputs and prints what the expressions denote, in the order of the
\* calls, whatever constants were folded away.
ExpressionsMean == made = MaxCalls + 1 =>
    \A x \in Assignments : LET r == Evaluate(cir, x)
                           IN  [out |-> r.out, shown |-> r.shown] = Expected(x)

\* asBetaCircuit handles every gate once and throws nowhere, and the circuit it
\* writes has the same outputs and prints, in order, under the level check.
ConvertedMeans == beta # None =>
    /\ beta.ok
    /\ \A x \in Assignments : BetaRun(cir, beta, x) = [ok |-> TRUE, out |-> Expected(x).out, shown |-> Expected(x).shown]

\* AND depth of the gates: the number of ANDs before and including it.
Depth == FoldLeft(LAMBDA d, g : Append(d, MaxOf({0} \cup {d[GateOf(g.in[k])] : k \in DOMAIN g.in})
                                         + (IF g.type \in {And, Or} THEN 1 ELSE 0)), <<>>, cir.gates)
\* Every AND is written at its depth: the conversion loses no round.
LevelsAreDepths == beta # None =>
    \A l \in DOMAIN beta.ands :
        beta.ands[l] = Cardinality({i \in DOMAIN cir.gates : cir.gates[i].type \in {And, Or} /\ Depth[i] = l})

\* Input lists of gates never overlap and lie within their blocks.
ArenaDisjoint ==
    LET Cells(s) == {<<s.block, k>> : k \in s.at .. s.at + s.size - 1}
        sp == cir.arena.spans
    IN  /\ \A i \in DOMAIN sp : sp[i].at + sp[i].size <= cir.arena.blocks[sp[i].block].end
        /\ \A i, j \in DOMAIN sp : i < j => Cells(sp[i]) \cap Cells(sp[j]) = {}
============================================================================
