---------------------------- MODULE BetaCircuit ----------------------------
(***************************************************************************)
(* Boolean circuits of cryptoTools (Circuit/BetaCircuit.cpp).  A circuit   *)
(* is a list of gates over numbered wires and one flag per wire.  The      *)
(* flag carries what the builder already knows: a constant, a value, or    *)
(* the inverse of a value, so addGate folds constants away and absorbs     *)
(* inverted inputs in the gate type.  levelByAndDepth sorts the gates by   *)
(* AND depth and renames the wires so that they can be reused;             *)
(* writeBristol and readBristol translate to the Bristol text format and   *)
(* back.                                                                   *)
(*                                                                         *)
(* The model builds every circuit of MaxCalls builder calls.  Next to it   *)
(* runs the meaning of the calls: for every wire the function of the       *)
(* inputs that the caller asked for ("want").  What evaluate computes from *)
(* the gates and the flags is compared with that meaning.                  *)
(***************************************************************************)
EXTENDS Integers, Sequences, FiniteSets, SequencesExt

CONSTANTS NumIn,      \* number of input wires: 0 .. NumIn - 1
          NumOut,     \* number of output wires, right after the inputs
          NumTemp,    \* number of temporary wires, after the outputs
          Types,      \* gate types the builder may ask for
          MaxCalls    \* bound on the number of builder calls

CircuitSizes == /\ NumIn \in Nat \ {0} /\ NumOut \in Nat \ {0}
                       /\ NumTemp \in Nat /\ MaxCalls \in Nat

\* Gate types are truth tables: bit a + 2b of the number is the value.
Zero == 0   nb == 3   na == 5   Xor2 == 6   And2 == 8   Nxor == 9
CopyA == 10   WireB == 12   One == 15

TableBit(t, i) == (t \div (2 ^ i)) % 2
GateEval(t, a, b) == TableBit(t, a + (2 * b))
Linear(t) == t \in {Zero, nb, na, Xor2, Nxor, CopyA, WireB, One}

\* The table with its first, or its second, argument inverted.
InvertFirst(t) == (2 * TableBit(t, 0)) + TableBit(t, 1) + (8 * TableBit(t, 2)) + (4 * TableBit(t, 3))
InvertSecondShift(t) == ((2 * t) % 16) + (t \div 8)
InvertSecondWide(t) == (4 * t) + (t \div 4)
InvertSecond(t) == (4 * (t % 4)) + (t \div 4)
InvertInput(pos, t) == IF pos = 0 THEN InvertFirst(t) ELSE InvertSecond(t)

InWires == 0 .. NumIn - 1
OutWires == NumIn .. NumIn + NumOut - 1
Wires == 0 .. NumIn + NumOut + NumTemp - 1
Assignments == [InWires -> {0, 1}]
ZeroFlag == "Zero"   OneFlag == "One"   Plain == "Wire"   Inv == "InvWire"   Uninit == "Uninitialized"
Flags == {ZeroFlag, OneFlag, Plain, Inv, Uninit}

VARIABLES flags,      \* mWireFlags
          gates,      \* mGates
          nonlinear,  \* mNonlinearGateCount
          levels,     \* mLevelCounts
          want,       \* wire -> function of the inputs the calls denote
          calls,      \* number of builder calls made
          phase       \* "build", then "levelled", "bristol" or "crash"

vars == <<flags, gates, nonlinear, levels, want, calls, phase>>

Gate(a, b, t, o) == [in |-> <<a, b>>, type |-> t, out |-> o]
IsConst(f) == f \in {ZeroFlag, OneFlag}
ConstFlag(v) == IF v = 1 THEN OneFlag ELSE ZeroFlag
ConstVal(f) == IF f = OneFlag THEN 1 ELSE 0
InvertFlag(f) == CASE f = ZeroFlag -> OneFlag [] f = OneFlag -> ZeroFlag
                   [] f = Plain -> Inv [] f = Inv -> Plain

----------------------------------------------------------------------------
(* The builder: a circuit is the record [flags, gates, nonlinear].          *)

AddConst(c, w, v) == [c EXCEPT !.flags[w] = ConstFlag(v)]
AddInvert(c, w) == [c EXCEPT !.flags[w] = InvertFlag(@)]
\* The second input of a copy gate is the number of wires copied.
AddCopy(c, s, d) == [c EXCEPT !.gates = Append(@, Gate(s, 1, CopyA, d)), !.flags[d] = c.flags[s]]
AddInvertTo(c, s, d) == AddInvert(AddCopy(c, s, d), d)

\* What is left of a gate when one of its inputs is the constant v.
SubGate(t, constIsB, v) ==
    IF constIsB THEN (t \div (4 ^ v)) % 4
    ELSE TableBit(t, v) + (2 * TableBit(t, v + 2))

AddFolded(c, a, b, t, o) ==
    LET fa == c.flags[a]   fb == c.flags[b]
        rest == IF IsConst(fb) THEN a ELSE b
        sub == IF IsConst(fb) THEN SubGate(t, TRUE, ConstVal(fb)) ELSE SubGate(t, FALSE, ConstVal(fa))
    IN  CASE IsConst(fa) /\ IsConst(fb) -> AddConst(c, o, GateEval(t, ConstVal(fa), ConstVal(fb)))
          [] sub = 0 -> AddConst(c, o, 0)
          [] sub = 1 -> AddInvert(AddCopy(c, rest, o), o)
          [] sub = 2 -> AddCopy(c, rest, o)
          [] sub = 3 -> AddConst(c, o, 1)

AddGate(c, a, b, t, o) ==
    IF IsConst(c.flags[a]) \/ IsConst(c.flags[b]) THEN AddFolded(c, a, b, t, o)
    ELSE LET ta == IF c.flags[a] = Inv THEN InvertInput(0, t) ELSE t
             tb == IF c.flags[b] = Inv THEN InvertInput(1, ta) ELSE ta
         IN  [flags |-> [c.flags EXCEPT ![o] = Plain],
              gates |-> Append(c.gates, Gate(a, b, tb, o)),
              nonlinear |-> c.nonlinear + (IF tb \in {Xor2, Nxor} THEN 0 ELSE 1)]

----------------------------------------------------------------------------
(* evaluate: runs the gates over one byte per wire; with levels it also     *)
(* refuses to read, within a level, what an AND of that level has written.  *)

CopyRange(mem, src, len, dst) ==
    [w \in DOMAIN mem |-> IF w \in dst .. dst + len - 1 THEN mem[src + (w - dst)] ELSE mem[w]]

\* m: [mem, stale, rem (gates left in the level), lvl (levels begun), ok].
EvalGate(gs, lv, m, i) ==
    LET g == gs[i]
        err == g.type # CopyA /\ (g.in[1] \in m.stale \/ g.in[2] \in m.stale)
        ends == m.rem = 1 /\ i # Len(gs)
        mem == IF g.type = CopyA THEN CopyRange(m.mem, g.in[1], g.in[2], g.out)
               ELSE [m.mem EXCEPT ![g.out] = GateEval(g.type, m.mem[g.in[1]], m.mem[g.in[2]])]
        stale == IF lv # <<>> /\ ~Linear(g.type) THEN m.stale \cup {g.out} ELSE m.stale
    IN  IF err \/ ~m.ok THEN [m EXCEPT !.ok = FALSE]
        ELSE [mem |-> mem, ok |-> TRUE,
              stale |-> IF ends THEN {} ELSE stale,
              rem |-> IF ends THEN lv[m.lvl + 1] ELSE m.rem - 1,
              lvl |-> IF ends THEN m.lvl + 1 ELSE m.lvl]

Mem(ws, gs, lv, x) ==
    LET m0 == [mem |-> [w \in ws |-> IF w \in InWires THEN x[w] ELSE 0], ok |-> TRUE, stale |-> {},
               rem |-> IF lv = <<>> THEN -1 ELSE lv[1], lvl |-> 1]
    IN  FoldLeftDomain(LAMBDA m, i : EvalGate(gs, lv, m, i), m0, gs)

ReadWire(fl, mem, w) == CASE IsConst(fl[w]) -> ConstVal(fl[w]) [] fl[w] = Inv -> 1 - mem[w] [] OTHER -> mem[w]

----------------------------------------------------------------------------
(* levelByAndDepth.  Nodes are the inputs (-NumIn .. -1) and the gates.      *)

NoNode == -1000
InNode(w) == w - NumIn
\* The node that last wrote wire w before gate i.
Owner(gs, i, w) ==
    LET js == {j \in 1 .. i - 1 : gs[j].out = w}
    IN  IF js # {} THEN CHOOSE j \in js : \A k \in js : k <= j
        ELSE IF w \in InWires THEN InNode(w) ELSE NoNode

NullInputNoInputs(gs) == \E i \in 1 .. Len(gs), k \in {1, 2} : ~\E j \in 1 .. i - 1 : gs[j].out = gs[i].in[k]
NullInput(gs) == \E i \in 1 .. Len(gs), k \in {1, 2} : Owner(gs, i, gs[i].in[k]) = NoNode
SameInput(gs) == \E i \in 1 .. Len(gs) : gs[i].in[1] = gs[i].in[2] /\ gs[i].type # CopyA

Depths(gs) ==
    LET After(d, n) == IF n < 0 THEN 0 ELSE IF Linear(gs[n].type) THEN d[n] ELSE d[n] + 1
        MaxOf(a, b) == IF a > b THEN a ELSE b
    IN  FoldLeftDomain(LAMBDA d, i : Append(d, MaxOf(After(d, Owner(gs, i, gs[i].in[1])),
                                                     After(d, Owner(gs, i, gs[i].in[2])))), <<>>, gs)

DepthOrder(gs, d) == SetToSortSeq(1 .. Len(gs), LAMBDA i, j : d[i] < d[j] \/ (d[i] = d[j] /\ i < j))
LevelCounts(gs, d) ==
    LET top == CHOOSE m \in {d[i] : i \in 1 .. Len(gs)} : \A i \in 1 .. Len(gs) : d[i] <= m
    IN  [l \in 1 .. top + 1 |-> Cardinality({i \in 1 .. Len(gs) : d[i] = l - 1})]

\* The nodes whose wire may not change: inputs and the last writer of each output.
FixedInputs(gs) == {InNode(w) : w \in InWires}
Fixed(gs) == {Owner(gs, Len(gs) + 1, w) : w \in OutWires} \cup {InNode(w) : w \in InWires}
Uses(gs, n) == Cardinality({<<i, k>> \in (1 .. Len(gs)) \X {1, 2} : Owner(gs, i, gs[i].in[k]) = n})

\* getInWire: the wire of the node that input k reads, freed with its last use.
TakeInputEarly(gs, s, i, k) ==
    LET n == Owner(gs, i, gs[i].in[k])
    IN  [s EXCEPT !.left[n] = @ - 1, !.freed = IF n \notin Fixed(gs) THEN Append(@, s.wire[n]) ELSE @,
                  !.ins = Append(@, s.wire[n])]

TakeInput(gs, s, i, k) ==
    LET n == Owner(gs, i, gs[i].in[k])
        last == s.left[n] = 1 /\ n \notin Fixed(gs)
    IN  [s EXCEPT !.left[n] = @ - 1, !.freed = IF last THEN Append(@, s.wire[n]) ELSE @,
                  !.ins = Append(@, s.wire[n])]

\* getOutWire: the fixed wire, a free one, or a new one.
GiveOutput(gs, s, i) ==
    LET w == CASE i \in Fixed(gs) -> gs[i].out
               [] s.free # <<>> -> s.free[Len(s.free)]
               [] OTHER -> s.next
    IN  [s EXCEPT !.wire[i] = w,
                  !.free = IF i \notin Fixed(gs) /\ @ # <<>> THEN Front(@) ELSE @,
                  !.next = IF i \notin Fixed(gs) /\ s.free = <<>> THEN @ + 1 ELSE @,
                  !.out = Append(@, Gate(s.ins[1], s.ins[2], gs[i].type, w)), !.ins = <<>>]

\* Wires read for the last time are free from the next level on.
NextLevel(s, ends) == IF ends THEN [s EXCEPT !.free = s.freed \o @, !.freed = <<>>] ELSE s

Renamed(gs) ==
    LET d == Depths(gs)
        ord == DepthOrder(gs, d)
        nodes == ((-NumIn) .. -1) \cup (1 .. Len(gs))
        s0 == [wire |-> [n \in nodes |-> IF n < 0 THEN n + NumIn ELSE -1],
               left |-> [n \in nodes |-> Uses(gs, n)],
               free |-> <<>>, freed |-> <<>>, ins |-> <<>>, out |-> <<>>, next |-> NumIn + NumOut]
        Step(s, p) == LET i == ord[p]
                          ends == p = Len(ord) \/ d[ord[p + 1]] # d[i]
                      IN  NextLevel(GiveOutput(gs, TakeInput(gs, TakeInput(gs, s, i, 1), i, 2), i), ends)
    IN  FoldLeftDomain(Step, s0, ord)

\* levelByAndDepth(NoReorder / SingleNoReorder): level counts for the gates as they stand.
CountsInPlace(gs, single) ==
    LET Step(s, g) == IF ~Linear(g.type) \/ single THEN <<Append(s[1], s[2] + 1), 0>> ELSE <<s[1], s[2] + 1>>
        r == FoldLeft(Step, <<<<>>, 0>>, gs)
    IN  IF r[2] # 0 THEN Append(r[1], r[2]) ELSE r[1]

----------------------------------------------------------------------------
(* writeBristol and readBristol.  A Bristol gate is [kind, ins, out].       *)

BristolTypes == {And2, Xor2, na, Nxor, CopyA}
Line(kind, ins) == [kind |-> kind, ins |-> ins]

\* The lines for gate g; an entry of ins is a node number.
\* s: [nodes: sequence of lines, owner: wire -> node]; nodes below NumIn are the inputs.
WriteGate(s, g) ==
    LET a == s.owner[g.in[1]]   n == NumIn + Len(s.nodes)
        Emit(ls) == [nodes |-> s.nodes \o ls, owner |-> [s.owner EXCEPT ![g.out] = n + Len(ls) - 1]]
    IN  CASE g.type = And2 -> Emit(<<Line("AND", <<a, s.owner[g.in[2]]>>)>>)
          [] g.type = Xor2 -> Emit(<<Line("XOR", <<a, s.owner[g.in[2]]>>)>>)
          [] g.type = na -> Emit(<<Line("INV", <<a>>)>>)
          [] g.type = Nxor -> Emit(<<Line("XOR", <<a, s.owner[g.in[2]]>>), Line("INV", <<n>>)>>)
          [] g.type = CopyA -> Emit(<<Line("INV", <<a>>), Line("INV", <<n>>)>>)

WriteInvertedNever(fl, s, w) == s
WriteInverted(fl, s, w) ==
    IF fl[w] # Inv THEN s
    ELSE [nodes |-> Append(s.nodes, Line("INV", <<s.owner[w]>>)),
          owner |-> [s.owner EXCEPT ![w] = NumIn + Len(s.nodes)]]

Written(fl, gs) ==
    LET s1 == FoldLeft(WriteGate, [nodes |-> <<>>, owner |-> [w \in Wires |-> w]], gs)
        s2 == FoldLeft(LAMBDA s, w : WriteInverted(fl, s, w), s1, [j \in 1 .. NumOut |-> NumIn + j - 1])
        total == NumIn + Len(s2.nodes)
        outs == {s2.owner[w] : w \in OutWires}
        Index(n) == CASE n < NumIn -> n
                      [] n \in outs -> (total - NumOut) + ((CHOOSE w \in OutWires : s2.owner[w] = n) - NumIn)
                      [] OTHER -> NumIn + Cardinality({m \in NumIn .. n - 1 : m \notin outs})
    IN  [total |-> total,
         lines |-> [j \in DOMAIN s2.nodes |->
                       [kind |-> s2.nodes[j].kind, out |-> Index(NumIn + j - 1),
                        ins |-> [k \in DOMAIN s2.nodes[j].ins |-> Index(s2.nodes[j].ins[k])]]]]

\* The reader keeps the outputs right after the inputs.
Translate(total, n) == CASE n < NumIn -> n
                         [] n >= total - NumOut -> n - (total - NumIn - NumOut)
                         [] OTHER -> n + NumOut

ReadBristol(b) ==
    LET c0 == [flags |-> [w \in 0 .. b.total - 1 |-> IF w \in InWires THEN Plain ELSE Uninit],
               gates |-> <<>>, nonlinear |-> 0]
        Tr(n) == Translate(b.total, n)
        Step(c, l) == CASE l.kind = "INV" /\ l.ins[1] = l.out -> AddInvert(c, Tr(l.out))
                        [] l.kind = "INV" /\ l.ins[1] # l.out -> AddInvertTo(c, Tr(l.ins[1]), Tr(l.out))
                        [] l.kind = "AND" -> AddGate(c, Tr(l.ins[1]), Tr(l.ins[2]), And2, Tr(l.out))
                        [] l.kind = "XOR" -> AddGate(c, Tr(l.ins[1]), Tr(l.ins[2]), Xor2, Tr(l.out))
    IN  FoldLeft(Step, c0, b.lines)

----------------------------------------------------------------------------
(* The calls.                                                               *)

Circuit == [flags |-> flags, gates |-> gates, nonlinear |-> nonlinear]
Becomes(c) == flags' = c.flags /\ gates' = c.gates /\ nonlinear' = c.nonlinear

Init == /\ flags = [w \in Wires |-> IF w \in InWires THEN Plain ELSE Uninit]
        /\ gates = <<>> /\ nonlinear = 0 /\ levels = <<>> /\ calls = 0 /\ phase = "build"
        /\ want = [w \in Wires |-> [x \in Assignments |-> IF w \in InWires THEN x[w] ELSE 0]]

Building == phase = "build" /\ calls < MaxCalls /\ calls' = calls + 1 /\ UNCHANGED <<levels, phase>>
Ready == {w \in Wires : flags[w] # Uninit}
Targets == Wires \ InWires

CallGate == /\ Building
            /\ \E a \in Ready, b \in Ready, t \in Types, o \in Targets :
                  /\ Becomes(AddGate(Circuit, a, b, t, o))
                  /\ want' = [want EXCEPT ![o] = [x \in Assignments |-> GateEval(t, want[a][x], want[b][x])]]
CallConst == /\ Building
             /\ \E w \in Targets, v \in {0, 1} :
                   /\ Becomes(AddConst(Circuit, w, v))
                   /\ want' = [want EXCEPT ![w] = [x \in Assignments |-> v]]
CallInvert == /\ Building
              /\ \E w \in Ready \ InWires :
                    /\ Becomes(AddInvert(Circuit, w))
                    /\ want' = [want EXCEPT ![w] = [x \in Assignments |-> 1 - @[x]]]
CallCopy == /\ Building
            /\ \E s \in Ready, d \in Targets :
                  /\ s # d
                  /\ Becomes(AddCopy(Circuit, s, d))
                  /\ want' = [want EXCEPT ![d] = want[s]]

\* levelByAndDepth: nothing to order without AND gates; a gate with the same
\* wire twice is refused, an input that no gate has written is a null pointer.
Levelize ==
    /\ phase = "build" /\ calls > 0 /\ UNCHANGED <<nonlinear, want, calls>>
    /\ \/ /\ nonlinear = 0 /\ phase' = "levelled" /\ levels' = <<Len(gates)>> /\ UNCHANGED <<flags, gates>>
       \/ /\ nonlinear # 0 /\ (SameInput(gates) \/ NullInput(gates))
          /\ phase' = "crash" /\ UNCHANGED <<flags, gates, levels>>
       \/ /\ nonlinear # 0 /\ ~SameInput(gates) /\ ~NullInput(gates)
          /\ LET r == Renamed(gates)
             IN  /\ gates' = r.out
                 /\ flags' = [w \in 0 .. r.next - 1 |-> IF w \in Wires THEN flags[w] ELSE Plain]
          /\ levels' = LevelCounts(gates, Depths(gates)) /\ phase' = "levelled"

LevelizeInPlace ==
    /\ phase = "build" /\ calls > 0 /\ UNCHANGED <<flags, gates, nonlinear, want, calls>>
    /\ \E single \in BOOLEAN : levels' = levels \o CountsInPlace(gates, single)
    /\ phase' = "levelled"

\* A circuit written out and read back.  Only these gate types are supported,
\* and every output must have been written by a gate.
Bristol ==
    /\ phase = "build" /\ gates # <<>> /\ UNCHANGED <<levels, want, calls>>
    /\ \A i \in 1 .. Len(gates) : gates[i].type \in BristolTypes
    /\ ~NullInput(gates) /\ \A w \in OutWires : ~IsConst(flags[w]) /\ Owner(gates, Len(gates) + 1, w) # NoNode
    /\ Becomes(ReadBristol(Written(flags, gates)))
    /\ phase' = "bristol"

Next == CallGate \/ CallConst \/ CallInvert \/ CallCopy \/ Levelize \/ LevelizeInPlace \/ Bristol
Spec == Init /\ [][Next]_vars

----------------------------------------------------------------------------
\* The flags and the gates stay within their ranges.
TypeOK == /\ \A w \in DOMAIN flags : flags[w] \in Flags
          /\ \A i \in DOMAIN gates : gates[i].type \in 0 .. 15 /\ gates[i].out \in DOMAIN flags
          /\ phase \in {"build", "levelled", "bristol", "crash"} /\ calls \in 0 .. MaxCalls

Value(x, w) == ReadWire(flags, Mem(DOMAIN flags, gates, levels, x).mem, w)

\* While a circuit is built, every wire already carries the function the calls
\* denote: constant folding, inverted inputs absorbed in the gate type and
\* copies of inverted wires lose nothing.
BuilderMeans == phase = "build" =>
    \A x \in Assignments : \A w \in Ready : Value(x, w) = want[w][x]

\* After levelByAndDepth, with or without reordering, evaluate accepts the
\* circuit (no gate reads within a level what an AND of that level wrote) and
\* every output still carries the function the calls denote, though its gates
\* were moved and the temporary wires reused.
LevelsKeepOutputs == phase = "levelled" =>
    \A x \in Assignments :
        /\ Mem(DOMAIN flags, gates, levels, x).ok
        /\ \A w \in OutWires : flags[w] # Uninit => Value(x, w) = want[w][x]

\* A circuit written in Bristol format and read back computes the same outputs.
BristolRoundTrip == phase = "bristol" =>
    \A x \in Assignments : \A w \in OutWires : Value(x, w) = want[w][x]

\* Reordering dereferences a null pointer or refuses a circuit only for one of
\* three reasons: a gate has one wire as both inputs, a copy reads a wire that
\* only holds a constant, or wire 1, which a copy names as its length, has no writer.
CrashReason == phase = "crash" =>
    \/ SameInput(gates)
    \/ \E i \in 1 .. Len(gates) : gates[i].type = CopyA /\ \E k \in {1, 2} : Owner(gates, i, gates[i].in[k]) = NoNode
============================================================================
