------------------------------ MODULE MCCircuits ------------------------------
(* Boolean circuits on small instances: the builder with every operation, a   *)
(* longer circuit of gates only (so that renamed wires are reused across      *)
(* several levels), and the arithmetic of the library; and the bit matrices:  *)
(* transposition, elimination, sparse forms and codes.  "part" says which of  *)
(* them a behaviour is about and never changes; the others stay idle.         *)
EXTENDS Integers, Sequences

VARIABLES part, flags, gates, nonlinear, levels, want, calls, phase, call, out,
    fn, arg, res, mat, sub, blk, step, dyn, ones, count, cir, bits, asked, made, beta

circuitVars == <<flags, gates, nonlinear, levels, want, calls, phase>>
libraryVars == <<call, out>>
matrixVars == <<fn, arg, res, mat, sub, blk, step, dyn, ones, count>>
mxVars == <<cir, bits, asked, made, beta>>

Build == INSTANCE BetaCircuit WITH
    NumIn <- 2, NumOut <- 1, NumTemp <- 1, Types <- {8, 9}, MaxCalls <- 3
Reuse == INSTANCE BetaCircuit WITH
    NumIn <- 2, NumOut <- 1, NumTemp <- 2, Types <- {8}, MaxCalls <- 4
\* Circuits of expressions: three calls of the common kinds, two calls of every
\* kind over two inputs; and the arithmetic on them.
MxBuild == INSTANCE MxCircuit WITH Bundles <- <<2>>, MaxCalls <- 3, Ops <- {6, 8},
    Extras <- {"not", "print", "output"}, GateBits <- 10, OffsetBits <- 3, MinBlock <- 3
MxFold == INSTANCE MxCircuit WITH Bundles <- <<1, 1>>, MaxCalls <- 2, Ops <- {6, 8, 14},
    Extras <- {"not", "select", "print", "text", "output"}, GateBits <- 10, OffsetBits <- 3, MinBlock <- 3
Library == INSTANCE BetaLibrary WITH MaxBits <- 3, MaxWide <- 5

\* Squares at their real size, rectangles around every left-over, short words.
Squares == INSTANCE Transpose WITH
    Blocks <- 2, Square <- 16, Half <- 2, Bits <- 16, Numbers <- 0 .. 120,
    Rects <- [rows : {3, 8, 13, 17, 24, 25}, stride : {1, 9}, outRows : {5, 13, 64, 72}, outStride : {2, 3, 5}]
\* Matrices up to three by three and two by four, codes of every block count
\* that has a branch of its own, and one of the size of bch511.
Linear == INSTANCE Gf2Linear WITH
    Shapes <- {<<2, 3>>, <<3, 3>>, <<2, 4>>}, Factors <- {<<2, 2, 3>>, <<3, 1, 2>>},
    DynSize <- 3, DynCalls <- 4, Choose <- 6, Bytes <- {0, 165},
    Codes <- [blocks : {1, 2, 3, 5, 9}, bits : {5, 11}] \cup {[blocks |-> 4, bits |-> 76]}

CircuitIdle == flags = 0 /\ gates = 0 /\ nonlinear = 0 /\ levels = 0 /\ want = 0 /\ calls = 0
               /\ phase = 0 /\ call = 0 /\ out = 0
MatrixIdle == fn = 0 /\ arg = 0 /\ res = 0 /\ mat = 0 /\ sub = 0 /\ blk = 0 /\ step = 0
              /\ dyn = 0 /\ ones = 0 /\ count = 0
SquaresIdle == mat = 0 /\ sub = 0 /\ blk = 0 /\ step = 0
LinearIdle == dyn = 0 /\ ones = 0 /\ count = 0

MxIdle == cir = 0 /\ bits = 0 /\ asked = 0 /\ made = 0 /\ beta = 0
BetaIdle == flags = 0 /\ gates = 0 /\ nonlinear = 0 /\ levels = 0 /\ want = 0 /\ calls = 0 /\ phase = 0

Init ==
    \/ part = "build" /\ Build!Init /\ Library!Init /\ MatrixIdle /\ MxIdle
    \/ part = "reuse" /\ Reuse!Init /\ Library!Init /\ MatrixIdle /\ MxIdle
    \/ part = "library" /\ Library!Init /\ Build!Init /\ MatrixIdle /\ MxIdle
    \/ part = "squares" /\ Squares!Init /\ LinearIdle /\ CircuitIdle /\ MxIdle
    \/ part = "linear" /\ Linear!Init /\ SquaresIdle /\ CircuitIdle /\ MxIdle
    \/ part = "mxbuild" /\ MxBuild!MxInit /\ CircuitIdle /\ MatrixIdle
    \/ part = "mxfold" /\ MxFold!MxInit /\ CircuitIdle /\ MatrixIdle
    \/ part = "mxlibrary" /\ Library!MxInit /\ BetaIdle /\ MatrixIdle /\ MxIdle

Next ==
    \/ part = "build" /\ Build!Next /\ UNCHANGED <<part, libraryVars, matrixVars, mxVars>>
    \/ /\ part = "reuse" /\ UNCHANGED <<part, libraryVars, matrixVars, mxVars>>
       /\ Reuse!CallGate \/ Reuse!CallInvert \/ Reuse!Levelize
    \/ part = "library" /\ Library!Next /\ UNCHANGED <<part, circuitVars, matrixVars, mxVars>>
    \/ part = "squares" /\ Squares!Next /\ UNCHANGED <<part, circuitVars, libraryVars, dyn, ones, count, mxVars>>
    \/ part = "linear" /\ Linear!Next /\ UNCHANGED <<part, circuitVars, libraryVars, mat, sub, blk, step, mxVars>>
    \/ part = "mxbuild" /\ MxBuild!MxNext /\ UNCHANGED <<part, circuitVars, libraryVars, matrixVars>>
    \/ part = "mxfold" /\ MxFold!MxNext /\ UNCHANGED <<part, circuitVars, libraryVars, matrixVars>>
    \/ part = "mxlibrary" /\ Library!MxNext /\ UNCHANGED <<part, circuitVars, matrixVars, mxVars>>

Spec == Init /\ [][Next]_<<part, circuitVars, libraryVars, matrixVars, mxVars>>

\* A gate on one wire twice is refused, and the order of the inputs does not
\* matter for these types, so the longer circuits have ordered inputs, and the
\* others from their second gate on.
OrderedInputs ==
    part \in {"build", "reuse"} /\ phase = "build" =>
        \A i \in DOMAIN gates \ (IF part = "build" THEN {1} ELSE {}) :
            gates[i].in[1] < gates[i].in[2]

-------------------------------------------------------------------------------
\* Flags, gate types and output widths stay within their ranges.
TypeOK ==
    /\ part = "build" => Build!TypeOK
    /\ part = "library" => Library!TypeOK

\* While a circuit is built, every wire carries the function the calls denote.
BuilderMeans == part = "build" => Build!BuilderMeans

\* After levelByAndDepth every output still carries the function the calls
\* denote, though its gates were moved and the temporary wires reused; a circuit
\* of expressions is converted to as many levels as its AND depth and keeps its
\* outputs and prints.
LevelsKeepOutputs ==
    /\ part = "build" => Build!LevelsKeepOutputs
    /\ part = "reuse" => Reuse!LevelsKeepOutputs
    /\ part = "mxbuild" => MxBuild!ConvertedMeans /\ MxBuild!LevelsAreDepths
    /\ part = "mxfold" => MxFold!ConvertedMeans /\ MxFold!LevelsAreDepths

\* A circuit written in Bristol format and read back computes the same outputs.
BristolRoundTrip == part = "build" => Build!BristolRoundTrip

\* Reordering refuses or crashes only for one of three reasons.
CrashReason == part = "build" => Build!CrashReason

\* Both adders compute the sum and the difference modulo the output width.
AddersAgree == part = "library" => Library!AddersAgree

\* A single bit of a sum is right.
BitExact == part = "library" => Library!BitExact

\* The comparison is exact, where the difference overflows too.
CompareExact == part = "library" => Library!CompareExact

\* The product is exact modulo the output width.
MultExact == part = "library" => Library!MultExact

\* Negation, absolute value and conditional negation.
SignExact == part = "library" => Library!SignExact

\* The quotient truncates towards zero in every division circuit that is built.
DivExact == part = "library" => Library!DivExact
-------------------------------------------------------------------------------
\* What the calls denote is what the wires carry and what a file gives back;
\* an expression evaluates to what it denotes, prints in order.
BuiltRight ==
    /\ TypeOK /\ BuilderMeans /\ BristolRoundTrip /\ CrashReason
    /\ part = "mxbuild" => MxBuild!ExpressionsMean /\ MxBuild!ArenaDisjoint
    /\ part = "mxfold" => MxFold!ExpressionsMean /\ MxFold!ArenaDisjoint


\* Products, signs and quotients.
ProductsExact ==
    /\ MultExact /\ SignExact /\ DivExact
    /\ part = "mxlibrary" => Library!MxProductsExact

\* Every transposition puts each bit where it belongs and writes nothing else;
\* elimination, inverses, generators and codewords are what linear algebra
\* says; the rows and columns of a sparse matrix edited in place always agree.
LinearRight ==
    /\ part = "squares" => Squares!ToolsRight
    /\ part = "linear" => Linear!LinearRight
===============================================================================
