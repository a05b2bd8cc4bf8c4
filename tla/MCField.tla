-------------------------------- MODULE MCField --------------------------------
(* The arithmetic under the protocol on small instances.  A behaviour is one   *)
(* session of the small-set VOLE, one accumulator of fe25519 taken through its *)
(* operations, one exponentiation, one square root or one QuickSilver proof:   *)
(* "part" says which and never changes.  What the part does not use keeps its  *)
(* first value.                                                                *)
EXTENDS SmallSetVole, ZKP, SequencesExt

VARIABLES part,
          r, val, load, form,               \* FeRegister
          fn, modulus, reg, acc, pc, sq,    \* PowChains
          prime, x, parity, result          \* FieldRoots
registerVars == <<r, val, load, form>>
chainVars == <<fn, modulus, reg, acc, pc, sq>>
rootVars == <<prime, x, parity, result>>

suiteVars == <<part, vars, registerVars, chainVars, rootVars, zkVars>>

\* Operands around the interesting edges: zero, one, a lowest limb above P's, a
\* row of limbs pack takes for P or more (limb 1 below P's), P - 1, and P itself,
\* which is reduced modulo 2^255 without being canonical.  P is 8^3 * 4 - 3.
EdgeOperands == {0, 1, 7, 2037, 2044, 2045}

Register == INSTANCE FeRegister WITH
    LIMBS <- 4, RADIX <- 8, TOP <- 4, C <- 3, WORD <- 131072,
    MaxLoad <- 3, MulBudget <- 9, Operands <- EdgeOperands
Chains == INSTANCE PowChains WITH
    Moduli <- {32569, 32573, 32579, 32587, 32603, 32609, 32611, 32621, 32633,
               32647, 32653, 32687, 32693, 32707, 32713, 32717, 32719, 32749},
    Functions <- {"eps", "D", "Y", "invert", "legendre", "legendre_s",
                  "issquare", "quarter", "sqrt1", "sqrt2"},
    m <- modulus, t <- acc
Roots == INSTANCE FieldRoots WITH
    Primes <- {5, 13, 29, 37, 53, 61, 101}, p <- prime

\* The heaviest row, and a row whose leaves all differ.
MCRows == { [i \in Leaf |-> LeafMax],
            [i \in Leaf |-> (3 * i + 1) % (LeafMax + 1)] }

VoleIdle ==
    /\ leaves = [k \in Tree |-> [i \in Leaf |-> 0]]
    /\ points = [k \in Tree |-> 0] /\ junk = [k \in Tree |-> 0]
    /\ stask = 0 /\ rtask = 0
    /\ su = Empty /\ sv = Empty /\ ru = Empty /\ rv = Empty
    /\ sAt = [k \in Tree |-> N] /\ rAt = [k \in Tree |-> N]
RegisterIdle == r = <<>> /\ val = 0 /\ load = 0 /\ form = ""
ChainsIdle == fn = "" /\ modulus = 0 /\ reg = <<>> /\ acc = 0 /\ pc = 0 /\ sq = 0
RootsIdle == prime = 0 /\ x = 0 /\ parity = 0 /\ result = [done |-> FALSE]

\* The proof: Prime = 31, whose EPS-th powers are {0, 1, 2, 4, 8, 16}, one challenged
\* symbol, two correlations of four points each.  The witness is the one OPRF.h
\* computes, with a = (v_0 ... v_9)^Y for Y = 1.
Product(s) == FoldSeq(Times, 1, s)
PowR(a, n) == LET pw[i \in 0 .. n] == IF i = 0 THEN 1 ELSE Times(a, pw[i - 1]) IN pw[n]
InvR(a) == PowR(a, 29)
Offs == [i \in 0 .. (LEval + 1) |-> (3 * i * i + 5 * i + 2) % 31]
Stmt(k, e, b, g) ==
  LET v == [i \in 0 .. (LEval - 1) |-> PowR(2, (e * i + (i \div 3)) % 5)]
      prod(S) == Product([n \in 1 .. 5 |-> v[S + n - 1]])
      a == Times(prod(0), prod(5))
      y[i \in 0 .. 8] == IF i = 0 THEN a ELSE PowR(y[i - 1], 5)
      a0 == Product(<<y[8], y[8], y[4], y[1], y[1]>>)
      a1 == Product(<<y[1], a0, InvR(Product(<<a, a, y[3]>>))>>)
      gamma == [i \in 0 .. LEval |-> (g + 7 * i) % 31]
  IN  [w |-> [j \in 0 .. (mask_pos - 1) |->
                CASE j = 0 -> k
                  [] j \in v_offset .. (v_offset + LEval - 1) -> v[j - v_offset]
                  [] j = b_offset -> b
                  [] j = ru_pos -> 17 [] j = rv_pos -> 9
                  [] j \in y_offset .. (y_offset + 8) -> y[j - y_offset]
                  [] j = a0_pos -> a0 [] j = a1_pos -> a1
                  [] j = c0_pos -> prod(0) [] OTHER -> prod(5)],
       gamma |-> gamma,
       mm |-> [i \in {0} |-> Times(b, (k + Offs[LEval + 1]) % 31)],
       cu |-> (17 + Total([i \in 0 .. (LEval - 1) |-> gamma[i] * Times((k + Offs[i]) % 31, v[i])], LEval - 1)) % 31,
       cv |-> (9 + Total([i \in 0 .. (LEval - 1) |-> gamma[i] * v[i]], LEval - 1)) % 31,
       offsets |-> Offs, c |-> [i \in {0} |-> 1]]
HonestStatements == {Stmt(6, 1, 8, 3), Stmt(21, 3, 16, 0)}
UPatterns == {[ij \in I \X Pos |-> (5 * ij[1] + 3 * ij[2] * ij[2] + 1) % 31]}
VPatterns == {[ij \in I \X Pos |-> (11 * ij[1] * ij[2] + 2 * ij[2] + 7) % 31]}
AllPoints == [I -> {0, 3}]
MaskDraws == {[i \in 0 .. 4 |-> (4 * i + 9) % 31]}
CheckGammaDraws == {[j \in 0 .. (vole_len - 2) |-> (j * j + 2) % 31], [j \in 0 .. (vole_len - 2) |-> j % 3]}
ScalarDraws == {[n \in 1 .. NumScalars |-> (n * n + 4 * n + 1) % 31], [n \in 1 .. NumScalars |-> n % 4]}
None == [msg |-> "none", at |-> 0, err |-> 0]
AllTampers ==
  {None} \cup [msg : {"derand"}, at : {<<0, 1>>, <<1, 0>>, <<1, check_pos>>}, err : {2}]
  \cup [msg : {"cu"}, at : {0, 1}, err : {5}] \cup [msg : {"cv"}, at : {0}, err : {1}]
  \cup [msg : {"witness"}, at : 0 .. (mask_pos - 1), err : {3}]
  \cup [msg : {"coef"}, at : 0 .. 4, err : {1}]

ProofIdle ==
    /\ stmt = 0 /\ ui = 0 /\ vi = 0 /\ hi = 0 /\ masks = 0 /\ tamper = None
    /\ ppc = "" /\ vpc = "" /\ p2v = 0 /\ v2p = 0 /\ commitment = 0 /\ oi = 0
    /\ key = 0 /\ Delta = 0 /\ checkGamma = 0 /\ scalars = 0 /\ good = 0 /\ valid = 0

SuiteInit ==
    \/ part = "vole" /\ Init /\ RegisterIdle /\ ChainsIdle /\ RootsIdle /\ ProofIdle
    \/ part = "register" /\ Register!Init /\ VoleIdle /\ ChainsIdle /\ RootsIdle /\ ProofIdle
    \/ part = "chains" /\ Chains!Init /\ VoleIdle /\ RegisterIdle /\ RootsIdle /\ ProofIdle
    \/ part = "roots" /\ Roots!Init /\ VoleIdle /\ RegisterIdle /\ ChainsIdle /\ ProofIdle
    \/ part = "proof" /\ ZkInit /\ VoleIdle /\ RegisterIdle /\ ChainsIdle /\ RootsIdle

SuiteNext ==
    \/ /\ part = "vole" /\ Next
       /\ UNCHANGED <<part, registerVars, chainVars, rootVars, zkVars>>
    \/ /\ part = "register" /\ Register!Next
       /\ UNCHANGED <<part, vars, chainVars, rootVars, zkVars>>
    \/ /\ part = "chains" /\ Chains!Next
       /\ UNCHANGED <<part, vars, registerVars, rootVars, zkVars>>
    \/ /\ part = "roots" /\ Roots!Next
       /\ UNCHANGED <<part, vars, registerVars, chainVars, zkVars>>
    \/ /\ part = "proof" /\ ZkNext
       /\ UNCHANGED <<part, vars, registerVars, chainVars, rootVars>>

SuiteSpec == SuiteInit /\ [][SuiteNext]_suiteVars

-------------------------------------------------------------------------------
\* fe25519: no lazy sum, difference or product loses its value to a limb that
\* wraps around.
ValueTracks == part = "register" => Register!TypeOK /\ Register!ValueTracks

\* fe25519: the zero test of the protocol's checks is exact in every lazy form,
\* and freeze leaves the one canonical row of limbs.
ZeroTestExact == part = "register" => Register!ZeroTestExact

\* fe25519: reduce_mul's two passes leave a product below 2P.
ProductNearlyReduced == part = "register" => Register!ProductNearlyReduced

\* fe25519: an element reduced modulo 2^255 keeps its value over the wire, unless
\* its limbs fall in pack's gap.
WireFaithful ==
    [][part = "register" /\ Register!Wire /\ Register!IsReduced(r) /\ ~ Register!PackGap(r)
         => val' = val]_suiteVars

\* Exponentiations: no product reads a power that was not computed before.
RegistersWritten == part = "chains" => Chains!RegistersWritten

\* Exponentiations: every chain computes the exponent it is named for.
ChainsExact == part = "chains" => Chains!ChainsExact

\* Square roots: issquare and sqrt_vartime are right for every element and parity.
SquareRootRight == part = "roots" => Roots!SquareRootRight

\* Legendre symbols: the certificate s proves the symbol.
CertificateRight == part = "roots" => Roots!CertificateRight
-------------------------------------------------------------------------------
\* An accumulator stands for its field element through lazy sums, products and
\* zero tests.
RegisterSound == ValueTracks /\ ZeroTestExact /\ ProductNearlyReduced

\* Exponentiations, square roots and certificates of Legendre symbols.
PowersRight == RegistersWritten /\ ChainsExact /\ SquareRootRight /\ CertificateRight
===============================================================================
