-------------------------------- MODULE LogVole --------------------------------
(***************************************************************************)
(* One run of the LogVole ring protocol, from the offline encodings to the  *)
(* vectors over Z_p: LogVoleLenc, LogVoleLhe, LogVoleShrinkExpand and        *)
(* LogVoleCore under the calls of LogVole.cpp.                              *)
(*                                                                          *)
(* The laconic encoding: the receiver hashes its vector x with a binary     *)
(* tree of lattice hashes; the sender encodes s along every path of that    *)
(* tree; the evaluation of the encoding on the tree gives r * digest -      *)
(* s * x, leaf by leaf, up to noise.  Three modes: "full" (every digit of   *)
(* every node, lencEnc), "trunc" (the lowest digit of an inner node is      *)
(* dropped, r is small) and "gadget" (truncated, and a leaf is one limb of  *)
(* a lifted digit: the recursive levels).  Leaves are numbered from 0.      *)
(*                                                                          *)
(* It works over polynomials of Z_q, q a product of small primes, kept as   *)
(* residues (RNS limbs, LogVoleRing.cpp).  The polynomial degree is one, so *)
(* a polynomial is one tuple of limbs and the number-theoretic transform is *)
(* the identity; what remains is what the protocol relies on: the residues, *)
(* the decomposition into gadget digits and the rescaling.                  *)
(*                                                                          *)
(* Level 1 is the caller's vector.  A level wider than one block hashes its  *)
(* blocks and hands the digits of the digests to the level below; the last  *)
(* level is the root, which the two sides run with a digest, a seed and a   *)
(* key.  Every level below the first uses one and the same encoding.        *)
(* The run is honest; what may go wrong is the noise, and the sender's      *)
(* search for a seed whose labels are all clear of a rounding boundary.     *)
(***************************************************************************)
EXTENDS Integers, Sequences

CONSTANTS Moduli,         \* the primes q_1, ..., q_rho
          LogBase,        \* gadgetLogBase: the digits are LogBase bits wide
          TauHi,          \* kept digits of an inner node; a value has TauHi + 1
          PlaintextBits   \* width of a message

CONSTANTS
    Alpha,       \* blocks are Alpha times as wide as a digest's digits
    P,           \* plaintext modulus
    NoiseBound,  \* what estimateNoiseBoundLog2 allows a label to miss by
    Randomizer,  \* width of the root randomizer
    MaxAttempts, \* seeds the sender tries
    Runs         \* [salt, delta, x]: the choices of all the randomness, the
                 \* sender's scalar and the receiver's vector

--------------------------------------------------------------------------------
(* The ring.                                                                  *)

Rho == Len(Moduli)
Limbs == 1 .. Rho
Base == 2 ^ LogBase

\* Product of the primes in J, in order.
ProductOf(J) ==
    LET p[j \in 0 .. Rho] ==
            IF j = 0 THEN 1 ELSE p[j - 1] * (IF j \in J THEN Moduli[j] ELSE 1)
    IN  p[Rho]

Q == ProductOf(Limbs)
Delta(j) == ProductOf(Limbs \ {j})   \* the CRT lift of limb j

Rns(v) == [j \in Limbs |-> v % Moduli[j]]
Zero == Rns(0)
Plus(a, b) == [j \in Limbs |-> (a[j] + b[j]) % Moduli[j]]
Negate(a) == [j \in Limbs |-> (-a[j]) % Moduli[j]]
Minus(a, b) == Plus(a, Negate(b))
Times(a, b) == [j \in Limbs |-> (a[j] * b[j]) % Moduli[j]]

Dot(as, bs) ==
    LET At(j) == LET sum[k \in 0 .. Len(as)] ==
                         IF k = 0 THEN 0 ELSE (sum[k - 1] + (as[k][j] * bs[k][j])) % Moduli[j]
                 IN  sum[Len(as)]
    IN  [j \in Limbs |-> At(j)]

--------------------------------------------------------------------------------
(* From the limbs to the integer they stand for, and to its centred           *)
(* representative in (-q/2, q/2].                                             *)

CrtLift == [j \in Limbs |-> Delta(j) % Moduli[j]]
InvCrtLift ==
    [j \in Limbs |-> CHOOSE y \in 0 .. Moduli[j] - 1 : (CrtLift[j] * y) % Moduli[j] = 1]

Compose(a) ==
    LET acc[j \in 0 .. Rho] ==
            IF j = 0 THEN 0
            ELSE (acc[j - 1] + ((a[j] * InvCrtLift[j]) % Moduli[j]) * Delta(j)) % Q
    IN  acc[Rho]

CenteredMod(v, m) == IF v > m \div 2 THEN v - m ELSE v
Centered(a) == CenteredMod(Compose(a), Q)

--------------------------------------------------------------------------------
(* Gadget digits.  An unsigned digit is a slice of bits of the canonical      *)
(* value.  A centred digit lies in [-B/2, B/2) and carries into the next one; *)
(* only the digits from the level "start" on are kept.                        *)

UnsignedDigits(a, start, count) ==
    [i \in 1 .. count |-> Rns((Compose(a) \div (Base ^ (start + i - 1))) % Base)]

CenteredDigit(v) == CenteredMod((v % Base) + 1, Base) - 1
Carry(v) == (v \div Base) + (IF v % Base >= Base \div 2 THEN 1 ELSE 0)

CenteredDigits(a, start, count) ==
    LET rest[k \in 0 .. start + count] ==
            IF k = 0 THEN Centered(a) ELSE Carry(rest[k - 1])
    IN  [i \in 1 .. count |-> Rns(CenteredDigit(rest[start + i - 1]))]

\* gadgetRecomposeBits: the digits weighted with the powers of the base.
Recompose(digits) ==
    Dot(digits, [i \in 1 .. Len(digits) |-> Rns(Base ^ (i - 1))])

\* A polynomial with the one limb j, the residue v.
OnlyLimb(v, j) == [k \in Limbs |-> IF k = j THEN v % Moduli[j] ELSE 0]

--------------------------------------------------------------------------------
(* The hash-derived polynomials.  A uniform one and a small one, named by a   *)
(* key and the seed ("salt") of the run; any function of the key will do.     *)

Uniform(salt, key) ==
    [j \in Limbs |-> ((key * 7919) + (salt * 613) + (j * 389) + ((key % 251) * (key % 241) * (j + salt))) % Moduli[j]]
Small(salt, key) == Rns((((key % 1009) * (key % 97) + (key \div 7) + (salt * 5)) % 3) - 1)

\* The centred digits of a value, all of them, stand for the value; the
\* truncated ones miss it by half a unit of the lowest kept digit.
DigitsStandFor(v, tau) ==
    /\ Recompose(CenteredDigits(Rns(v), 0, tau)) = Rns(v)
    /\ Recompose(UnsignedDigits(Rns(v), 0, tau)) = Rns(v)
    /\ LET hi == Recompose(<<Zero>> \o CenteredDigits(Rns(v), 1, tau - 1))
           miss == Centered(Minus(Rns(v), hi))
       IN  miss >= -(Base \div 2) /\ miss < Base \div 2

--------------------------------------------------------------------------------
(* The widths of the encoding.                                                *)

FullTau == TauHi + 1

Log2(w) == CHOOSE l \in 0 .. w : 2 ^ l >= w /\ \A k \in 0 .. l - 1 : 2 ^ k < w
PadWidth(n) == 2 ^ Log2(n)

\* The public matrix B, two halves of FullTau columns, numbered from 0.
PublicB(i) == Uniform(17, 5000 + i)

--------------------------------------------------------------------------------
(* Which columns of B and which digits a level of the tree uses.              *)

LeafTau(mode) ==
    CASE mode = "gadget" -> 1
      [] mode = "trunc"  -> (PlaintextBits + LogBase - 1) \div LogBase
      [] mode = "full"   -> FullTau

LevelTau(mode, leafLevel) ==
    IF leafLevel THEN LeafTau(mode) ELSE IF mode = "full" THEN FullTau ELSE TauHi

\* The weight of the first digit, as a power of the base.
PowerOffset(mode, leafLevel) == IF leafLevel \/ mode = "full" THEN 0 ELSE 1

PublicBInternalHi == [k \in 1 .. 2 * TauHi |->
    PublicB(IF k <= TauHi THEN k ELSE FullTau + k - TauHi)]

PublicBLeaf(tau) == [k \in 1 .. 2 * tau |-> PublicB(IF k <= tau THEN k - 1 ELSE FullTau + k - tau - 1)]

\* One limb of a polynomial, lifted so that it meets a single digit.
SelectAndScaleLimb(a, j) == OnlyLimb(a[j] * CrtLift[j], j)

LimbOf(leaf) == (leaf % Rho) + 1

\* The columns the pair of children below an inner node is hashed with.
LevelB(mode, leafLevel, pair) ==
    IF leafLevel /\ mode = "gadget"
    THEN <<SelectAndScaleLimb(PublicB(0), LimbOf(2 * pair)),
           SelectAndScaleLimb(PublicB(FullTau), LimbOf((2 * pair) + 1))>>
    ELSE IF leafLevel \/ mode = "full" THEN PublicBLeaf(LevelTau(mode, leafLevel))
    ELSE PublicBInternalHi

--------------------------------------------------------------------------------
(* The digest tree.                                                           *)

\* A lifted digit on limb j: undo the lift, centre it, and it is small.
RecursiveLeafDigit(x, j) ==
    <<Rns(CenteredMod((x[j] * InvCrtLift[j]) % Moduli[j], Moduli[j]))>>

LeafDigits(mode, x, leaf) ==
    IF mode = "gadget" THEN RecursiveLeafDigit(x, LimbOf(leaf))
    ELSE UnsignedDigits(x, 0, LeafTau(mode))

NodeDigits(mode, v) ==
    IF mode = "full" THEN UnsignedDigits(v, 0, FullTau) ELSE CenteredDigits(v, 1, TauHi)

\* The hash of two children.
NodeValue(mode, leafLevel, pair, left, right) ==
    Negate(Dot(LevelB(mode, leafLevel, pair), left \o right))

\* tree[d] is the row of nodes at depth d, each as its digits; the digest is
\* the value of the root.
BuildDigestTree(mode, xs, width) ==
    LET levels == Log2(width)
        leaves == [i \in 0 .. width - 1 |->
                     LeafDigits(mode, IF i < Len(xs) THEN xs[i + 1] ELSE Zero, i)]
        Value(below, d, i) ==
            NodeValue(mode, d = levels - 1, i, below[2 * i], below[(2 * i) + 1])
        row[d \in 1 .. levels] ==
            IF d = levels THEN leaves
            ELSE LET below == row[d + 1]
                 IN  [i \in 0 .. (2 ^ d) - 1 |-> NodeDigits(mode, Value(below, d, i))]
        rows == [d \in 1 .. levels |-> row[d]]
    IN  [rows |-> rows, digest |-> Value(rows[1], 0, 0)]

--------------------------------------------------------------------------------
(* The sender's encoding of s and the receiver's evaluation.                  *)

\* Bit of a leaf's path at a level, counted from the root.
PathBit(leaf, level, levels) == (leaf \div (2 ^ (levels - 1 - level))) % 2

\* The randomness of an encoding: one r per level and leaf.
LayerR(mode, salt, width, level, leaf) ==
    LET key == 100 + (level * width) + leaf
    IN  IF mode = "full" THEN Uniform(salt, key) ELSE Small(salt, key)

\* What the side of the path carries at digit t: r of the next level, or s.
Carried(mode, leafLevel, leaf, t, v) ==
    IF leafLevel /\ mode = "gadget" THEN SelectAndScaleLimb(v, LimbOf(leaf))
    ELSE Times(v, Rns(Base ^ (t + PowerOffset(mode, leafLevel))))

\* The row of one level and leaf: r * B, and on the side of the path the
\* next secret times the weights, under small noise.
EncRow(mode, salt, s, width, level, leaf) ==
    LET levels == Log2(width)
        leafLevel == level = levels - 1
        tau == LevelTau(mode, leafLevel)
        b == LevelB(mode, leafLevel, leaf \div 2)
        r == LayerR(mode, salt, width, level, leaf)
        next == IF leafLevel THEN IF leaf < Len(s) THEN s[leaf + 1] ELSE Zero
                ELSE LayerR(mode, salt, width, level + 1, leaf)
        OnPath(k) == ((k - 1) \div tau) = PathBit(leaf, level, levels)
        Noise(k) == Small(salt, 3000 + (((level * width) + leaf) * 16) + k)
    IN  [k \in 1 .. 2 * tau |->
            Plus(Plus(Times(r, b[k]), Noise(k)),
                 IF OnPath(k) THEN Carried(mode, leafLevel, leaf, (k - 1) % tau, next) ELSE Zero)]

Encode(mode, salt, s, width) ==
    [ct |-> [level \in 0 .. Log2(width) - 1 |->
               [leaf \in 0 .. width - 1 |-> EncRow(mode, salt, s, width, level, leaf)]],
     r  |-> [i \in 1 .. Len(s) |-> LayerR(mode, salt, width, 0, i - 1)]]

\* Down the path of a leaf: the row meets the digits of both children.
PathProduct(ct, rows, leaf) ==
    LET levels == Len(rows)
        Parent(level) == leaf \div (2 ^ (levels - level))
        Children(level) == rows[level + 1][2 * Parent(level)] \o rows[level + 1][(2 * Parent(level)) + 1]
        acc[level \in 0 .. levels] ==
            IF level = 0 THEN Zero
            ELSE Plus(acc[level - 1], Dot(ct[level - 1][leaf], Children(level - 1)))
    IN  acc[levels]

LencEvalTrunc(ct, tree, mu) == [i \in 1 .. mu |-> Negate(PathProduct(ct, tree.rows, i - 1))]

\* The relation the protocol takes from the encoding, in each of the modes:
\* leaf by leaf the evaluation is r * digest - s * x, up to noise that every
\* level multiplies with at most one row of digits.
EvaluationNear(mode, salt, s, x) ==
    LET width == PadWidth(Len(s))
        enc == Encode(mode, salt, s, width)
        tree == BuildDigestTree(mode, x, width)
        eval == LencEvalTrunc(enc.ct, tree, Len(s))
        Miss(i) == Centered(Plus(Minus(eval[i], Times(enc.r[i], tree.digest)), Times(s[i], x[i])))
        bound == Log2(width) * 2 * FullTau * Base
    IN  \A i \in 1 .. Len(s) : Miss(i) <= bound /\ -Miss(i) <= bound

--------------------------------------------------------------------------------
(* The run.                                                                   *)

VARIABLES
    stage,
    run,      \* the one of Runs this is
    sender,   \* the sender's offline state, later its keys and outputs
    receiver, \* the receiver's, with its trees and digests
    wire      \* the message in flight

ringVars == <<stage, run, sender, receiver, wire>>

Eager(s) == s \o <<>>
CeilDiv(a, b) == (a + b - 1) \div b

--------------------------------------------------------------------------------
(* The shape of the recursion.                                                *)

W == Len(run.x)
MuHi == Alpha * TauHi * Rho
LeftWidth == TauHi * Rho
IsRoot(w) == w <= Alpha * TauHi * Rho

WidthAt(level) ==
    LET w[l \in 1 .. level] == IF l = 1 THEN W ELSE CeilDiv(w[l - 1], MuHi) * TauHi * Rho
    IN  w[level]
Depth == CHOOSE d \in 1 .. W : IsRoot(WidthAt(d)) /\ \A l \in 1 .. d - 1 : ~IsRoot(WidthAt(l))
BlocksAt(level) == IF level = Depth THEN 1 ELSE CeilDiv(WidthAt(level), MuHi)

\* Seed instances of the levels below: the root takes number 0.
InstanceBase(level) ==
    LET n[l \in level .. Depth] == IF l = Depth THEN 1 ELSE n[l + 1] + BlocksAt(l)
    IN  IF level = Depth THEN 0 ELSE n[level + 1]
Instance(level, block) == InstanceBase(level) + block - 1

Mode(level) == IF level = 1 THEN "trunc" ELSE "gadget"
Material(level) == IF level = 1 THEN 1 ELSE 2

--------------------------------------------------------------------------------
(* Linear homomorphic encryption of the encoding's randomness.                *)

PublicA(row) == Uniform(19, row)
HiDigits(v) == CenteredDigits(v, 1, TauHi)

\* Mutant of LheEnc1Trunc: the dropped digit is not accounted for.
LheEnc1Unshifted(salt, r, sk1) ==
    [row \in 1 .. Len(r) |-> [col \in 1 .. TauHi |->
        Plus(Plus(Times(r[row], Rns(Base ^ (col - 1))), Times(PublicA(row), sk1[col])),
             Small(salt, 7000 + (row * 8) + col))]]

\* r in row i, shifted by the dropped digit, under every column key.
LheEnc1Trunc(salt, r, sk1) ==
    [row \in 1 .. Len(r) |-> [col \in 1 .. TauHi |->
        Plus(Plus(Times(r[row], Rns(Base ^ col)), Times(PublicA(row), sk1[col])),
             Small(salt, 7000 + (row * 8) + col))]]

LheApplyCt1Trunc(ct1, digest) ==
    LET u == Eager(HiDigits(digest)) IN [row \in 1 .. Len(ct1) |-> Dot(ct1[row], u)]

LheDec(cipher, sk) == [row \in 1 .. Len(cipher) |-> Minus(cipher[row], Times(PublicA(row), sk))]

DeriveSkxTrunc(sk1, digest, tbkPrime) == Plus(tbkPrime, Dot(sk1, HiDigits(digest)))

\* The mask both sides derive from the seed; the digest, the instance and
\* the width go into the hash.
HashedCt2(mu, seed, digest, instance) ==
    [row \in 1 .. mu |->
        Uniform(seed, 9000 + ((digest[1] % 100) * 1000) + (instance * 100) + ((mu % 6) * 8) + (mu % 16) + (row * 3))]

--------------------------------------------------------------------------------
(* Shrink and expand, one block.                                              *)

SenderOfflineMaterial(salt, mode, s, sk1) ==
    LET enc == Encode(mode, salt, s, PadWidth(Len(s)))
    IN  [sk1 |-> sk1, ct |-> enc.ct, ct1 |-> LheEnc1Trunc(salt, enc.r, sk1)]

Shrink(mode, xs) == BuildDigestTree(mode, xs, PadWidth(MuHi))

ExpandSender(seed, maskDigest, instance, key) ==
    LheDec(HashedCt2(MuHi, seed, maskDigest, instance), key)

ExpandReceiver(material, tree, seed, maskDigest, instance, skX) ==
    LET part == Eager(LheDec(LheApplyCt1Trunc(material.ct1, tree.digest), skX))
        eval == Eager(LencEvalTrunc(material.ct, tree, MuHi))
        ct2  == Eager(HashedCt2(MuHi, seed, maskDigest, instance))
    IN  [row \in 1 .. MuHi |-> Plus(Minus(part[row], eval[row]), ct2[row])]

--------------------------------------------------------------------------------
(* Labels: the digits of a digest go down lifted, one limb each; the labels   *)
(* that come back are rounded to that limb and added up.                      *)

HiAndUnbundle(digest) ==
    LET u == Eager(HiDigits(digest))
    IN  [k \in 1 .. LeftWidth |->
            LET j == ((k - 1) % Rho) + 1
            IN  OnlyLimb(u[((k - 1) \div Rho) + 1][j] * CrtLift[j], j)]

RoundToLimb(v, j) == ((Compose(v) + (Delta(j) \div 2)) \div Delta(j)) % Moduli[j]

DenoiseComb(labels) ==
    [g \in 1 .. Len(labels) \div Rho |->
        [j \in Limbs |-> RoundToLimb(labels[((g - 1) * Rho) + j], j)]]

\* TauHi consecutive values make one.
Agg(values) ==
    [i \in 1 .. Len(values) \div TauHi |->
        LET ones == [k \in 1 .. TauHi |-> Rns(1)]
        IN  Dot(ones, SubSeq(values, ((i - 1) * TauHi) + 1, i * TauHi))]

KeysOf(labels) == Agg(Eager(DenoiseComb(labels)))

\* The caller's delta in every row, or limb j of the keys of the level above.
RepSenderInput(s, gamma) ==
    IF gamma = 1 THEN [i \in 1 .. MuHi |-> s[1]]
    ELSE [i \in 1 .. MuHi |->
            LET k == (i - 1) % LeftWidth IN OnlyLimb(s[(k \div Rho) + 1][(k % Rho) + 1], (k % Rho) + 1)]

\* A label is clear when it keeps its distance to the rounding boundary of
\* the limb it is for.
ClearOf(v, j) ==
    LET off == (Compose(v) + (Delta(j) \div 2)) % Delta(j)
    IN  off >= NoiseBound /\ Delta(j) - off >= NoiseBound
Clear(labels) == \A i \in 1 .. Len(labels) : ClearOf(labels[i], ((i - 1) % Rho) + 1)

BudgetOk == \A j \in Limbs : 2 * NoiseBound <= Delta(j)

--------------------------------------------------------------------------------
(* The root.                                                                  *)

PublicBRoot == [i \in 1 .. TauHi |-> PublicB(i)]
PublicBStar == [i \in 1 .. Randomizer |-> Uniform(23, 600 + i)]

ReplicateByLimb(skHi) == [k \in 1 .. LeftWidth |-> skHi[((k - 1) \div Rho) + 1]]

\* One row: minus r1 times the public columns, minus r2 on the digit weights.
RootTopCt(salt, r1, r2) ==
    [row \in 1 .. LeftWidth |->
        LET Cell(b, k) == Plus(Negate(Times(r1[row], b)), Small(salt, 8000 + (row * 16) + k))
        IN  [col \in 1 .. TauHi |-> Minus(Cell(PublicBRoot[col], col), Times(r2[row], Rns(Base ^ col)))]
            \o [col \in 1 .. Randomizer |-> Cell(PublicBStar[col], TauHi + col)]]

RootOffline(salt, sk1) ==
    LET left == Encode("gadget", salt + 3, ReplicateByLimb(sk1), PadWidth(LeftWidth))
        r1   == Eager([i \in 1 .. LeftWidth |-> Small(salt, 8600 + i)])
        skR  == Eager([i \in 1 .. TauHi |-> Uniform(salt, 8700 + i)])
    IN  [skR |-> skR, ct |-> left.ct, ctR |-> LheEnc1Trunc(salt + 3, r1, skR),
         top |-> RootTopCt(salt, r1, left.r)]

Zeta(salt) == [i \in 1 .. Randomizer |-> Rns(((Uniform(salt, 8800 + i)[1] * 7) % ((2 * Base) - 1)) - (Base - 1))]

\* The digits of the block's digest, hashed again; the sum on the public
\* columns hides behind the randomizer.
RootDigest(salt, digest) ==
    LET hat  == Eager(HiAndUnbundle(digest))
        tree == BuildDigestTree("gadget", hat, PadWidth(LeftWidth))
        y    == Eager(HiDigits(tree.digest))
        zeta == Eager(Zeta(salt))
    IN  [tree |-> tree, y |-> y, zeta |-> zeta,
         dPrime |-> Negate(Plus(Dot(PublicBRoot, y), Dot(PublicBStar, zeta)))]

RootSenderLabels(seed, dPrime, kPrime) == LheDec(HashedCt2(LeftWidth, seed, dPrime, 0), kPrime)

RootReceiverLabels(root, rd, seed, skPrime) ==
    LET part == Eager(LheDec(LheApplyCt1Trunc(root.ctR, rd.dPrime), skPrime))
        left == Eager(LencEvalTrunc(root.ct, rd.tree, LeftWidth))
        ct2  == Eager(HashedCt2(LeftWidth, seed, rd.dPrime, 0))
        Phi(row) == Plus(Dot(root.top[row], rd.y \o rd.zeta), left[row])
    IN  [row \in 1 .. LeftWidth |-> Plus(Minus(part[row], Phi(row)), ct2[row])]

--------------------------------------------------------------------------------
(* Between Z_p and the ring; the polynomials hold one value each.             *)

WrapDelta(delta) == Rns(delta * (Q \div P))
WrapX(x) == Rns(x)

\* round(v P / Q) limb by limb: the quotients add up, and the remainders
\* carry where their sum, begun at a half, passes one.
Unwrap(v) ==
    LET Scaled(j) == ((v[j] * InvCrtLift[j]) % Moduli[j]) * P
        frac[j \in 0 .. Rho] ==
            IF j = 0 THEN Q \div 2 ELSE (frac[j - 1] % Q) + ((Scaled(j) % Moduli[j]) * Delta(j))
        coeff[j \in 0 .. Rho] ==
            IF j = 0 THEN 0
            ELSE (coeff[j - 1] + (Scaled(j) \div Moduli[j]) + (IF frac[j] >= Q THEN 1 ELSE 0)) % P
    IN  coeff[Rho]

--------------------------------------------------------------------------------
(* Offline.                                                                   *)

RingInit ==
    /\ stage = "offline"
    /\ run \in Runs
    /\ sender = <<>> /\ receiver = <<>> /\ wire = <<>>

\* The top encodes the caller's delta under a fresh key; the levels below
\* encode that key, once.
RingSenderOffline ==
    /\ stage = "offline"
    /\ LET sk1 == Eager([i \in 1 .. TauHi |-> Uniform(run.salt, 8900 + i)])
           top == SenderOfflineMaterial(run.salt, "trunc", RepSenderInput(<<WrapDelta(run.delta)>>, 1), sk1)
           low == SenderOfflineMaterial(run.salt + 1, "gadget", RepSenderInput(sk1, TauHi), sk1)
           root == RootOffline(run.salt, sk1)
       IN  /\ sender' = [sk1 |-> sk1, skR |-> root.skR, seed |-> 0, dPrime |-> Zero, kPrime |-> Zero,
                         tbk |-> <<>>, out |-> <<>>]
           /\ wire' = [material |-> IF Depth = 1 THEN <<top>> ELSE <<top, low>>, root |-> root]
    /\ stage' = "offlineSent"
    /\ UNCHANGED <<run, receiver>>

RingReceiverOffline ==
    /\ stage = "offlineSent"
    /\ receiver' = [material |-> [i \in 1 .. Len(wire.material) |->
                                     [ct |-> wire.material[i].ct, ct1 |-> wire.material[i].ct1]],
                    root |-> [ct |-> wire.root.ct, ctR |-> wire.root.ctR, top |-> wire.root.top],
                    xs |-> <<[i \in 1 .. W |-> WrapX(run.x[i])]>>,
                    trees |-> <<>>, digest |-> <<>>, labels |-> <<>>, out |-> <<>>]
    /\ wire' = <<>>
    /\ stage' = "shrink"
    /\ UNCHANGED <<run, sender>>

--------------------------------------------------------------------------------
(* Online.                                                                    *)

\* A block of a vector, the last one filled up with zeros.
Chunk(xs, block) ==
    [i \in 1 .. MuHi |->
        LET k == ((block - 1) * MuHi) + i IN IF k <= Len(xs) THEN xs[k] ELSE Zero]

TreesOf(level, xs) == Eager([block \in 1 .. BlocksAt(level) |-> Shrink(Mode(level), Chunk(xs, block))])

\* The digits of all digests of a level are the vector of the next one.
Handed(trees) ==
    LET hats == Eager([b \in 1 .. Len(trees) |-> HiAndUnbundle(trees[b].digest)])
    IN  [k \in 1 .. Len(trees) * LeftWidth |->
            hats[((k - 1) \div LeftWidth) + 1][((k - 1) % LeftWidth) + 1]]

ReceiverShrink ==
    LET level == Len(receiver.trees) + 1
        trees == TreesOf(level, receiver.xs[level])
    IN  /\ stage = "shrink"
        /\ level < Depth
        /\ receiver' = [receiver EXCEPT !.trees = Append(@, trees), !.xs = Append(@, Handed(trees))]
        /\ UNCHANGED <<stage, run, sender, wire>>

ReceiverRootDigest ==
    /\ stage = "shrink"
    /\ Len(receiver.trees) = Depth - 1
    /\ LET trees == TreesOf(Depth, receiver.xs[Depth])
           digest == RootDigest(run.salt, trees[1].digest)
       IN  /\ receiver' = [receiver EXCEPT !.trees = Append(@, trees), !.digest = digest]
           /\ wire' = digest.dPrime
    /\ stage' = "digestSent"
    /\ UNCHANGED <<run, sender>>

\* The labels of every level from one seed and the key of the root.
SenderLabels(seed, dPrime, kPrime) ==
    LET rootKeys == Eager(KeysOf(Eager(RootSenderLabels(seed, dPrime, kPrime))))
        tbk[level \in 1 .. Depth] ==
            IF level = Depth THEN Eager(ExpandSender(seed, dPrime, 0, rootKeys[1]))
            ELSE LET below == tbk[level + 1]
                     keys == Eager(KeysOf(SubSeq(below, 1, WidthAt(level + 1))))
                     blocks == Eager([b \in 1 .. BlocksAt(level) |->
                                   Eager(ExpandSender(seed, dPrime, Instance(level, b), keys[b]))])
                 IN  Eager([i \in 1 .. BlocksAt(level) * MuHi |->
                               blocks[((i - 1) \div MuHi) + 1][((i - 1) % MuHi) + 1]])
    IN  Eager([level \in 1 .. Depth |-> tbk[level]])

\* A seed is golden when the labels of every level are clear.  The labels the
\* root's key is rounded from are not looked at.
Golden(tbk) == \A level \in 1 .. Depth : Clear(tbk[level])

Seeds == 1 .. MaxAttempts
Seed(attempt) == (run.salt * 37) + (attempt * 101)

\* The first golden seed; without one the call throws.
RingSenderRespond ==
    LET dPrime == wire
        kPrime == Uniform(run.salt, 8999)
        \* the attempts from n on: none left, or this one, or the next
        search[n \in 1 .. MaxAttempts + 1] ==
            IF n > MaxAttempts THEN {}
            ELSE LET tbk == SenderLabels(Seed(n), dPrime, kPrime)
                 IN  IF Golden(tbk) THEN {[seed |-> Seed(n), tbk |-> tbk]} ELSE search[n + 1]
    IN  /\ stage = "digestSent"
        /\ BudgetOk
        /\ LET found == search[1]
           IN  \/ /\ found = {}
                  /\ stage' = "noSeed"
                  /\ UNCHANGED <<sender, wire>>
               \/ \E f \in found :
                    /\ sender' = [sender EXCEPT !.dPrime = dPrime, !.kPrime = kPrime,
                                    !.seed = f.seed, !.tbk = f.tbk,
                                    !.out = [i \in 1 .. W |-> Unwrap(f.tbk[1][i])]]
                    /\ wire' = [seed |-> f.seed, skPrime |-> DeriveSkxTrunc(sender.skR, dPrime, kPrime)]
                    /\ stage' = "responded"
        /\ UNCHANGED <<run, receiver>>

\* The receiver's labels, from the root up.
ReceiverLabels(seed, rootKey) ==
    LET dPrime == receiver.digest.dPrime
        Expand(level, block, key) ==
            ExpandReceiver(receiver.material[Material(level)], receiver.trees[level][block],
                           seed, dPrime, Instance(level, block), key)
        tbm[level \in 1 .. Depth] ==
            IF level = Depth THEN Eager(Expand(level, 1, rootKey))
            ELSE LET below == tbm[level + 1]
                     keys == Eager(KeysOf(SubSeq(below, 1, WidthAt(level + 1))))
                     blocks == Eager([b \in 1 .. BlocksAt(level) |-> Eager(Expand(level, b, keys[b]))])
                 IN  Eager([i \in 1 .. WidthAt(level) |->
                               blocks[((i - 1) \div MuHi) + 1][((i - 1) % MuHi) + 1]])
    IN  Eager([level \in 1 .. Depth |-> tbm[level]])

ReceiverFinish ==
    LET rootLabels == RootReceiverLabels(receiver.root, receiver.digest, wire.seed, wire.skPrime)
        tbm == ReceiverLabels(wire.seed, KeysOf(Eager(rootLabels))[1])
    IN  /\ stage = "responded"
        /\ receiver' = [receiver EXCEPT !.labels = tbm, !.out = [i \in 1 .. W |-> Unwrap(tbm[1][i])]]
        /\ wire' = <<>>
        /\ stage' = "done"
        /\ UNCHANGED <<run, sender>>

RingNext ==
    \/ RingSenderOffline \/ RingReceiverOffline
    \/ ReceiverShrink \/ ReceiverRootDigest
    \/ RingSenderRespond \/ ReceiverFinish

RingSpec == RingInit /\ [][RingNext]_ringVars

--------------------------------------------------------------------------------

\* What a row of a level stands for.
Secret(level, i) ==
    IF level = 1 THEN WrapDelta(run.delta)
    ELSE RepSenderInput(sender.sk1, TauHi)[((i - 1) % MuHi) + 1]

\* The sender never looks at the labels its root key is rounded from.
RootClear == Clear(RootSenderLabels(sender.seed, sender.dPrime, sender.kPrime))

\* At every level the receiver's label is the sender's plus the product of the
\* row's secret and the receiver's digit, up to the noise the seed search
\* allowed for: the truncated encodings, the digits of the digests and the
\* keys of all the levels below fit together.
LabelsNear ==
    (stage = "done" /\ RootClear) =>
        \A level \in 1 .. Depth : \A i \in 1 .. WidthAt(level) :
            LET miss == Centered(Minus(receiver.labels[level][i],
                            Plus(sender.tbk[level][i], Times(Secret(level, i), receiver.xs[level][i]))))
            IN  miss < NoiseBound /\ -miss < NoiseBound

\* A label of the top is clear of the boundary it is really rounded at.
OutputClear(i) ==
    LET c == Compose(sender.tbk[1][i])
        off == (c + (Q \div (2 * P))) % (Q \div P)
    IN  off >= NoiseBound + P /\ (Q \div P) - off >= NoiseBound + P

\* The outputs: a = b + x Delta mod p, wherever no boundary the sender does not
\* look at is near.
OutputsFit ==
    (stage = "done" /\ RootClear) =>
        \A i \in 1 .. W : OutputClear(i) =>
            receiver.out[i] = (sender.out[i] + (run.x[i] * run.delta)) % P

\* The encodings alone, on a full-width secret: plain digits, the truncated
\* ones of the top level, and limbs of lifted digits below it.
EncodingsMean ==
    stage = "offline" =>
        LET s == [i \in 1 .. LeftWidth |-> Uniform(run.salt, 40 + i)]
            x == [i \in 1 .. LeftWidth |-> Uniform(run.salt, 60 + i)]
        IN  /\ \A i \in 1 .. LeftWidth : DigitsStandFor(Compose(s[i]), FullTau)
            /\ EvaluationNear("full", run.salt, s, x)
            /\ EvaluationNear("trunc", run.salt, s, SubSeq([i \in 1 .. W |-> WrapX(run.x[i])], 1, LeftWidth))
            /\ EvaluationNear("gadget", run.salt, s, HiAndUnbundle(x[1]))

\* What LogVole.h promises of the two outputs, without the conditions.
OutputsAlwaysFit ==
    stage = "done" => \A i \in 1 .. W : receiver.out[i] = (sender.out[i] + (run.x[i] * run.delta)) % P
================================================================================
