----------------------------- MODULE FeRegister -----------------------------
(***************************************************************************)
(* One accumulator of the protocol code (check, eval, o[j], m[i], ...)     *)
(* taken through any sequence of the fe25519 operators: `+=` and `-=` with *)
(* a reduced operand, `*=`, squaring, neg, reduce_add_sub, freeze, and a   *)
(* trip over the wire (pack on one side, unpack on the other).  The ghost  *)
(* `val` is the field element the register should stand for, `load` counts *)
(* how many reduced elements its limbs may be the sum of, `form` says      *)
(* which operation produced it.                                            *)
(***************************************************************************)
EXTENDS Fe25519

CONSTANTS MaxLoad,    \* lazy additions an accumulator may collect
          MulBudget,  \* product of loads a multiplication may be given
          Operands    \* numbers the second operand is taken from

\* What an instance has to satisfy.
RegisterAssumption ==
  /\ MaxLoad \in Nat /\ MulBudget \in Nat
  /\ Operands \subseteq 0 .. (RADIX^(LIMBS - 1) * TOP - 1)

VARIABLES r, val, load, form
vars == <<r, val, load, form>>

Forms == {"reduced", "lazy", "product", "frozen", "productFrozen"}

TypeOK == /\ r \in Fe
          /\ val \in 0 .. (P - 1)
          /\ load \in 1 .. MaxLoad
          /\ form \in Forms

Operand == {unpack(DigitsOf(n)) : n \in Operands}

\* random_fe25519, generateF25519VectorFromSeed and unpack of a message.
Init == /\ r \in Operand
        /\ val = Value(r) % P
        /\ load = 1
        /\ form = "reduced"

Become(x, v, n, f) == /\ r' = x
                      /\ val' = v % P
                      /\ load' = n
                      /\ form' = f

AddTo(y) == /\ load < MaxLoad
            /\ Become(add_lazy(r, y), val + Value(y), load + 1, "lazy")

SubFrom(y) == /\ load + 2 <= MaxLoad
              /\ Become(sub_lazy(r, y), val - Value(y), load + 2, "lazy")

MulBy(y) == /\ load <= MulBudget
            /\ Become(mul(r, y), val * Value(y), 1, "product")

Square == /\ load * load <= MulBudget
          /\ Become(square(r), val * val, 1, "product")

Reduce == Become(reduce_add_sub(r), val, 1, "reduced")

\* neg is applied to reduced elements only.
Negate == /\ form = "reduced"
          /\ Become(neg(r), -val, 1, "reduced")

\* After reduce_add_sub everywhere but in presidue_eps and issquare, which
\* freeze a product.
Freeze == /\ form \in {"reduced", "product"}
          /\ Become(freeze(r), val, 1, IF form = "reduced" THEN "frozen" ELSE "productFrozen")

\* Never called on a lazy sum.  The receiver holds what it unpacked.
Wire == /\ form /= "lazy"
        /\ LET received == unpack(pack(r))
           IN  Become(received, Value(received), 1, "reduced")

Next == \/ \E y \in Operand : AddTo(y) \/ SubFrom(y) \/ MulBy(y)
        \/ Square \/ Reduce \/ Negate \/ Freeze \/ Wire

Spec == Init /\ [][Next]_vars

----------------------------------------------------------------------------
\* Lazy sums, differences and products never lose their value to a limb that
\* wraps around: the register always stands for val.
ValueTracks == Value(r) % P = val

\* The zero test of every consistency check of the protocol (reduce_add_sub,
\* freeze, iszero in VolePlus::receive, commit_to_witness, verify) is exact
\* whatever lazy form the accumulator has, and freeze leaves the one
\* canonical row of limbs.
ZeroTestExact ==
  LET f == freeze(reduce_add_sub(r))
  IN  IsCanonical(f) /\ (iszero(f) <=> val = 0)

\* A product is below 2P although reduce_mul makes two passes only: its top
\* limb exceeds a reduced one by at most one.
ProductNearlyReduced ==
  form = "product" => /\ \A i \in Limb : r[i] <= (IF i = LIMBS - 1 THEN TOP ELSE RADIX - 1)
                      /\ Value(r) < 2 * P

\* The limbs pack takes for P or more although limb 1 is below P's.
PackGap(x) == PackTest(x) /\ ~ AtLeastP(x)

\* An element reduced modulo 2^255 keeps its value over the wire, unless its
\* limbs fall in pack's gap.
WireFaithful == [][Wire /\ IsReduced(r) /\ ~ PackGap(r) => val' = val]_vars

============================================================================
