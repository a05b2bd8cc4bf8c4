----------------------------- MODULE CuckooRow -----------------------------
(***************************************************************************)
(* buildRow and buildRow32 (cryptoTools/Common/CuckooIndex.cpp): from the  *)
(* raw residues of an item's hash to its row of distinct bins. insert may  *)
(* compute rows 32 at a time with vector masks where find computes one,    *)
(* so that the two have to agree on every residue.                         *)
(***************************************************************************)
EXTENDS Integers, Sequences, FiniteSets, Bitwise

CONSTANTS Sizes, Weights

VARIABLES m, raw  \* the number of bins, and the residues modulo m, m-1, ...

vars == <<m, raw>>

-----------------------------------------------------------------------------

Least(a, b) == IF a < b THEN a ELSE b
Inc(x, when) == IF when THEN x + 1 ELSE x

\* The branch for three hashes.
Row3StaleMax(r) ==
  LET min == Least(r[1], r[2])
      max == r[1] + r[2] - min
      c == Inc(r[3], r[3] >= min)
  IN  <<r[1], Inc(r[2], max = r[2]), Inc(c, c >= max)>>
Row3(r) ==
  LET min == Least(r[1], r[2])
      max == r[1] + r[2] - min
      bump == max = r[2]
      r2 == Inc(r[2], bump)
      top == Inc(max, bump)
      c == Inc(r[3], r[3] >= min)
  IN  <<r[1], r2, Inc(c, c >= top)>>

\* The other branch: each index is moved past the sorted ones not above it
\* and inserted in its place.
Skip[x \in Nat, row \in Seq(Nat)] ==
  IF row # <<>> /\ Head(row) <= x THEN Skip[x + 1, Tail(row)] ELSE x
InsertLast(row, x) == Append(row, x)

InsertSorted(row, x) ==
  SelectSeq(row, LAMBDA y : y < x) \o <<x>> \o SelectSeq(row, LAMBDA y : y >= x)
RowN(r) ==
  LET f[n \in 0..Len(r)] ==
        IF n = 0 THEN <<>> ELSE InsertSorted(f[n - 1], Skip[r[n], f[n - 1]])
  IN  f[Len(r)]

buildRow(r) == IF Len(r) = 3 THEN Row3(r) ELSE RowN(r)

\* One 64-bit lane of buildRow32. A mask is all ones (-1) or zero.
Mask(b) == IF b THEN -1 ELSE 0
Masked(x, mask) == IF mask = 0 THEN 0 ELSE x
Inverted(mask) == -1 - mask
Row32NoInvert(r) ==
  LET gt == Mask(r[1] > r[2])
      diff == r[1] ^^ r[2]
      max == Masked(diff, gt) ^^ r[2]
      eq == Mask(max = r[2])
      c == r[3] - Inverted(Mask((diff ^^ max) > r[3]))
  IN  <<r[1], r[2] - eq, c - Mask(c > max - eq)>>

Row32(r) ==
  LET gt == Mask(r[1] > r[2])
      diff == r[1] ^^ r[2]
      max == Masked(diff, gt) ^^ r[2]
      min == diff ^^ max
      eq == Mask(max = r[2])
      top == max - eq
      c == r[3] - Inverted(Mask(min > r[3]))
  IN  <<r[1], r[2] - eq, c - Inverted(Mask(top > c))>>

-----------------------------------------------------------------------------

\* Row of residues; numBins() is never below the number of hashes.
Raws(n, w) == {r \in [1..w -> 0..(n - 1)] : \A i \in 1..w : r[i] < n - i + 1}

Init == \E w \in Weights : m \in {n \in Sizes : n >= w} /\ raw \in Raws(m, w)
\* The next item's residues.
Next == m' = m /\ raw' \in Raws(m, Len(raw))
Spec == Init /\ [][Next]_vars

\* The bins of a row are distinct and exist: an evicted item always has
\* another place to go.
RowDistinct ==
  LET row == buildRow(raw) IN
  /\ \A i \in DOMAIN row : row[i] \in 0..(m - 1)
  /\ \A i, j \in DOMAIN row : i # j => row[i] # row[j]

\* Where the vector code computes a row (insert) and the scalar one looks
\* for the item (find), they name the same bins.
RowsAgree == Len(raw) = 3 => Row32(raw) = buildRow(raw)

\* No row is favoured: three residues give each ordered triple once, other
\* weights each set of bins equally often.
RowsUniform ==
  Cardinality({r \in Raws(m, Len(raw)) : buildRow(r) = buildRow(raw)}) =
    CASE Len(raw) = 3 -> 1
      [] Len(raw) = 2 -> 2
      [] OTHER -> 1
=============================================================================
