------------------------------- MODULE Layout -------------------------------
(***************************************************************************)
(* The two permutations of src/src/inference.cpp: an R array, stored       *)
(* column by column, becomes the row-major buffer of a tensor              *)
(* (permute_colrow), a model that returns its input unchanged hands the    *)
(* buffer over, and it becomes an R array again (permute_rowcol).          *)
(*                                                                         *)
(* Each iteration of the two outer loops is a step.  Positions count from  *)
(* 0, as in the code, dimensions from 1.                                   *)
(***************************************************************************)
EXTENDS Integers, Sequences

CONSTANTS
    MaxRank,     \* bound on the number of dimensions
    MaxDim       \* bound on each dimension

ASSUME LayoutBoundsAssumption == MaxRank \in Nat /\ MaxDim \in Nat

VARIABLES
    shape,     \* the dimensions, for both calls
    tensor,    \* dst of permute_colrow, src of permute_rowcol
    back,      \* dst of permute_rowcol
    phase,     \* "in", "out" or "done"
    pos        \* the loop variable: rm in phase "in", cm in phase "out"

vars == <<shape, tensor, back, phase, pos>>

Shapes == UNION {[1..r -> 0..MaxDim] : r \in 0..MaxRank}

\* A cell that was not written yet.
Unset == -1

----------------------------------------------------------------------------
(* The arithmetic.                                                         *)

\* Mutant: a dimension of zero counts as unknown, as it does in onnx_run().
SizeOfKnown(s) ==
    LET prod[k \in 0..Len(s)] ==
            IF k = 0 THEN 1 ELSE prod[k - 1] * (IF s[k] = 0 THEN 1 ELSE s[k])
    IN  prod[Len(s)]

\* n: the product of the dimensions, 1 of none.
Size(s) ==
    LET prod[k \in 0..Len(s)] == IF k = 0 THEN 1 ELSE prod[k - 1] * s[k]
    IN  prod[Len(s)]

\* compute_strides
RmStride(s) ==
    LET stride[k \in 1..Len(s)] ==
            IF k = Len(s) THEN 1 ELSE stride[k + 1] * s[k + 1]
    IN  stride

\* Mutant: the strides of the reversed shape.
CmStrideReversed(s) ==
    LET stride[k \in 1..Len(s)] ==
            IF k = 1 THEN 1 ELSE stride[k - 1] * s[Len(s) + 2 - k]
    IN  stride

CmStride(s) ==
    LET stride[k \in 1..Len(s)] ==
            IF k = 1 THEN 1 ELSE stride[k - 1] * s[k - 1]
    IN  stride

\* The inner loops take a position apart along `from`, dimension by dimension
\* in the order `by`, and put it together along `to`.
Translate(position, from, to, by) ==
    LET rest[k \in 0..Len(by)] ==
            IF k = 0 THEN position ELSE rest[k - 1] % from[by[k]]
        sum[k \in 0..Len(by)] ==
            IF k = 0 THEN 0
            ELSE sum[k - 1] + (rest[k - 1] \div from[by[k]]) * to[by[k]]
    IN  sum[Len(by)]

Upwards(s) == [k \in 1..Len(s) |-> k]
Downwards(s) == [k \in 1..Len(s) |-> Len(s) + 1 - k]

\* Mutant: the data are copied as they are.
ColIndexFlat(s, rm) == rm
RowIndexFlat(s, cm) == cm

\* Mutant: the loop of permute_colrow, with the strides swapped.
RowIndexUpwards(s, cm) ==
    IF Len(s) <= 1 THEN cm
    ELSE Translate(cm, CmStride(s), RmStride(s), Upwards(s))

\* Where permute_colrow reads what it writes to position rm.
ColIndex(s, rm) ==
    IF Len(s) <= 1 THEN rm
    ELSE Translate(rm, RmStride(s), CmStride(s), Upwards(s))

\* Where permute_rowcol reads what it writes to position cm.
RowIndex(s, cm) ==
    IF Len(s) <= 1 THEN cm
    ELSE Translate(cm, CmStride(s), RmStride(s), Downwards(s))

----------------------------------------------------------------------------
(* The calls.                                                              *)

\* The R array: each element is its own position.
Element(cm) == cm

Buffer(s) == [i \in 0..Size(s) - 1 |-> Unset]

Init ==
    /\ shape \in Shapes
    /\ tensor = Buffer(shape)
    /\ back = Buffer(shape)
    /\ phase = "in"
    /\ pos = 0

ColRowStep ==
    /\ phase = "in"
    /\ pos < Size(shape)
    /\ tensor' = [tensor EXCEPT ![pos] = Element(ColIndex(shape, pos))]
    /\ pos' = pos + 1
    /\ UNCHANGED <<shape, back, phase>>

ModelReturnsInput ==
    /\ phase = "in"
    /\ pos = Size(shape)
    /\ phase' = "out"
    /\ pos' = 0
    /\ UNCHANGED <<shape, tensor, back>>

RowColStep ==
    /\ phase = "out"
    /\ pos < Size(shape)
    /\ back' = [back EXCEPT ![pos] = tensor[RowIndex(shape, pos)]]
    /\ pos' = pos + 1
    /\ UNCHANGED <<shape, tensor, phase>>

Return ==
    /\ phase = "out"
    /\ pos = Size(shape)
    /\ phase' = "done"
    /\ UNCHANGED <<shape, tensor, back, pos>>

Next == ColRowStep \/ ModelReturnsInput \/ RowColStep \/ Return

Spec == Init /\ [][Next]_vars

----------------------------------------------------------------------------
(* The reference: what row-major and column-major mean.                    *)

MultiIndices(s) ==
    {ix \in [1..Len(s) -> 0..MaxDim - 1] : \A k \in 1..Len(s) : ix[k] < s[k]}

RowMajor(s, ix) ==
    LET h[k \in 0..Len(s)] == IF k = 0 THEN 0 ELSE h[k - 1] * s[k] + ix[k]
    IN  h[Len(s)]

ColMajor(s, ix) ==
    LET h[k \in 1..Len(s) + 1] ==
            IF k = Len(s) + 1 THEN 0 ELSE h[k + 1] * s[k] + ix[k]
    IN  h[1]

----------------------------------------------------------------------------
(* Properties.                                                             *)

Cells == 0..Size(shape) - 1
Elements == {Element(i) : i \in Cells}

TypeOK ==
    /\ shape \in Shapes
    /\ tensor \in [Cells -> Elements \cup {Unset}]
    /\ back \in [Cells -> Elements \cup {Unset}]
    /\ phase \in {"in", "out", "done"}
    /\ pos \in 0..Size(shape)

\* Neither loop reads outside its source or divides by zero, whatever the
\* shape: a dimension of zero makes strides zero, and then there is nothing
\* to copy.
ReadsInBounds ==
    pos \in Cells =>
        /\ phase = "in" => ColIndex(shape, pos) \in Cells
        /\ phase = "out" => RowIndex(shape, pos) \in Cells

StridesNonZero ==
    pos \in Cells /\ phase # "done" =>
        \A k \in 1..Len(shape) : RmStride(shape)[k] > 0 /\ CmStride(shape)[k] > 0

\* The tensor holds at each multi-index, in row-major order, the element that
\* R has there, as far as it has been written.
TensorIsRowMajor ==
    \A ix \in MultiIndices(shape) :
        LET rm == RowMajor(shape, ix) IN
        phase # "in" \/ rm < pos => tensor[rm] = Element(ColMajor(shape, ix))

\* An array that a model returns unchanged comes back as it went in.
RoundTrip == phase = "done" => \A i \in Cells : back[i] = Element(i)

==============================================================================
