------------------------------- MODULE Tensors -------------------------------
(***************************************************************************)
(* What one element becomes on its way from an R vector into a tensor and  *)
(* back (make_input_tensor and read_output_tensor, src/src/inference.cpp). *)
(*                                                                         *)
(* A number is counted in halves, so that truncation shows.  The widths of *)
(* the types are constants: the code has 32, 64, 8, 24 and 53 bits.        *)
(***************************************************************************)
EXTENDS Integers, Types

CONSTANTS
    IntBits,      \* R's integers and logicals, and int32
    LongBits,     \* int64
    ByteBits,     \* uint8_t, which holds a bool
    FloatBits,    \* the significand of a float
    DoubleBits    \* the significand of a double

ASSUME WidthsAssumption ==
    /\ {IntBits, LongBits, ByteBits, FloatBits, DoubleBits} \subseteq Nat \ {0}
    /\ ByteBits < IntBits /\ FloatBits < IntBits
    /\ IntBits <= DoubleBits /\ DoubleBits < LongBits

----------------------------------------------------------------------------
(* Numbers.                                                                *)

\* What is no number has no halves: the field tells a floating-point NaN from
\* R's NA of integers and logicals.
NaN == [nan |-> TRUE, halves |-> 0]
IntNA == [nan |-> TRUE, halves |-> 1]
Halves(n) == [nan |-> FALSE, halves |-> n]
Whole(i) == Halves(2 * i)

Signed(bits) == -(2 ^ (bits - 1)) .. 2 ^ (bits - 1) - 1
Magnitude(n) == IF n < 0 THEN -n ELSE n
Trunc(x) ==
    IF x.halves < 0 THEN -((-x.halves) \div 2) ELSE x.halves \div 2

\* The number with a significand of so many bits that is nearest to n; of two
\* equally near ones the one that is even.  For numbers up to 2^LongBits.
Rounded(n, bits) ==
    LET m    == Magnitude(n)
        unit == CHOOSE u \in {2 ^ e : e \in 0 .. LongBits + 1} :
                    m \div u < 2 ^ bits /\ (u = 1 \/ m \div (u \div 2) >= 2 ^ bits)
        down == m \div unit
        rest == m % unit
        near == IF 2 * rest > unit \/ (2 * rest = unit /\ down % 2 = 1)
                THEN down + 1 ELSE down
    IN  IF n < 0 THEN -(near * unit) ELSE near * unit

\* NA_INTEGER and NA_LOGICAL are the smallest int, a number to C++ and to the
\* model but not to R; NA_REAL is a NaN to all of them.
Lowest == Whole(-(2 ^ (IntBits - 1)))
IsNA(x) == x.nan
Stored(x) == IF x = IntNA THEN Lowest ELSE x    \* what C++ reads of R's x
Shown(e) == IF e = Lowest THEN IntNA ELSE e     \* what R makes of C++'s int e

\* The values of an R vector of a type, and the elements of a tensor.  Doubles
\* go beyond int64 on both sides.
Reals(bits) ==
    LET limit == 2 ^ (LongBits + 1)
    IN  {NaN} \cup {Halves(Rounded(n, bits)) : n \in -limit .. limit}

Floats == Reals(FloatBits)
Doubles == Reals(DoubleBits)

RValues(rtype) ==
    CASE rtype = "double" -> Doubles
      [] rtype = "integer" -> {Shown(Whole(i)) : i \in Signed(IntBits)}
      [] rtype = "logical" -> {IntNA, Whole(0), Whole(1)}

Elements(etype) ==
    CASE etype = "float" -> Floats
      [] etype = "double" -> Doubles
      [] etype = "int32" -> {Whole(i) : i \in Signed(IntBits)}
      [] etype = "int64" -> {Whole(i) : i \in Signed(LongBits)}
      [] etype = "bool" -> {Whole(i) : i \in 0 .. 2 ^ ByteBits - 1}

----------------------------------------------------------------------------
(* Conversions.                                                            *)

\* static_cast of a floating-point number to an integer type: undefined when
\* the truncated value does not fit, and any value may come out.
FitsAfterTrunc(x, bits) == ~x.nan /\ Trunc(x) \in Signed(bits)

ToInteger(x, bits) ==
    IF FitsAfterTrunc(x, bits) THEN {Whole(Trunc(x))}
    ELSE {Whole(i) : i \in Signed(bits)}

ToFloating(x, bits) == IF x.nan THEN NaN ELSE Halves(Rounded(x.halves, bits))

\* Mutant: integers go into a tensor of doubles by way of a float.
ToTensorNarrow(etype, x) ==
    CASE etype \in {"float", "double"} -> {ToFloating(x, FloatBits)}
      [] etype = "int32" -> ToInteger(x, IntBits)
      [] etype = "int64" -> ToInteger(x, LongBits)
      [] etype = "bool" -> {Whole(Trunc(x) % (2 ^ ByteBits))}

\* What an element of an R vector, stored as x, may become in the tensor.
ToTensor(etype, x) ==
    CASE etype = "float" -> {ToFloating(x, FloatBits)}
      [] etype = "double" -> {ToFloating(x, DoubleBits)}
      [] etype = "int32" -> ToInteger(x, IntBits)
      [] etype = "int64" -> ToInteger(x, LongBits)
      [] etype = "bool" -> {Whole(Trunc(x) % (2 ^ ByteBits))}

\* The type of the vector read_output_tensor returns, and the elements it may
\* hold: a bool is copied, and any byte makes a logical.
ResultType(etype) ==
    CASE etype \in {"float", "double", "int64"} -> "double"
      [] etype = "int32" -> "integer"
      [] etype = "bool" -> "logical"

ResultValues(etype) ==
    CASE etype \in {"float", "double", "int64"} -> Doubles
      [] etype = "int32" -> RValues("integer")
      [] etype = "bool" -> Elements(etype)

\* Mutant: of an int64 only the low bits are read.
FromTensorLow(etype, e) ==
    CASE etype = "int64" -> Whole(Trunc(e) % (2 ^ IntBits))
      [] etype = "int32" -> Shown(e)
      [] etype \notin {"int32", "int64"} -> e

\* Mutant: the bits of an int64 are taken for a double's.
FromTensorUncast(etype, e) == IF etype = "int32" THEN Shown(e) ELSE e

\* What R has of the element e of an output tensor.
FromTensor(etype, e) ==
    CASE etype = "int64" -> ToFloating(e, DoubleBits)
      [] etype = "int32" -> Shown(e)
      [] etype \notin {"int32", "int64"} -> e

==============================================================================
