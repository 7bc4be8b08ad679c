------------------------------- MODULE Convert -------------------------------
(***************************************************************************)
(* One element of an argument of onnx_run() on its way through             *)
(* make_input_tensor, the model, and read_output_tensor.  The model is     *)
(* anything: it may return the element unchanged or any other one.         *)
(***************************************************************************)
EXTENDS Tensors

VARIABLES
    rtype,    \* the type of the R vector
    etype,    \* the model's element type, for its input and its output
    x,        \* the element of the vector
    elem,     \* the element of the input tensor, later of the output tensor
    y,        \* the element of the result
    same,     \* has the model returned its input?
    pc        \* "call", "input", "output", "returned" or "stopped"

vars == <<rtype, etype, x, elem, y, same, pc>>

Types == ElementTypes \cup {"unsupported"}

Init ==
    /\ rtype \in RTypes
    /\ etype \in Types
    /\ x \in RValues(rtype)
    /\ elem = NaN
    /\ y = NaN
    /\ same = FALSE
    /\ pc = "call"

\* Mutant: logicals are not looked at.
HasIntNA == rtype = "integer" /\ IsNA(x)

\* has_int_na, has_lgl_na: doubles are not looked at.
HasNA == rtype \in {"integer", "logical"} /\ IsNA(x)

Stop ==
    /\ pc = "call"
    /\ HasNA \/ ~Convertible(rtype, etype)
    /\ pc' = "stopped"
    /\ UNCHANGED <<rtype, etype, x, elem, y, same>>

MakeInputTensor ==
    /\ pc = "call"
    /\ ~HasNA
    /\ Convertible(rtype, etype)
    /\ elem' \in ToTensor(etype, Stored(x))
    /\ pc' = "input"
    /\ UNCHANGED <<rtype, etype, x, y, same>>

ModelRuns ==
    /\ pc = "input"
    /\ elem' \in Elements(etype)
    /\ same' = (elem' = elem)
    /\ pc' = "output"
    /\ UNCHANGED <<rtype, etype, x, y>>

ReadOutputTensor ==
    /\ pc = "output"
    /\ y' = FromTensor(etype, elem)
    /\ pc' = "returned"
    /\ UNCHANGED <<rtype, etype, x, elem, same>>

Next == Stop \/ MakeInputTensor \/ ModelRuns \/ ReadOutputTensor

Spec == Init /\ [][Next]_vars

----------------------------------------------------------------------------
(* Properties.                                                             *)

TypeOK ==
    /\ rtype \in RTypes
    /\ etype \in Types
    /\ x \in RValues(rtype)
    /\ pc \in {"call", "input", "output", "returned", "stopped"}
    /\ same \in BOOLEAN
    /\ pc \in {"input", "output", "returned"} => elem \in Elements(etype)
    /\ pc = "returned" => y \in ResultValues(etype)

\* A model that returns its input gives back what went into it: the two switches
\* agree with each other.  A value that the element type can hold comes back as
\* the same number, and an NA as something that is no number.  Two cases are the
\* code's own exceptions: the double -2^31 comes back from an int32 as NA, and
\* an NA among doubles is cast to an integer (see NAStaysNA).
ComesBack ==
    pc = "returned" /\ same =>
        /\ x \in Elements(etype) => y = x \/ (etype = "int32" /\ x = Lowest)
        /\ IsNA(x) => y.nan \/ (rtype = "double" /\ etype \in {"int32", "int64"})

\* "return as doubles (exact up to 2^53)" (inference.cpp:241), and every other
\* element type without loss, but for the one int32 that R has no number for.
OutputExact ==
    pc = "returned" =>
        \/ y = elem
        \/ etype = "int64" /\ Magnitude(Trunc(elem)) > 2 ^ DoubleBits
        \/ etype = "int32" /\ elem = Lowest /\ y = IntNA

\* "NA values are not supported in ONNX model inputs" (inference.cpp:134): an
\* NA stops the call, or is a NaN in the tensor.
NAStaysNA == pc = "input" /\ IsNA(x) => elem.nan

==============================================================================
