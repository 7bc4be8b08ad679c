-------------------------------- MODULE Types --------------------------------
(***************************************************************************)
(* The R types and the element types that src/src/inference.cpp knows.     *)
(***************************************************************************)

\* The R types that onnx_run() lets through, and the element types.
RTypes == {"double", "integer", "logical"}
ElementTypes == {"float", "double", "int32", "int64", "bool"}

\* The switch of make_input_tensor: which R types it takes for which element
\* type.  Everything else stops.
Convertible(rtype, etype) ==
    \/ etype \in {"float", "double", "int32", "int64"}
       /\ rtype \in {"double", "integer"}
    \/ etype = "bool" /\ rtype \in {"logical", "integer"}

==============================================================================
