------------------------------ MODULE MCRunCall ------------------------------
(* Instances of RunCall for TLC: three inputs, two arguments. *)
EXTENDS RunCall

R(rtype, dim, na) == [rtype |-> rtype, dim |-> dim, na |-> na]
MCArrays ==
    {R("double", <<2>>, FALSE), R("double", <<>>, FALSE),
     R("integer", <<1>>, TRUE), R("other", <<2>>, FALSE),
     R("logical", <<2, 2>>, FALSE)}

D(optional, etype, shape) ==
    [optional |-> optional, etype |-> etype, shape |-> shape]
MCDeclared ==
    {D(FALSE, "float", s) : s \in {<<2>>, <<0>>, <<-1>>}}
    \cup {D(TRUE, "bool", <<2, 2>>), D(FALSE, "string", <<2>>)}

MCProduced ==
    {[etype |-> e, shape |-> s] : e \in {"float", "string"}, s \in {<<>>, <<2>>}}

MCInputNames == <<"a", "simplify", "mod">>
MCOtherNames == {"c", "model"}
MCModelNames == {"mod", "model"}

=============================================================================
