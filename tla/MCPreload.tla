------------------------------ MODULE MCPreload ------------------------------
(* Instances of Preload for TLC: the files of MCExternalData and two names. *)
EXTENDS Preload, MCExternalData

MCNames == {<<1>>, <<2>>}

\* Neither is a part of the other, with or without zeros.
MCBlobs == {<<1>>, <<2, 2>>}

E1 == [kind |-> "external", value |-> <<1>>]
E2 == [kind |-> "external", value |-> <<2>>]
MCRewrites == {<<>>, <<E1>>, <<E2, E1>>} \cap MCFiles

=============================================================================
