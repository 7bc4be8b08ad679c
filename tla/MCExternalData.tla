--------------------------- MODULE MCExternalData ---------------------------
(* Instances of ExternalData for TLC: all files of a few segments. *)
EXTENDS ExternalData

CONSTANTS MaxSegments

\* The prefix is no suffix of itself, as in the code; the values contain parts
\* of it, all of it, the mark of a group, and more bytes than are allowed.
MCPrefix == <<1, 0>>
Values == {<<>>, <<2>>, <<1>>, <<1, 0>>, <<2, 1, 0>>}

Segments ==
    [kind : {"external"}, value : Values]
    \cup [kind : {"metadata"}, value : {<<2>>, <<1, 0>>}]
    \cup [kind : {"other"}, value : {<<b>> : b \in 0..3}]

MCFiles == UNION {[1..k -> Segments] : k \in 0..MaxSegments}

=============================================================================
