------------------------------ MODULE MCInstall ------------------------------
(* Instances of Install for TLC: the R processes of a user are alike.       *)
EXTENDS Install, TLC

Symmetry == Permutations(Procs)

==============================================================================
