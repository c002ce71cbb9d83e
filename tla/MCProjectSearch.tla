-------------------------- MODULE MCProjectSearch --------------------------
(* Small instances of ProjectSearch for TLC. *)
EXTENDS ProjectSearch, TLC

\* Names are interchangeable; ids are not, as the first row of a name wins.
NameSymmetry == Permutations(Name)
=============================================================================
