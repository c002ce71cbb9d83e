--------------------------- MODULE MCProjectForm ---------------------------
(* Small instances of ProjectForm for TLC. *)
EXTENDS ProjectForm, TLC

CONSTANT zero

\* Two texts: nothing, and the number it is read as.
Texts == {Blank, zero}
ZeroOf == [t \in Texts |-> zero]

\* Names are interchangeable; ids are not, as the first row of a name wins.
NameSymmetry == Permutations(Name)
=============================================================================
