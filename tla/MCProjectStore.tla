--------------------------- MODULE MCProjectStore ---------------------------
(* Small instances of ProjectStore for TLC.                                *)
EXTENDS ProjectStore, TLC

WholeForm == { Part }
HalfForms == { {"required", "manager", "salvage"}, {"supervisor", "optional", "closeout"} }

(* Ids and entered values are interchangeable; so are devices that have    *)
(* the same role, and projects while none of them is in Existing.          *)
IdSymmetry == Permutations(SalvageId) \cup Permutations(CloseoutId)
RowSymmetry == IdSymmetry \cup Permutations(Device)
ValueSymmetry == Permutations(Value)
Symmetry == RowSymmetry \cup Permutations(Value) \cup Permutations(ProjectId)
=============================================================================
