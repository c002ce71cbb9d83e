--------------------------- MODULE MCStoreReaders ---------------------------
(* A small instance of StoreReaders: what the reports and the triggers tell *)
(* apart of the cells.                                                      *)
EXTENDS MCProjectStore, StoreReaders

CONSTANT a

StageOfCells == [v \in Contents |-> IF v = a THEN "Active" ELSE "Proposal"]
MeetsOfCells == [v \in Contents |-> v = a]
TriggersSee == Contents \X Contents
RowOfCells == [v \in TriggersSee |-> v]
QuietRow == <<Blank, Blank>>
=============================================================================
