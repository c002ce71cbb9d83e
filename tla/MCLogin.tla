------------------------------ MODULE MCLogin ------------------------------
(* Small instances of Login for TLC. *)
EXTENDS Login

CONSTANTS d1, d2

TwoDevices == {d1, d2}

\* The devices are alike, so one stands for all.
FirstAnswered == LoginAnswered(d1)
=============================================================================
