------------------------------ MODULE MCReports ------------------------------
(* Small instances of Reports. *)
EXTENDS Reports

AllReports == ReportNames \X Types
WeeklyActive == {<<"Weekly", "Active">>}
OneStage == {"Active"}
=============================================================================
