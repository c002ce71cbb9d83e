---------------------------- MODULE StoreReaders ----------------------------
(***************************************************************************)
(* What the two screens that read many projects at once see of the tables. *)
(* Reports and Triggers have a project table of their own, which others    *)
(* change one whole row at a time.  Here that table is what their queries  *)
(* select of the five tables of ProjectStore, and the devices that change  *)
(* it are those of ProjectStore, statement by statement.                   *)
(***************************************************************************)
EXTENDS ProjectStore, Integers

CONSTANTS
  MaxProjects,  \* bound: the projects are numbered up to it
  Stages,       \* the stages that projects are given
  StageOf,      \* the stage among the required cells
  MeetsOf,      \* whether they meet the other conditions of a report
  TriggerRows,  \* the rows the triggers tell apart
  RowOf,        \* the one of the required and the optional cells
  Quiet         \* a row without a trigger: no project, no row

ASSUME ReadersAssumption ==
  /\ MaxProjects \in Nat /\ ProjectId = 1..MaxProjects
  /\ "none" \notin Stages
  /\ StageOf \in [Contents -> Stages] /\ MeetsOf \in [Contents -> BOOLEAN]
  /\ RowOf \in [Contents \X Contents -> TriggerRows] /\ Quiet \in TriggerRows

-----------------------------------------------------------------------------
(* The reports: the columns of the project row that their conditions ask   *)
(* for, and which of the rows that they join with are there.               *)

JoinedRows == {"manager", "supervisor", "closeout"}

SeenByReports(s) ==
  IF s.required = NULL
  THEN [stage |-> "none", meets |-> FALSE, has |-> {}]
  ELSE [stage |-> StageOf[s.required], meets |-> MeetsOf[s.required],
        has |-> {part \in JoinedRows : s[part] # NULL}]

ReportTable == [p \in ProjectId |-> SeenByReports(Stored(p))]

(* Reports, with its screens at the criteria: only its table changes.      *)
Report == INSTANCE Reports WITH
  Meets <- BOOLEAN, Chosen <- {}, table <- ReportTable,
  screen <- "criteria", report <- "none", type <- "Active",
  results <- <<>>, managers <- <<>>, supervisors <- <<>>, grid <- <<>>,
  ragged <- FALSE, moved <- FALSE

(* AUTO_INCREMENT gives a new project the next number; ProjectStore lets   *)
(* it have any that is free.                                               *)
NumbersAscend ==
  \A p, q \in ProjectId :
    project[p] = NULL /\ project'[p] # NULL /\ q < p => project[q] # NULL

OthersOfReports ==
  \E p \in ProjectId :
    \/ \E s \in Stages, m \in BOOLEAN : Report!CreateProject(p, s, m) \/ Report!EditProject(p, s, m)
    \/ Report!InsertPart(p)

(* What Reports takes for a step of the other devices is what a statement  *)
(* of a creation or a save, of a device that may die before the next one,  *)
(* does to the rows the reports read: nothing, or one project appears, is  *)
(* joined by the next of its rows, or is given another stage.  The safety  *)
(* of the reports, proved of Reports, rests on it.                         *)
FeedsReports == [][NumbersAscend => OthersOfReports]_ReportTable

-----------------------------------------------------------------------------
(* The triggers: columns of the project row alone.                         *)

SeenByTriggers(s) ==
  IF s.required = NULL THEN Quiet ELSE RowOf[<<s.required, s.optional>>]

TriggerTable == [p \in ProjectId |-> SeenByTriggers(Stored(p))]

(* Triggers, with its screen away and its clock at rest.                   *)
Watch == INSTANCE Triggers WITH
  Projects <- ProjectId, Rows <- TriggerRows, NoDate <- NULL, LastDay <- 0,
  today <- 0, rows <- TriggerTable, pc <- "away",
  info <- {}, warning <- {}, severe <- {},
  opened <- <<>>, openedDay <- 0, eased <- {}, raised <- {}, crossed <- FALSE

(* Every statement of a device is, for the triggers, the save of one whole *)
(* row of one project, or nothing: they never see half of a row.           *)
FeedsTriggers == [][\E p \in ProjectId, r \in TriggerRows : Watch!Save(p, r)]_TriggerTable
=============================================================================
