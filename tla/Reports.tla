------------------------------- MODULE Reports -------------------------------
(***************************************************************************)
(* The report screens.  The user picks a report and one of five types; the *)
(* report screen runs one query for the projects and, for most reports,    *)
(* one for the managers and one for the supervisors, then joins the three  *)
(* results by position into the rows of a grid, whose columns are named by *)
(* a list of headers kept elsewhere.  Other devices create and edit        *)
(* projects between the queries.                                           *)
(*                                                                         *)
(* Columns are named by what they show.  Projects are numbered by id; the  *)
(* person a people query returns stands for the project it was joined      *)
(* with, so that a row can be seen to mix two projects.  MySQL promises no *)
(* order without ORDER BY; the model takes the order of the primary key,   *)
(* the order that is kindest to the code.                                  *)
(***************************************************************************)
EXTENDS Naturals, Sequences, FiniteSets, Functions

CONSTANTS
    MaxProjects,    \* bound: how many projects are ever created
    Stages,         \* the stages projects are given, among the report types
    Meets,          \* whether they meet a report's other conditions: TRUE, FALSE
    Chosen          \* bound: the <<report, type>> pairs the user asks for

Types == {"Active", "Proposal", "Budgetary", "Inactive", "Closed"}
ReportNames == {"Weekly", "SteveMeyer", "SouthEast", "NorthEast", "JDempsey",
                "Invoice", "Completed", "Construction", "Repair"}

ASSUME ReportAssumption ==
    /\ MaxProjects \in Nat
    /\ Stages \subseteq Types
    /\ Meets \subseteq BOOLEAN
    /\ Chosen \subseteq ReportNames \X Types

-----------------------------------------------------------------------------
(* Sequences of columns that several lists have in common. *)

Full == <<"mcs", "stage", "warehouse", "item", "scope", "class", "manager",
          "supervisor", "region", "status", "start", "turnover", "actual",
          "type", "asBuilts", "punchList", "alarmForm", "airGas", "permits",
          "verisae", "invoiced", "should", "notes">>
Tender == <<"stage", "warehouse", "item", "scope", "class", "manager",
            "supervisor", "region", "status", "initiated", "survey", "due",
            "submitted", "type", "notes">>
Brief == <<"stage", "item", "scope", "status">>
Closing == <<"mcs", "stage", "warehouse", "item", "scope", "manager",
             "supervisor", "region", "status", "initiated", "type", "due",
             "submitted", "start", "turnover", "asBuilts", "punchList",
             "alarmForm", "airGas", "permits", "should", "invoiced", "notes">>
Assigned == <<"mcs", "warehouse", "item", "scope", "class", "manager",
              "supervisor", "region", "status", "start", "turnover">>
Cooling == <<"warehouse", "item", "scope", "region", "status", "application",
             "start", "turnover", "asBuilts", "alarmForm", "notes">>
Billing == <<"mcs", "warehouse", "item", "class", "start", "turnover",
             "invoiced", "should", "notes">>

-----------------------------------------------------------------------------
(* The headers, report by report: initialize...ReportHeaders. *)

WeeklyHeads == [Active |-> Full, Proposal |-> Tender, Budgetary |-> Tender,
                Inactive |-> Brief, Closed |-> Closing]
SteveMeyerHeads ==
    [Active |-> Assigned,
     Proposal |-> <<"region", "item", "warehouse", "scope", "class", "manager",
                    "supervisor", "status", "initiated", "submitted">>]
SouthEastHeads ==
    [Active |-> Cooling,
     Proposal |-> <<"warehouse", "item", "scope", "region", "status",
                    "application", "initiated", "due", "submitted", "notes">>]
NorthEastHeads == [Active |-> Cooling, Proposal |-> Cooling]
JDempseyHeads ==
    [Active |-> Assigned,
     Proposal |-> <<"warehouse", "item", "scope", "class", "manager",
                    "supervisor", "region", "status", "initiated", "submitted">>]
InvoiceHeads == [Active |-> Billing, Proposal |-> Billing]
CompletedHeads ==
    [Active |-> <<"mcs", "warehouse", "item", "scope", "region", "start",
                  "turnover", "asBuilts", "punchList", "alarmForm", "permits",
                  "should", "invoiced", "notes">>]
ConstructionHeads == [Active |-> Full]
RepairHeads ==
    [Active |-> <<"mcs", "stage", "warehouse", "item", "scope", "class",
                  "manager", "supervisor", "region", "status", "start",
                  "turnover", "actual", "type", "asBuilts", "alarmForm",
                  "airGas", "permits", "verisae", "invoiced", "should",
                  "notes">>]

-----------------------------------------------------------------------------
(* The cells, report by report: what fetch...ReportWithReportType adds to a *)
(* row, in that order.                                                      *)

WeeklyCells == [Active |-> Full, Proposal |-> Tender, Budgetary |-> Tender,
                Inactive |-> Brief, Closed |-> Closing]
SteveMeyerCells ==
    [Active |-> Assigned,
     Proposal |-> <<"region", "item", "warehouse", "scope", "class", "manager",
                    "supervisor", "status", "initiated", "submitted">>]
SouthEastCells ==
    [Active |-> <<"warehouse", "item", "scope", "region", "status", "start",
                  "turnover", "asBuilts", "alarmForm", "notes">>,
     Proposal |-> <<"warehouse", "item", "scope", "region", "status",
                    "application", "initiated", "due", "submitted", "notes">>]
NorthEastCells == [Active |-> Cooling, Proposal |-> Cooling]
JDempseyCells ==
    [Active |-> Assigned,
     Proposal |-> <<"warehouse", "item", "scope", "class", "manager",
                    "supervisor", "region", "status", "initiated", "submitted">>]
\* Mutant of InvoiceCells: the two percentages in the order of the closed report.
InvoiceCellsSwapped ==
    [Active |-> Billing,
     Proposal |-> <<"mcs", "warehouse", "item", "class", "start", "turnover",
                    "should", "invoiced", "notes">>]
InvoiceCells == [Active |-> Billing, Proposal |-> Billing]

CompletedCells ==
    [Active |-> <<"mcs", "warehouse", "item", "scope", "region", "start",
                  "turnover", "asBuilts", "punchList", "alarmForm", "permits",
                  "should", "invoiced", "notes">>]

ConstructionCells == [Active |-> Full]
RepairCells == [Active |-> Full]

-----------------------------------------------------------------------------

Heads == [Weekly |-> WeeklyHeads, SteveMeyer |-> SteveMeyerHeads,
          SouthEast |-> SouthEastHeads, NorthEast |-> NorthEastHeads,
          JDempsey |-> JDempseyHeads, Invoice |-> InvoiceHeads,
          Completed |-> CompletedHeads, Construction |-> ConstructionHeads,
          Repair |-> RepairHeads]
Cells == [Weekly |-> WeeklyCells, SteveMeyer |-> SteveMeyerCells,
          SouthEast |-> SouthEastCells, NorthEast |-> NorthEastCells,
          JDempsey |-> JDempseyCells, Invoice |-> InvoiceCells,
          Completed |-> CompletedCells, Construction |-> ConstructionCells,
          Repair |-> RepairCells]

ActiveOnly == {"Completed", "Construction", "Repair"}

\* The headers the screen takes: none (nil, no columns) for a type its switch
\* does not name.
HeadersOf(r, t) ==
    IF r \in ActiveOnly THEN Heads[r].Active
    ELSE IF t \in DOMAIN Heads[r] THEN Heads[r][t] ELSE <<>>

\* The branch of fetch...ReportWithReportType that runs: the weekly report has
\* one for each type, three ignore the type, and the others have an if and an
\* else.
Branch(r, t) ==
    IF r \in ActiveOnly THEN "Active"
    ELSE IF r = "Weekly" \/ t = "Active" THEN t
    ELSE "Proposal"

CellsOf(r, t) == Cells[r][Branch(r, t)]

\* The reports with the two people queries, and those whose project query
\* joins the closeout row.
WithPeople(r, t) == "manager" \in Range(CellsOf(r, t))
WithCloseout(r, t) == "asBuilts" \in Range(CellsOf(r, t))

\* Mutant of Refused: the budgetary type let through.
RefusedLax(r, t) ==
    \/ r \in {"SteveMeyer", "SouthEast", "NorthEast", "JDempsey", "Invoice"}
       /\ t \in {"Closed", "Inactive"}
    \/ r \in ActiveOnly /\ t # "Active"
\* The combinations generateReport answers with an alert.
Refused(r, t) ==
    \/ r \in {"SteveMeyer", "SouthEast", "NorthEast", "JDempsey", "Invoice"}
       /\ t \in {"Closed", "Inactive", "Budgetary"}
    \/ r \in ActiveOnly /\ t # "Active"

-----------------------------------------------------------------------------

VARIABLES
    table,          \* the projects: stage, whether region, type and status are
                    \* those the reports ask for, and the rows they have
    screen,         \* where the report screens are
    report, type,   \* the criteria
    results,        \* the project query, as a sequence of [id, stage]
    managers,       \* the manager query, as the ids of the joined projects
    supervisors,    \* the supervisor query, likewise
    grid,           \* the rows: [id, stage, manager, supervisor]
    ragged,         \* ghost: the project query met a project without all rows
    moved           \* ghost: an edit moved a project in or out during the load

queried == <<results, managers, supervisors>>
criteria == <<report, type>>
vars == <<table, screen, report, type, results, managers, supervisors, grid,
          ragged, moved>>

Ids == 1..MaxProjects
Parts == {"manager", "supervisor", "closeout"}
Loading == {"projects", "managers", "supervisors", "rows"}
Screens == {"criteria", "draw", "grid", "failed", "crashed"} \cup Loading

Absent == [stage |-> "none", meets |-> FALSE, has |-> {}]

\* The WHERE clause the three queries of a report share.
Wanted(p) == table[p].meets /\ table[p].stage = Branch(report, type)

\* Rows in the order of the primary key: the i-th has i - 1 rows before it.
Before(S, p) == {q \in S : q < p}
InOrder(S) ==
    [i \in 1..Cardinality(S) |-> CHOOSE p \in S : Cardinality(Before(S, p)) = i - 1]

Init ==
    /\ table = [p \in Ids |-> Absent]
    /\ screen = "criteria"
    /\ report = "none" /\ type = "Active"
    /\ results = <<>> /\ managers = <<>> /\ supervisors = <<>> /\ grid = <<>>
    /\ ragged = FALSE /\ moved = FALSE

-----------------------------------------------------------------------------
(* The criteria screen. *)

PickReport(r) ==
    /\ screen = "criteria"
    /\ report' = r
    /\ UNCHANGED <<table, screen, type, queried, grid, ragged, moved>>

\* A type button: the criteria are refused with an alert, or the report screen
\* appears, a new controller with nothing in it.
Generate(t) ==
    /\ screen = "criteria"
    /\ type' = t
    /\ screen' = IF report = "none" \/ Refused(report, t) THEN screen ELSE "projects"
    /\ UNCHANGED <<table, report, queried, grid, ragged, moved>>

-----------------------------------------------------------------------------
(* The report screen. *)

QueryProjects ==
    /\ screen = "projects"
    /\ LET found == {p \in Ids : Wanted(p) /\ (WithCloseout(report, type) =>
                                                 "closeout" \in table[p].has)}
       IN  results' = [i \in 1..Cardinality(found) |->
                         [id |-> InOrder(found)[i], stage |-> table[InOrder(found)[i]].stage]]
    /\ ragged' = \E p \in Ids : Wanted(p) /\ table[p].has # Parts
    /\ screen' = IF WithPeople(report, type) THEN "managers" ELSE "rows"
    /\ UNCHANGED <<table, criteria, managers, supervisors, grid, moved>>

\* Mutant of QueryManagers: the condition on the stage forgotten.
QueryManagersOfAll ==
    /\ screen = "managers"
    /\ managers' = InOrder({p \in Ids : table[p].meets /\ "manager" \in table[p].has})
    /\ screen' = "supervisors"
    /\ UNCHANGED <<table, criteria, results, supervisors, grid, ragged, moved>>

QueryManagers ==
    /\ screen = "managers"
    /\ managers' = InOrder({p \in Ids : Wanted(p) /\ "manager" \in table[p].has})
    /\ screen' = "supervisors"
    /\ UNCHANGED <<table, criteria, results, supervisors, grid, ragged, moved>>

\* Mutant of QuerySupervisors: the condition on the stage is that of another
\* branch.
QuerySupervisorsOfProposal ==
    /\ screen = "supervisors"
    /\ supervisors' = InOrder({p \in Ids : /\ table[p].meets
                                           /\ table[p].stage = "Proposal"
                                           /\ "supervisor" \in table[p].has})
    /\ screen' = "rows"
    /\ UNCHANGED <<table, criteria, results, managers, grid, ragged, moved>>
\* Mutant of QuerySupervisors: an outer join, with no person (0) where a
\* project has no supervisor.
QuerySupervisorsOuter ==
    /\ screen = "supervisors"
    /\ LET all == InOrder({p \in Ids : Wanted(p)})
       IN  supervisors' = [i \in DOMAIN all |->
                             IF "supervisor" \in table[all[i]].has THEN all[i] ELSE 0]
    /\ screen' = "rows"
    /\ UNCHANGED <<table, criteria, results, managers, grid, ragged, moved>>
QuerySupervisors ==
    /\ screen = "supervisors"
    /\ supervisors' = InOrder({p \in Ids : Wanted(p) /\ "supervisor" \in table[p].has})
    /\ screen' = "rows"
    /\ UNCHANGED <<table, criteria, results, managers, grid, ragged, moved>>

\* The loop that joins the results by position: objectAtIndex: raises when a
\* people query has returned fewer rows than the project query.
Short == Len(managers) < Len(results) \/ Len(supervisors) < Len(results)

BuildRows ==
    /\ screen = "rows"
    /\ ~(WithPeople(report, type) /\ Short)
    /\ grid' = [i \in DOMAIN results |->
                  [id |-> results[i].id, stage |-> results[i].stage,
                   manager |-> IF WithPeople(report, type) THEN managers[i] ELSE 0,
                   supervisor |-> IF WithPeople(report, type) THEN supervisors[i] ELSE 0]]
    /\ screen' = "draw"
    /\ UNCHANGED <<table, criteria, queried, ragged, moved>>

RowIndexRaises ==
    /\ screen = "rows"
    /\ WithPeople(report, type) /\ Short
    /\ screen' = "crashed"
    /\ UNCHANGED <<table, criteria, queried, grid, ragged, moved>>

\* A cell is asked for every row and every header: objectAtIndex: raises when
\* the row is shorter than the headers.
TooNarrow == grid # <<>> /\ Len(HeadersOf(report, type)) > Len(CellsOf(report, type))

DrawCells ==
    /\ screen = "draw"
    /\ screen' = IF TooNarrow THEN "crashed" ELSE "grid"
    /\ UNCHANGED <<table, criteria, queried, grid, ragged, moved>>

Back ==
    /\ screen = "grid"
    /\ screen' = "criteria"
    /\ results' = <<>> /\ managers' = <<>> /\ supervisors' = <<>> /\ grid' = <<>>
    /\ ragged' = FALSE /\ moved' = FALSE
    /\ UNCHANGED <<table, criteria>>

\* A query or the connection fails: the exception ends the application.
QueryFails ==
    /\ screen \in {"projects", "managers", "supervisors"}
    /\ screen' = "failed"
    /\ UNCHANGED <<table, criteria, queried, grid, ragged, moved>>

Relaunch ==
    /\ screen \in {"failed", "crashed"}
    /\ screen' = "criteria"
    /\ report' = "none" /\ type' = "Active"
    /\ results' = <<>> /\ managers' = <<>> /\ supervisors' = <<>> /\ grid' = <<>>
    /\ ragged' = FALSE /\ moved' = FALSE
    /\ UNCHANGED table

-----------------------------------------------------------------------------
(* Other devices.  A creation inserts its rows in this order and may stop    *)
(* for good between any two.                                                *)

world == <<screen, criteria, queried, grid, ragged>>

CreateProject(p, s, m) ==
    /\ table[p].stage = "none"
    /\ \A q \in Ids : q < p => table[q].stage # "none"
    /\ table' = [table EXCEPT ![p] = [stage |-> s, meets |-> m, has |-> {}]]
    /\ UNCHANGED <<world, moved>>

InsertPart(p) ==
    /\ table[p].stage # "none"
    /\ \E part \in Parts \ table[p].has :
         /\ part = "supervisor" => "manager" \in table[p].has
         /\ part = "closeout" => "supervisor" \in table[p].has
         /\ table' = [table EXCEPT ![p].has = @ \cup {part}]
    /\ UNCHANGED <<world, moved>>

\* An edit gives the project another stage, region, type or status.
EditProject(p, s, m) ==
    /\ table[p].stage # "none"
    /\ table' = [table EXCEPT ![p].stage = s, ![p].meets = m]
    /\ UNCHANGED world
    /\ moved' = (moved \/ (screen \in Loading /\ Wanted(p) # Wanted(p)'))

Next ==
    \/ \E c \in Chosen : PickReport(c[1])
    \/ \E c \in Chosen : report \in {"none", c[1]} /\ Generate(c[2])
    \/ QueryProjects
    \/ QueryManagers
    \/ QuerySupervisors
    \/ BuildRows
    \/ RowIndexRaises
    \/ DrawCells
    \/ Back
    \/ QueryFails
    \/ Relaunch
    \/ \E p \in Ids, s \in Stages, m \in Meets : CreateProject(p, s, m)
    \/ \E p \in Ids : InsertPart(p)
    \/ \E p \in Ids, s \in Stages, m \in Meets : EditProject(p, s, m)

Spec == Init /\ [][Next]_vars

-----------------------------------------------------------------------------
(* Properties. *)

TypeOK ==
    /\ table \in [Ids -> [stage : Stages \cup {"none"}, meets : BOOLEAN,
                          has : SUBSET Parts]]
    /\ screen \in Screens
    /\ report \in ReportNames \cup {"none"}
    /\ type \in Types
    /\ results \in Seq([id : Ids, stage : Stages])
    /\ managers \in Seq(Ids)
    /\ supervisors \in Seq(Ids)
    /\ grid \in Seq([id : Ids, stage : Stages, manager : 0..MaxProjects,
                     supervisor : 0..MaxProjects])
    /\ ragged \in BOOLEAN /\ moved \in BOOLEAN

Drawn == screen \in {"draw", "grid"}

\* A row shows the manager and the supervisor of its own project.  The three
\* queries are joined by position alone, so this needs that every project the
\* report wants had all its rows when the first query ran, and that no edit
\* moved one in or out since; creations in between do no harm, because a new
\* project comes last in every query.
OwnPeople ==
    Drawn /\ ~ragged /\ ~moved /\ WithPeople(report, type) =>
      \A i \in DOMAIN grid : grid[i].manager = grid[i].id /\ grid[i].supervisor = grid[i].id

\* The active report of the south east has eleven headers over rows of ten
\* cells: permitApplication is selected and never added.
MissesCell == <<report, type>> = <<"SouthEast", "Active">>

\* The joining loop and the drawing of the cells index past the end of an array,
\* and end the application, only if a project had not all its rows when the
\* first query ran, or an edit moved one in or out during the load, or the
\* report is the one whose rows miss a cell.
CrashesOnlyOnRaggedData == screen = "crashed" => ragged \/ moved \/ MissesCell

\* Every header stands over the cell it names, for every report but one: the
\* headers of initialize...ReportHeaders and the cells that
\* fetch...ReportWithReportType adds are listed in two files.  The repair report
\* has no header for the punch list: from there on the cells stand one column
\* too far to the left.
HeadersMatch ==
    screen = "grid" /\ grid # <<>> =>
        (HeadersOf(report, type) = CellsOf(report, type) <=> report # "Repair")

\* The report lists projects of the stage the user asked for, although half the
\* reports fall through to their proposal branch for every other type.
TitleTrue == Drawn => \A i \in DOMAIN grid : grid[i].stage = type

\* What projectInformationForReport documents: each index of the outer array
\* is a project.
RowIsOneProject ==
    Drawn /\ WithPeople(report, type) =>
      \A i \in DOMAIN grid : grid[i].manager = grid[i].id /\ grid[i].supervisor = grid[i].id
=============================================================================
