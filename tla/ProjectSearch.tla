--------------------------- MODULE ProjectSearch ---------------------------
(***************************************************************************)
(* The search screen.  Each time it appears it loads the warehouses and    *)
(* the project stages and forgets the criteria; the two text fields, which *)
(* show what was picked, are only cleared when a project is opened.  A     *)
(* picked row is turned into its name and the name back into the id of the *)
(* first row of that name.  A search lists the projects of the two ids     *)
(* under the texts of the fields.                                          *)
(*                                                                         *)
(* The screen appears from the menu, when the user comes back from a       *)
(* project, and when the user begins to swipe back and lets go.            *)
(*                                                                         *)
(* Names and stages are kept by others while the screen is up: rows are    *)
(* added and renamed, and projects move.                                   *)
(***************************************************************************)
EXTENDS Naturals, FiniteSets

CONSTANTS
    RowID,      \* ids of warehouses and of stages
    Name,       \* full names of warehouses, names of stages
    Project,    \* the projects
    None        \* no row, no criterion, an empty text field, no project

ASSUME NoneAssumption == None \notin RowID \cup Name \cup Project

\* The two criteria: WAREHOUSE_INDEX and STAGE_INDEX.
Criterion == {"warehouse", "stage"}

VARIABLES
    rows,       \* the tables: the name of each id, None where there is no row
    home,       \* the warehouse and the stage of each project
    screen,     \* where the user is
    lists,      \* warehouseArray and projectStageArray of the helper
    criteria,   \* searchCriteria
    field,      \* the texts of the two fields
    found,      \* availableProjectID
    projectID,  \* the project to open
    meant,      \* ghost: the row the user pointed at for each criterion
    origin,     \* ghost: where the projects found were when they were found
    swiped      \* ghost: a swipe was let go since the fields were last cleared

database == <<rows, home>>
controls == <<lists, criteria, field, found, projectID>>
ghosts == <<meant, origin, swiped>>
vars == <<rows, home, screen, lists, criteria, field, found, projectID,
          meant, origin, swiped>>

Screens == {"menu", "warehouses", "stages", "ready", "query", "choose",
            "project", "down"}

Empty == [k \in Criterion |-> None]
NoRows == [k \in Criterion |-> [i \in RowID |-> None]]

\* The rows a list shows, and the rows of one name.
Listed(k) == {i \in RowID : lists[k][i] # None}
Namesakes(k, name) == {i \in Listed(k) : lists[k][i] = name}

TypeOK ==
    /\ rows \in [Criterion -> [RowID -> Name \cup {None}]]
    /\ home \in [Project -> [Criterion -> RowID]]
    /\ screen \in Screens
    /\ lists \in [Criterion -> [RowID -> Name \cup {None}]]
    /\ criteria \in [Criterion -> RowID \cup {None}]
    /\ field \in [Criterion -> Name \cup {None}]
    /\ found \subseteq Project
    /\ projectID \in Project \cup {None}
    /\ meant \in [Criterion -> RowID \cup {None}]
    /\ origin \in [Project -> [Criterion -> RowID]]
    /\ swiped \in BOOLEAN

\* A project has a warehouse and a stage that exist.
Init ==
    /\ rows \in [Criterion -> [RowID -> Name \cup {None}]]
    /\ home \in [Project -> [Criterion -> RowID]]
    /\ \A p \in Project, k \in Criterion : rows[k][home[p][k]] # None
    /\ screen = "menu"
    /\ lists = NoRows
    /\ criteria = Empty /\ field = Empty
    /\ found = {} /\ projectID = None
    /\ meant = Empty
    /\ origin = home
    /\ swiped = FALSE

-----------------------------------------------------------------------------
(* The screen appears.  The new helper takes the place of the old one when   *)
(* both lists are loaded; nothing looks at a list before that.              *)

\* viewDidAppear: from the menu, or back from a project.
Appear ==
    /\ screen \in {"menu", "project"}
    /\ screen' = "warehouses"
    /\ UNCHANGED <<database, controls, ghosts>>

\* The user begins to swipe back and lets go: the screen appears again.
SwipeLetGo ==
    /\ screen = "ready"
    /\ screen' = "warehouses"
    /\ swiped' = TRUE
    /\ UNCHANGED <<database, controls, meant, origin>>

\* initializeWarehouseArrays
LoadWarehouses ==
    /\ screen = "warehouses"
    /\ lists' = [lists EXCEPT !["warehouse"] = rows["warehouse"]]
    /\ screen' = "stages"
    /\ UNCHANGED <<database, criteria, field, found, projectID, ghosts>>

\* Mutant of LoadStages: the criteria survive the new appearance.
LoadStagesKeepingCriteria ==
    /\ screen = "stages"
    /\ lists' = [lists EXCEPT !["stage"] = rows["stage"]]
    /\ screen' = "ready"
    /\ UNCHANGED <<database, criteria, field, found, projectID, ghosts>>

\* initializeProjectStageArrays, and the rest of viewDidAppear.
LoadStages ==
    /\ screen = "stages"
    /\ lists' = [lists EXCEPT !["stage"] = rows["stage"]]
    /\ criteria' = Empty
    /\ meant' = Empty
    /\ screen' = "ready"
    /\ UNCHANGED <<database, field, found, projectID, origin, swiped>>

\* A query or the connection fails: the exception ends the process.
QueryRaises ==
    /\ screen \in {"warehouses", "stages", "query"}
    /\ screen' = "down"
    /\ UNCHANGED <<database, controls, ghosts>>

\* The controller is gone, and the screen with it.
Gone ==
    /\ screen' = "menu"
    /\ lists' = NoRows
    /\ criteria' = Empty /\ field' = Empty
    /\ found' = {} /\ projectID' = None
    /\ meant' = Empty
    /\ swiped' = FALSE
    /\ UNCHANGED <<database, origin>>

Back == screen = "ready" /\ Gone
Relaunch == screen = "down" /\ Gone

-----------------------------------------------------------------------------
(* The pickers and the search. *)

\* rowIDOfWarehouseFromFullName, rowIDOfProjectStageFromName: the first row of
\* the name; which one that is depends on the order of the rows alone.
RowIDOf(k, name) == CHOOSE i \in Namesakes(k, name) : TRUE

\* Mutant of Pick: the index in the array taken for the id of the row.
PickIndex(k, i) ==
    /\ screen = "ready"
    /\ i \in Listed(k)
    /\ field' = [field EXCEPT ![k] = lists[k][i]]
    /\ criteria' = [criteria EXCEPT ![k] = Cardinality({j \in Listed(k) : j < i})]
    /\ meant' = [meant EXCEPT ![k] = i]
    /\ UNCHANGED <<database, screen, lists, found, projectID, origin, swiped>>

\* warehousePicked, projectStagePicked
Pick(k, i) ==
    /\ screen = "ready"
    /\ i \in Listed(k)
    /\ field' = [field EXCEPT ![k] = lists[k][i]]
    /\ criteria' = [criteria EXCEPT ![k] = RowIDOf(k, lists[k][i])]
    /\ meant' = [meant EXCEPT ![k] = i]
    /\ UNCHANGED <<database, screen, lists, found, projectID, origin, swiped>>

IsSearchCriteriaValid == \A k \in Criterion : criteria[k] # None

\* searchForProject with valid criteria; otherwise an alert and nothing else.
SearchForProject ==
    /\ screen = "ready"
    /\ IsSearchCriteriaValid
    /\ screen' = "query"
    /\ UNCHANGED <<database, controls, ghosts>>

\* Mutant of QueryProjects: the condition on the stage is missing.
QueryProjectsOfWarehouse ==
    /\ screen = "query"
    /\ LET hits == {p \in Project : home[p]["warehouse"] = criteria["warehouse"]}
       IN  IF hits = {} THEN screen' = "ready" /\ UNCHANGED found
                        ELSE screen' = "choose" /\ found' = hits
    /\ origin' = home
    /\ UNCHANGED <<database, lists, criteria, field, projectID, meant, swiped>>

\* availableProjectsForWarehouseID:andProjectStageID:, an alert with a button
\* for every project, or one that says there are none.
QueryProjects ==
    /\ screen = "query"
    /\ LET hits == {p \in Project : home[p] = criteria}
       IN  IF hits = {} THEN screen' = "ready" /\ UNCHANGED found
                        ELSE screen' = "choose" /\ found' = hits
    /\ origin' = home
    /\ UNCHANGED <<database, lists, criteria, field, projectID, meant, swiped>>

\* Mutant of ChooseProject: the fields keep their texts.
ChooseProjectKeepingFields(p) ==
    /\ screen = "choose" /\ p \in found
    /\ projectID' = p
    /\ swiped' = FALSE
    /\ screen' = "project"
    /\ UNCHANGED <<database, lists, criteria, field, found, meant, origin>>

\* A button of the alert: the fields are cleared and the project opens.
ChooseProject(p) ==
    /\ screen = "choose" /\ p \in found
    /\ projectID' = p
    /\ field' = Empty
    /\ swiped' = FALSE
    /\ screen' = "project"
    /\ UNCHANGED <<database, lists, criteria, found, meant, origin>>

-----------------------------------------------------------------------------
(* Others. *)

\* A row is added, or gets another name.
NameRow(k, i, name) ==
    /\ rows' = [rows EXCEPT ![k][i] = name]
    /\ UNCHANGED <<home, screen, controls, ghosts>>

\* A device saves another warehouse or stage for a project.
MoveProject(p, k, i) ==
    /\ rows[k][i] # None
    /\ home' = [home EXCEPT ![p][k] = i]
    /\ UNCHANGED <<rows, screen, controls, ghosts>>

Next ==
    \/ Appear
    \/ SwipeLetGo
    \/ LoadWarehouses
    \/ LoadStages
    \/ QueryRaises
    \/ Back
    \/ Relaunch
    \/ \E k \in Criterion, i \in RowID : Pick(k, i)
    \/ SearchForProject
    \/ QueryProjects
    \/ \E p \in Project : ChooseProject(p)
    \/ \E k \in Criterion, i \in RowID, name \in Name : NameRow(k, i, name)
    \/ \E p \in Project, k \in Criterion, i \in RowID : MoveProject(p, k, i)

Spec == Init /\ [][Next]_vars

-----------------------------------------------------------------------------
(* Properties. *)

\* The projects offered were, when they were found, at the warehouse and in the
\* stage whose names stand in the fields and on the buttons: no reload of the
\* lists, renaming or move in between parts the ids of the criteria from the
\* names on the screen.
FoundUnderTheirName ==
    screen = "choose" =>
        \A p \in found, k \in Criterion : lists[k][origin[p][k]] = field[k]

\* A criterion is the row the user pointed at, or one of the same name: rows of
\* one name are the only ones that the way through the name can confuse.
OnlyNamesakesConfused ==
    screen \in {"ready", "query", "choose"} => \A k \in Criterion :
        criteria[k] # None =>
            /\ meant[k] # None
            /\ criteria[k] # meant[k] => lists[k][criteria[k]] = lists[k][meant[k]]

\* A field that shows a name stands for a criterion, so that a search is not
\* refused for want of what the screen shows; a swipe that was let go is the one
\* way to part them.
FilledFieldsCount ==
    screen = "ready" /\ ~swiped =>
        \A k \in Criterion : field[k] # None => criteria[k] # None
=============================================================================
