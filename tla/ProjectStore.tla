---------------------------- MODULE ProjectStore ----------------------------
(***************************************************************************)
(* The project tables of the shared MySQL database and the devices (iPads) *)
(* that create, open, edit and save projects in it.                        *)
(*                                                                         *)
(* Every statement is its own autocommitted action: DatabaseConnector      *)
(* never opens a transaction, so the statements of two devices interleave  *)
(* and a device may die between any two of its own.                        *)
(*                                                                         *)
(* The 33 cells of a project are grouped by the row (and the query) that   *)
(* carries them: "required" and "optional" are two groups of columns of    *)
(* the project row, which are read by two different queries and written by *)
(* one statement.                                                          *)
(***************************************************************************)
EXTENDS Functions

CONSTANTS
  Device,       \* the iPads running the app
  ProjectId,    \* AUTO_INCREMENT ids of project
  SalvageId,    \* AUTO_INCREMENT ids of salvagevalue
  CloseoutId,   \* AUTO_INCREMENT ids of closeoutdetails
  Value,        \* what a user can enter in a group of cells
  Blank,        \* an untouched group: NSNull cells, a salvage amount of 0
  Unset,        \* a salvage row with neither a date nor an amount
  NULL,         \* no row, no id
  CellGroups,   \* bound: the sets of groups a user fills in at once
  Creators,     \* bound: the devices whose users create projects
  Editors,      \* bound: the devices whose users edit projects
  Existing,     \* complete projects stored before the first step
  WithoutSalvage, \* those of Existing whose closeout has no salvage row
  Unpriced      \* those of Existing whose salvage row is Unset

Contents == Value \cup {Blank, Unset}
Part == {"required", "manager", "supervisor", "optional", "closeout", "salvage"}
RequiredPart == {"required", "manager", "supervisor"}

ASSUME ValueAssumption ==
  /\ Blank \notin Value
  /\ Unset \notin Value \cup {Blank}
  /\ NULL \notin Contents \cup ProjectId \cup SalvageId \cup CloseoutId
ASSUME RowAssumption ==
  /\ NULL \notin [required : Contents, optional : Contents,
                  closeoutDetails_id : CloseoutId \cup {NULL}]
  /\ NULL \notin [details : Contents, salvageValue_id : SalvageId \cup {NULL}]
ASSUME ExistingAssumption ==
  /\ Value # {}
  /\ CellGroups \subseteq SUBSET Part
  /\ Existing \subseteq ProjectId
  /\ WithoutSalvage \subseteq Existing
  /\ Unpriced \subseteq Existing \ WithoutSalvage

ProjectRow  == [required : Contents, optional : Contents,
                closeoutDetails_id : CloseoutId \cup {NULL}]
CloseoutRow == [details : Contents, salvageValue_id : SalvageId \cup {NULL}]

VARIABLES
  project,              \* table project
  project_managers,     \* table project_managers, by project_id
  project_supervisors,  \* table project_supervisors, by project_id
  salvagevalue,         \* table salvagevalue
  closeoutdetails,      \* table closeoutdetails
  pc,                   \* the statement a device is about to execute, or its screen
  projectID,            \* the project a device has on screen (or is creating)
  cellArray,            \* the cells on screen, by group
  salvageID,            \* salvageRowID / salvageID of the running save
  closeoutID,           \* closeoutdetailsRowID / closeoutID of the running save
  didHaveSalvageInDatabase,
  outcome,              \* how the device's last load or save ended
  touched               \* history: did another device write my project since
                        \* I began to load or save it?

tables  == <<project, project_managers, project_supervisors, salvagevalue,
             closeoutdetails>>
screen  == <<projectID, cellArray, didHaveSalvageInDatabase>>
scratch == <<salvageID, closeoutID>>
otherThanProject     == <<project_managers, project_supervisors, salvagevalue, closeoutdetails>>
otherThanManagers    == <<project, project_supervisors, salvagevalue, closeoutdetails>>
otherThanSupervisors == <<project, project_managers, salvagevalue, closeoutdetails>>
otherThanSalvage     == <<project, project_managers, project_supervisors, closeoutdetails>>
otherThanCloseout    == <<project, project_managers, project_supervisors, salvagevalue>>
vars    == <<tables, pc, screen, scratch, outcome, touched>>

CreateStep == {"insertProject", "insertManager", "insertSupervisor",
               "insertSalvage", "insertCloseout", "linkCloseout"}
FetchStep  == {"fetchRequired", "fetchManager", "fetchSupervisor",
               "fetchOptional", "fetchSalvage"}
UpdateStep == {"updateProject", "updateManager", "updateSupervisor",
               "selectSalvage", "updateSalvage",
               "insertNewSalvage", "selectLink", "linkSalvage",
               "selectCloseout", "updateCloseout"}
Busy   == CreateStep \cup FetchStep \cup UpdateStep
Screen == {"menu", "form", "viewing", "editing", "down"}
Outcome == {"none", "loaded", "success", "failed", "refused", "raised"}

TypeOK ==
  /\ project \in [ProjectId -> ProjectRow \cup {NULL}]
  /\ project_managers \in [ProjectId -> Contents \cup {NULL}]
  /\ project_supervisors \in [ProjectId -> Contents \cup {NULL}]
  /\ salvagevalue \in [SalvageId -> Contents \cup {NULL}]
  /\ closeoutdetails \in [CloseoutId -> CloseoutRow \cup {NULL}]
  /\ pc \in [Device -> Busy \cup Screen]
  /\ projectID \in [Device -> ProjectId \cup {NULL}]
  /\ cellArray \in [Device -> [Part -> Contents]]
  /\ salvageID \in [Device -> SalvageId \cup {NULL}]
  /\ closeoutID \in [Device -> CloseoutId \cup {NULL}]
  /\ didHaveSalvageInDatabase \in [Device -> BOOLEAN]
  /\ outcome \in [Device -> Outcome]
  /\ touched \in [Device -> BOOLEAN]

-----------------------------------------------------------------------------
(* What the tables say of a project: the rows reached through its links.   *)

CloseoutOf == [p \in ProjectId |->
  IF project[p] = NULL THEN NULL ELSE project[p].closeoutDetails_id]

SalvageIn == [k \in CloseoutId |->
  IF closeoutdetails[k] = NULL THEN NULL ELSE closeoutdetails[k].salvageValue_id]

DetailsIn == [k \in CloseoutId |->
  IF closeoutdetails[k] = NULL THEN NULL ELSE closeoutdetails[k].details]

SalvageOf(p) == IF CloseoutOf[p] = NULL THEN NULL ELSE SalvageIn[CloseoutOf[p]]

Stored(p) ==
  [required   |-> IF project[p] = NULL THEN NULL ELSE project[p].required,
   optional   |-> IF project[p] = NULL THEN NULL ELSE project[p].optional,
   manager    |-> project_managers[p],
   supervisor |-> project_supervisors[p],
   closeout   |-> IF CloseoutOf[p] = NULL THEN NULL ELSE DetailsIn[CloseoutOf[p]],
   salvage    |-> IF SalvageOf(p) = NULL THEN NULL ELSE salvagevalue[SalvageOf(p)]]

Complete(p) == \A part \in Part \ {"salvage"} : Stored(p)[part] # NULL

-----------------------------------------------------------------------------
BlankForm == [part \in Part |-> Blank]

(* Existing projects each own a closeout row, and a salvage row unless     *)
(* they are in WithoutSalvage; nothing else is stored.                     *)
Init ==
  /\ \E first \in Value,
        rest \in Value \cup {Blank},
        co \in Injection(Existing, CloseoutId),
        sv \in Injection(Existing \ WithoutSalvage, SalvageId) :
       /\ project = [p \in ProjectId |->
            IF p \in Existing
            THEN [required |-> first, optional |-> rest, closeoutDetails_id |-> co[p]]
            ELSE NULL]
       /\ project_managers = [p \in ProjectId |-> IF p \in Existing THEN first ELSE NULL]
       /\ project_supervisors = project_managers
       /\ closeoutdetails = [k \in CloseoutId |->
            IF \E p \in Existing : co[p] = k
            THEN LET p == CHOOSE p \in Existing : co[p] = k IN
                 [details |-> rest,
                  salvageValue_id |-> IF p \in WithoutSalvage THEN NULL ELSE sv[p]]
            ELSE NULL]
       /\ salvagevalue = [s \in SalvageId |->
            IF \E p \in Existing \ WithoutSalvage : sv[p] = s
            THEN IF \E p \in Unpriced : sv[p] = s THEN Unset ELSE rest
            ELSE NULL]
  /\ pc = [d \in Device |-> "menu"]
  /\ projectID = [d \in Device |-> NULL]
  /\ cellArray = [d \in Device |-> BlankForm]
  /\ salvageID = [d \in Device |-> NULL]
  /\ closeoutID = [d \in Device |-> NULL]
  /\ didHaveSalvageInDatabase = [d \in Device |-> FALSE]
  /\ outcome = [d \in Device |-> "none"]
  /\ touched = [d \in Device |-> FALSE]

-----------------------------------------------------------------------------
Goto(d, from, to) == pc[d] = from /\ pc' = [pc EXCEPT ![d] = to]
Ends(d, how) == outcome' = [outcome EXCEPT ![d] = how]

(* Device d has written a row of its project: every other device that has  *)
(* the project on screen now looks at cells that may be out of date.       *)
Touch(d) ==
  touched' = [e \in Device |-> touched[e] \/ (e # d /\ projectID[e] = projectID[d])]

WroteRow(d)  == Touch(d) /\ UNCHANGED <<screen, scratch, outcome>>
OnlyCells    == UNCHANGED <<tables, projectID, didHaveSalvageInDatabase, scratch,
                            outcome, touched>>
ClearIds(d)  == /\ salvageID' = [salvageID EXCEPT ![d] = NULL]
                /\ closeoutID' = [closeoutID EXCEPT ![d] = NULL]

IsRequiredInformationFilled(d) ==
  \A part \in RequiredPart : cellArray[d][part] # Blank

(* The cells the user has filled in on screen, any values in some groups.  *)
Typed(d) == { [part \in Part |-> IF part \in group THEN v ELSE cellArray[d][part]] :
                group \in CellGroups, v \in Value }

(* The id of a row an INSERT creates: one that no row has yet.             *)
FreshId(table, row) == table[row] = NULL

(* A device shows the menu.                                                *)
Forget(d) ==
  /\ projectID' = [projectID EXCEPT ![d] = NULL]
  /\ cellArray' = [cellArray EXCEPT ![d] = BlankForm]
  /\ didHaveSalvageInDatabase' = [didHaveSalvageInDatabase EXCEPT ![d] = FALSE]
  /\ ClearIds(d)
  /\ touched' = [touched EXCEPT ![d] = FALSE]

-----------------------------------------------------------------------------
(* Creating a project: CreateNewProjectTableViewController and             *)
(* DatabaseConnector addNewProject.                                        *)

OpenForm(d) ==
  /\ d \in Creators
  /\ Goto(d, "menu", "form")
  /\ Ends(d, "none")
  /\ Forget(d)
  /\ UNCHANGED tables

FillForm(d) ==
  /\ pc[d] = "form"
  /\ \E cells \in Typed(d) : cellArray' = [cellArray EXCEPT ![d] = cells]
  /\ Ends(d, "none")
  /\ UNCHANGED <<tables, pc, projectID, didHaveSalvageInDatabase, scratch, touched>>

(* Bound: a save is only started while the model has an id left for each   *)
(* row it will insert.                                                     *)
RoomForProject ==
  /\ \E p \in ProjectId : FreshId(project, p)
  /\ \E s \in SalvageId : FreshId(salvagevalue, s)
  /\ \E k \in CloseoutId : FreshId(closeoutdetails, k)

(* The form is not cleared by a save: pressing Save again inserts a second *)
(* project with the same cells.                                            *)
SaveForm(d) ==
  /\ Goto(d, "form", "insertProject")
  /\ IsRequiredInformationFilled(d)
  /\ RoomForProject
  /\ Ends(d, "none")
  /\ projectID' = [projectID EXCEPT ![d] = NULL]
  /\ touched' = [touched EXCEPT ![d] = FALSE]
  /\ UNCHANGED <<tables, cellArray, didHaveSalvageInDatabase, scratch>>

RefuseForm(d) ==
  /\ pc[d] = "form"
  /\ ~IsRequiredInformationFilled(d)
  /\ Ends(d, "refused")
  /\ UNCHANGED <<tables, pc, screen, scratch, touched>>

InsertProject(d) ==
  /\ Goto(d, "insertProject", "insertManager")
  /\ \E p \in ProjectId :
       /\ FreshId(project, p)
       /\ project' = [project EXCEPT ![p] =
            [required |-> cellArray[d].required, optional |-> cellArray[d].optional,
             closeoutDetails_id |-> NULL]]
       /\ projectID' = [projectID EXCEPT ![d] = p]
  /\ UNCHANGED <<otherThanProject, cellArray, didHaveSalvageInDatabase, scratch, outcome, touched>>

(* Fault: the supervisor row is never inserted.                            *)
InsertManagerOnly(d) ==
  /\ Goto(d, "insertManager", "insertSalvage")
  /\ project_managers' = [project_managers EXCEPT ![projectID[d]] = cellArray[d].manager]
  /\ WroteRow(d)
  /\ UNCHANGED otherThanManagers

InsertManager(d) ==
  /\ Goto(d, "insertManager", "insertSupervisor")
  /\ project_managers' = [project_managers EXCEPT ![projectID[d]] = cellArray[d].manager]
  /\ WroteRow(d)
  /\ UNCHANGED otherThanManagers

(* Fault: the supervisor row is inserted from the manager cell (4, not 5). *)
InsertSupervisorFromManager(d) ==
  /\ Goto(d, "insertSupervisor", "insertSalvage")
  /\ project_supervisors' = [project_supervisors EXCEPT ![projectID[d]] = cellArray[d].manager]
  /\ WroteRow(d)
  /\ UNCHANGED otherThanSupervisors

InsertSupervisor(d) ==
  /\ Goto(d, "insertSupervisor", "insertSalvage")
  /\ project_supervisors' = [project_supervisors EXCEPT ![projectID[d]] = cellArray[d].supervisor]
  /\ WroteRow(d)
  /\ UNCHANGED otherThanSupervisors

(* Fault: salvageRowID is the id of whichever salvage row is there.        *)
InsertSalvageAnyRowID(d) ==
  /\ Goto(d, "insertSalvage", "insertCloseout")
  /\ \E s, r \in SalvageId :
       /\ FreshId(salvagevalue, s)
       /\ salvagevalue' = [salvagevalue EXCEPT ![s] = cellArray[d].salvage]
       /\ salvagevalue'[r] # NULL
       /\ salvageID' = [salvageID EXCEPT ![d] = r]
  /\ UNCHANGED <<otherThanSalvage, screen, closeoutID, outcome, touched>>

InsertSalvage(d) ==
  /\ Goto(d, "insertSalvage", "insertCloseout")
  /\ \E s \in SalvageId :
       /\ FreshId(salvagevalue, s)
       /\ salvagevalue' = [salvagevalue EXCEPT ![s] = cellArray[d].salvage]
       /\ salvageID' = [salvageID EXCEPT ![d] = s]
  /\ UNCHANGED <<otherThanSalvage, screen, closeoutID, outcome, touched>>

(* Fault: closeoutdetailsRowID is taken from the salvage insert.           *)
InsertCloseoutStaleRowID(d) ==
  /\ Goto(d, "insertCloseout", "linkCloseout")
  /\ \E k \in CloseoutId :
       /\ FreshId(closeoutdetails, k)
       /\ closeoutdetails' = [closeoutdetails EXCEPT ![k] =
            [details |-> cellArray[d].closeout, salvageValue_id |-> salvageID[d]]]
  /\ closeoutID' = [closeoutID EXCEPT ![d] = salvageID[d]]
  /\ UNCHANGED <<otherThanCloseout, screen, salvageID, outcome, touched>>

(* Fault: the rowid is the table's, not the connection's: another device's *)
(* row may be taken for one's own.                                         *)
InsertCloseoutAnyRowID(d) ==
  /\ Goto(d, "insertCloseout", "linkCloseout")
  /\ \E k, last \in CloseoutId :
       /\ FreshId(closeoutdetails, k)
       /\ closeoutdetails' = [closeoutdetails EXCEPT ![k] =
            [details |-> cellArray[d].closeout, salvageValue_id |-> salvageID[d]]]
       /\ last = k \/ ~FreshId(closeoutdetails, last)
       /\ closeoutID' = [closeoutID EXCEPT ![d] = last]
  /\ UNCHANGED <<otherThanCloseout, screen, salvageID, outcome, touched>>

InsertCloseout(d) ==
  /\ Goto(d, "insertCloseout", "linkCloseout")
  /\ \E k \in CloseoutId :
       /\ FreshId(closeoutdetails, k)
       /\ closeoutdetails' = [closeoutdetails EXCEPT ![k] =
            [details |-> cellArray[d].closeout, salvageValue_id |-> salvageID[d]]]
       /\ closeoutID' = [closeoutID EXCEPT ![d] = k]
  /\ UNCHANGED <<otherThanCloseout, screen, salvageID, outcome, touched>>

(* Fault: the last update is qualified by closeoutDetails_id IS NULL.      *)
LinkEveryUnlinked(d) ==
  /\ Goto(d, "linkCloseout", "form")
  /\ project' = [p \in ProjectId |->
       IF project[p] # NULL /\ CloseoutOf[p] = NULL
       THEN [project[p] EXCEPT !.closeoutDetails_id = closeoutID[d]] ELSE project[p]]
  /\ Ends(d, "success")
  /\ Touch(d)
  /\ ClearIds(d)
  /\ UNCHANGED <<otherThanProject, screen>>

LinkCloseout(d) ==
  /\ Goto(d, "linkCloseout", "form")
  /\ project' = [project EXCEPT ![projectID[d]].closeoutDetails_id = closeoutID[d]]
  /\ Ends(d, "success")
  /\ Touch(d)
  /\ ClearIds(d)
  /\ UNCHANGED <<otherThanProject, screen>>

-----------------------------------------------------------------------------
(* Opening a project: fetchProjectInformationForID, five queries one after *)
(* the other; a missing manager, supervisor or closeout row makes          *)
(* addObject:nil raise, which nothing catches.                             *)

OpenProject(d) ==
  /\ Goto(d, "menu", "fetchRequired")
  /\ Ends(d, "none")
  /\ \E p \in ProjectId :
       /\ project[p] # NULL
       /\ projectID' = [projectID EXCEPT ![d] = p]
  /\ touched' = [touched EXCEPT ![d] = FALSE]
  /\ UNCHANGED <<tables, cellArray, didHaveSalvageInDatabase, scratch>>

FetchRequired(d) ==
  /\ Goto(d, "fetchRequired", "fetchManager")
  /\ cellArray' = [cellArray EXCEPT ![d].required = Stored(projectID[d]).required]
  /\ OnlyCells

FetchManager(d) ==
  /\ Goto(d, "fetchManager", "fetchSupervisor")
  /\ Stored(projectID[d]).manager # NULL
  /\ cellArray' = [cellArray EXCEPT ![d].manager = Stored(projectID[d]).manager]
  /\ OnlyCells

FetchSupervisor(d) ==
  /\ Goto(d, "fetchSupervisor", "fetchOptional")
  /\ Stored(projectID[d]).supervisor # NULL
  /\ cellArray' = [cellArray EXCEPT ![d].supervisor = Stored(projectID[d]).supervisor]
  /\ OnlyCells

(* Fault: an outer join, which shows a closeout that is not there as blank. *)
FetchOptionalOuter(d) ==
  /\ Goto(d, "fetchOptional", "fetchSalvage")
  /\ cellArray' = [cellArray EXCEPT ![d].optional = Stored(projectID[d]).optional,
                                    ![d].closeout = IF Stored(projectID[d]).closeout = NULL
                                                    THEN Blank
                                                    ELSE Stored(projectID[d]).closeout]
  /\ OnlyCells

FetchOptional(d) ==
  /\ Goto(d, "fetchOptional", "fetchSalvage")
  /\ Stored(projectID[d]).closeout # NULL
  /\ cellArray' = [cellArray EXCEPT ![d].optional = Stored(projectID[d]).optional,
                                    ![d].closeout = Stored(projectID[d]).closeout]
  /\ OnlyCells

(* No salvage row is shown as no date and an amount of 0.                  *)
ShownSalvage(p) == IF Stored(p).salvage = NULL THEN Blank ELSE Stored(p).salvage

(* viewDidAppear: there was a salvage row if its date or its amount is not *)
(* NSNull.  A Blank salvage has an amount, 0.                              *)
HasDate(salvage)   == salvage \in Value
HasAmount(salvage) == salvage # Unset
DidHaveSalvage(salvage) == HasDate(salvage) \/ HasAmount(salvage)

FetchSalvage(d) ==
  /\ Goto(d, "fetchSalvage", "viewing")
  /\ LET salvage == ShownSalvage(projectID[d]) IN
       /\ cellArray' = [cellArray EXCEPT ![d].salvage = salvage]
       /\ didHaveSalvageInDatabase' =
            [didHaveSalvageInDatabase EXCEPT ![d] = DidHaveSalvage(salvage)]
  /\ Ends(d, "loaded")
  /\ UNCHANGED <<tables, projectID, scratch, touched>>

FetchFindsNoRow(d) ==
  /\ \/ pc[d] = "fetchManager"    /\ Stored(projectID[d]).manager = NULL
     \/ pc[d] = "fetchSupervisor" /\ Stored(projectID[d]).supervisor = NULL
     \/ pc[d] = "fetchOptional"   /\ Stored(projectID[d]).closeout = NULL
  /\ pc' = [pc EXCEPT ![d] = "down"]
  /\ Ends(d, "raised")
  /\ Forget(d)
  /\ UNCHANGED tables

-----------------------------------------------------------------------------
(* Editing and saving: editProject and save of                             *)
(* ViewExistingProjectTableViewController, updateProjectWithID.            *)

EditProject(d) ==
  /\ d \in Editors
  /\ Goto(d, "viewing", "editing")
  /\ Ends(d, "none")
  /\ UNCHANGED <<tables, screen, scratch, touched>>

ChangeCells(d) ==
  /\ pc[d] = "editing"
  /\ \E cells \in Typed(d) : cellArray' = [cellArray EXCEPT ![d] = cells]
  /\ UNCHANGED <<tables, pc, projectID, didHaveSalvageInDatabase, scratch, outcome, touched>>

SaveProject(d) ==
  /\ Goto(d, "editing", "updateProject")
  /\ IsRequiredInformationFilled(d)
  /\ touched' = [touched EXCEPT ![d] = FALSE]
  /\ UNCHANGED <<tables, screen, scratch, outcome>>

(* An UPDATE changes the rows its qualifier matches, and a row that is not *)
(* there is matched by none.                                               *)
Overwrite(table, row, v) == [table EXCEPT ![row] = IF @ = NULL THEN NULL ELSE v]

UpdateProject(d) ==
  /\ Goto(d, "updateProject", "updateManager")
  /\ project' = Overwrite(project, projectID[d],
       [required |-> cellArray[d].required, optional |-> cellArray[d].optional,
        closeoutDetails_id |-> CloseoutOf[projectID[d]]])
  /\ WroteRow(d)
  /\ UNCHANGED otherThanProject

UpdateManager(d) ==
  /\ Goto(d, "updateManager", "updateSupervisor")
  /\ project_managers' = Overwrite(project_managers, projectID[d], cellArray[d].manager)
  /\ WroteRow(d)
  /\ UNCHANGED otherThanManagers

UpdateSupervisor(d) ==
  /\ pc[d] = "updateSupervisor"
  /\ pc' = [pc EXCEPT ![d] = IF didHaveSalvageInDatabase[d]
                             THEN "selectSalvage" ELSE "insertNewSalvage"]
  /\ project_supervisors' = Overwrite(project_supervisors, projectID[d], cellArray[d].supervisor)
  /\ WroteRow(d)
  /\ UNCHANGED otherThanSupervisors

(* A NULL salvageValue_id is an NSNull, which has no integerValue: the     *)
(* save can then only fail (UpdateFails).                                  *)
SelectSalvage(d) ==
  /\ Goto(d, "selectSalvage", "updateSalvage")
  /\ SalvageOf(projectID[d]) # NULL
  /\ salvageID' = [salvageID EXCEPT ![d] = SalvageOf(projectID[d])]
  /\ UNCHANGED <<tables, screen, closeoutID, outcome, touched>>

UpdateSalvage(d) ==
  /\ Goto(d, "updateSalvage", "selectCloseout")
  /\ salvagevalue' = Overwrite(salvagevalue, salvageID[d], cellArray[d].salvage)
  /\ WroteRow(d)
  /\ UNCHANGED otherThanSalvage

(* Fault: the new salvage row is not linked to the closeout.               *)
InsertSalvageUnlinked(d) ==
  /\ Goto(d, "insertNewSalvage", "selectCloseout")
  /\ \E s \in SalvageId :
       /\ FreshId(salvagevalue, s)
       /\ salvagevalue' = [salvagevalue EXCEPT ![s] = cellArray[d].salvage]
       /\ salvageID' = [salvageID EXCEPT ![d] = s]
  /\ UNCHANGED <<otherThanSalvage, screen, closeoutID, outcome, touched>>

InsertNewSalvage(d) ==
  /\ Goto(d, "insertNewSalvage", "selectLink")
  /\ \E s \in SalvageId :
       /\ FreshId(salvagevalue, s)
       /\ salvagevalue' = [salvagevalue EXCEPT ![s] = cellArray[d].salvage]
       /\ salvageID' = [salvageID EXCEPT ![d] = s]
  /\ UNCHANGED <<otherThanSalvage, screen, closeoutID, outcome, touched>>

SelectLink(d) ==
  /\ Goto(d, "selectLink", "linkSalvage")
  /\ closeoutID' = [closeoutID EXCEPT ![d] = CloseoutOf[projectID[d]]]
  /\ UNCHANGED <<tables, screen, salvageID, outcome, touched>>

(* Fault: the closeout row is not the one that was selected: every         *)
(* closeout gets the new salvage row.                                      *)
LinkSalvageEverywhere(d) ==
  /\ Goto(d, "linkSalvage", "selectCloseout")
  /\ closeoutdetails' = [k \in CloseoutId |->
       IF closeoutdetails[k] = NULL THEN NULL
       ELSE [closeoutdetails[k] EXCEPT !.salvageValue_id = salvageID[d]]]
  /\ WroteRow(d)
  /\ UNCHANGED otherThanCloseout

LinkSalvage(d) ==
  /\ Goto(d, "linkSalvage", "selectCloseout")
  /\ closeoutdetails' = [closeoutdetails EXCEPT ![closeoutID[d]].salvageValue_id = salvageID[d]]
  /\ WroteRow(d)
  /\ UNCHANGED otherThanCloseout

SelectCloseout(d) ==
  /\ Goto(d, "selectCloseout", "updateCloseout")
  /\ closeoutID' = [closeoutID EXCEPT ![d] = CloseoutOf[projectID[d]]]
  /\ UNCHANGED <<tables, screen, salvageID, outcome, touched>>

(* Fault: the closeout row is replaced and loses its salvage row.          *)
ReplaceCloseout(d) ==
  /\ Goto(d, "updateCloseout", "viewing")
  /\ closeoutdetails' = [closeoutdetails EXCEPT ![closeoutID[d]] =
       [details |-> cellArray[d].closeout, salvageValue_id |-> NULL]]
  /\ \E how \in {"success", "failed"} : Ends(d, how)
  /\ Touch(d)
  /\ ClearIds(d)
  /\ UNCHANGED <<otherThanCloseout, screen>>

(* The answer to the last statement may be lost: the row is written and    *)
(* the save is reported as failed.                                         *)
UpdateCloseout(d) ==
  /\ Goto(d, "updateCloseout", "viewing")
  /\ closeoutdetails' = [closeoutdetails EXCEPT ![closeoutID[d]].details = cellArray[d].closeout]
  /\ \E how \in {"success", "failed"} : Ends(d, how)
  /\ Touch(d)
  /\ ClearIds(d)
  /\ UNCHANGED <<otherThanCloseout, screen>>

(* Fault: a failed save starts over by itself.                             *)
UpdateRetries(d) ==
  /\ pc[d] \in UpdateStep
  /\ pc' = [pc EXCEPT ![d] = "updateProject"]
  /\ Ends(d, "failed")
  /\ UNCHANGED <<tables, screen, scratch, touched>>

(* @catch: what was already written stays written.                         *)
UpdateFails(d) ==
  /\ pc[d] \in UpdateStep
  /\ pc' = [pc EXCEPT ![d] = "viewing"]
  /\ Ends(d, "failed")
  /\ ClearIds(d)
  /\ UNCHANGED <<tables, screen, touched>>

-----------------------------------------------------------------------------
(* Leaving a screen, dying and starting again.                             *)

Leave(d) ==
  /\ pc[d] \in {"form", "viewing", "editing"}
  /\ pc' = [pc EXCEPT ![d] = "menu"]
  /\ Ends(d, "none")
  /\ Forget(d)
  /\ UNCHANGED tables

(* Outside updateProjectWithID nothing catches a MysqlException.           *)
StatementRaises(d) ==
  /\ pc[d] \in CreateStep \cup FetchStep
  /\ pc' = [pc EXCEPT ![d] = "down"]
  /\ Ends(d, "raised")
  /\ Forget(d)
  /\ UNCHANGED tables

(* The user or the system kills the app.                                   *)
Kill(d) ==
  /\ pc[d] \notin {"menu", "down"}
  /\ pc' = [pc EXCEPT ![d] = "down"]
  /\ Ends(d, "none")
  /\ Forget(d)
  /\ UNCHANGED tables

Launch(d) ==
  /\ Goto(d, "down", "menu")
  /\ Ends(d, "none")
  /\ UNCHANGED <<tables, screen, scratch, touched>>

-----------------------------------------------------------------------------
Create(d) ==
  \/ InsertProject(d) \/ InsertManager(d) \/ InsertSupervisor(d)
  \/ InsertSalvage(d) \/ InsertCloseout(d) \/ LinkCloseout(d)
Fetch(d) ==
  \/ FetchRequired(d) \/ FetchManager(d) \/ FetchSupervisor(d)
  \/ FetchOptional(d) \/ FetchSalvage(d) \/ FetchFindsNoRow(d)
Update(d) ==
  \/ UpdateProject(d) \/ UpdateManager(d) \/ UpdateSupervisor(d)
  \/ SelectSalvage(d) \/ UpdateSalvage(d)
  \/ InsertNewSalvage(d) \/ SelectLink(d) \/ LinkSalvage(d)
  \/ SelectCloseout(d) \/ UpdateCloseout(d)
User(d) ==
  \/ OpenForm(d) \/ FillForm(d) \/ SaveForm(d) \/ RefuseForm(d)
  \/ OpenProject(d) \/ EditProject(d) \/ ChangeCells(d) \/ SaveProject(d)
  \/ Leave(d) \/ Launch(d)
Failure(d) == StatementRaises(d) \/ UpdateFails(d) \/ Kill(d)

Next == \E d \in Device :
          Create(d) \/ Fetch(d) \/ Update(d) \/ User(d) \/ Failure(d)

Spec == Init /\ [][Next]_vars

(* The statements of a save or a load run one after the other on the main  *)
(* thread: once begun they go on, or one of them fails.  Nothing is asked  *)
(* of the user, nor of the system that kills and launches the app.         *)
Fairness ==
  \A d \in Device :
    WF_vars(Create(d) \/ Fetch(d) \/ Update(d) \/ StatementRaises(d) \/ UpdateFails(d))

FairSpec == Spec /\ Fairness

-----------------------------------------------------------------------------
(* What the statements promise together.                                   *)

(* The links never dangle and no row is shared: a closeout row that is     *)
(* linked exists and belongs to one project, a salvage row that is linked  *)
(* exists and belongs to one closeout row (the rowids of addNewProject and *)
(* the insert branch of updateProjectWithID keep it so under any           *)
(* interleaving and after any crash).                                      *)
LinksSound ==
  /\ \A p \in ProjectId : CloseoutOf[p] # NULL => closeoutdetails[CloseoutOf[p]] # NULL
  /\ \A p, q \in ProjectId : CloseoutOf[p] # NULL /\ CloseoutOf[p] = CloseoutOf[q] => p = q
  /\ \A k \in CloseoutId : SalvageIn[k] # NULL => salvagevalue[SalvageIn[k]] # NULL
  /\ \A k, l \in CloseoutId : SalvageIn[k] # NULL /\ SalvageIn[k] = SalvageIn[l] => k = l

Creating(d)      == pc[d] \in CreateStep \ {"insertProject"}
HoldsSalvage(d)  == pc[d] \in {"insertCloseout", "selectLink", "linkSalvage"}
HoldsCloseout(d) == pc[d] = "linkCloseout"

(* A row that a running save has inserted (projectRowID, salvageRowID,     *)
(* closeoutdetailsRowID) and still has to link exists, is linked by nobody *)
(* yet, and is in the hands of no other device's save.                     *)
OwnProjects ==
  \A d \in Device : Creating(d) =>
    /\ projectID[d] # NULL
    /\ project[projectID[d]] # NULL
    /\ CloseoutOf[projectID[d]] = NULL
    /\ \A e \in Device \ {d} : Creating(e) => projectID[e] # projectID[d]
OwnSalvages ==
  \A d \in Device : HoldsSalvage(d) =>
    /\ salvageID[d] # NULL
    /\ salvagevalue[salvageID[d]] # NULL
    /\ \A k \in CloseoutId : SalvageIn[k] # salvageID[d]
    /\ \A e \in Device \ {d} : HoldsSalvage(e) => salvageID[e] # salvageID[d]
OwnCloseouts ==
  \A d \in Device : HoldsCloseout(d) =>
    /\ closeoutID[d] # NULL
    /\ closeoutdetails[closeoutID[d]] # NULL
    /\ \A p \in ProjectId : CloseoutOf[p] # closeoutID[d]
    /\ \A e \in Device \ {d} : HoldsCloseout(e) => closeoutID[e] # closeoutID[d]
OwnRows == OwnProjects /\ OwnSalvages /\ OwnCloseouts

OnScreen == FetchStep \cup UpdateStep \cup {"viewing", "editing"}
Loaded   == UpdateStep \cup {"fetchSalvage", "viewing", "editing"}

(* The rows a device has opened stay there for as long as it works on them *)
(* and the ids it selected stay those of its own project, whatever other   *)
(* devices save in between: a selected salvage row may meanwhile have been *)
(* replaced, but it never comes to belong to another project.              *)
OpenRows ==
  \A d \in Device :
    /\ pc[d] \in OnScreen => projectID[d] # NULL /\ project[projectID[d]] # NULL
    /\ pc[d] \in Loaded => CloseoutOf[projectID[d]] # NULL
SelectedCloseout ==
  \A d \in Device :
    pc[d] \in {"linkSalvage", "updateCloseout"} => closeoutID[d] = CloseoutOf[projectID[d]]
SelectedSalvage ==
  \A d \in Device : pc[d] = "updateSalvage" =>
    /\ salvageID[d] # NULL
    /\ salvagevalue[salvageID[d]] # NULL
    /\ \A k \in CloseoutId : SalvageIn[k] = salvageID[d] => k = CloseoutOf[projectID[d]]
    /\ \A e \in Device : HoldsSalvage(e) => salvageID[e] # salvageID[d]
SelectedRows == OpenRows /\ SelectedCloseout /\ SelectedSalvage

(* Together they are inductive.                                            *)
IInv == TypeOK /\ LinksSound /\ OwnRows /\ SelectedRows

(* A load that ended, and a save reported as "Success!", leave on screen   *)
(* exactly what the tables hold, unless another device wrote the project   *)
(* since the load or save began.  (Every statement of a save counts: one   *)
(* that is skipped, or that hits another project's row, breaks this.)      *)
ScreenIsStored ==
  \A d \in Device :
    /\ outcome[d] \in {"loaded", "success"}
    /\ ~touched[d]
    => \A part \in Part :
         cellArray[d][part] = IF part = "salvage" THEN ShownSalvage(projectID[d])
                              ELSE Stored(projectID[d])[part]

(* The parts of a project a statement may change.                          *)
Writes(step) ==
  { part \in Part :
      \/ part \in {"required", "optional"} /\ step \in {"insertProject", "updateProject"}
      \/ part = "manager"    /\ step \in {"insertManager", "updateManager"}
      \/ part = "supervisor" /\ step \in {"insertSupervisor", "updateSupervisor"}
      \/ part = "closeout"   /\ step \in {"linkCloseout", "updateCloseout"}
      \/ part = "salvage"    /\ step \in {"linkCloseout", "updateSalvage", "linkSalvage"} }

(* What is stored of a project changes only when a device that has it on   *)
(* screen executes a statement for it, only in the parts that statement is *)
(* for, and only to the cells of that device: no save of one project ever  *)
(* changes another, though the rows are reached through fetched ids.       *)
Isolation ==
  [][\A p \in ProjectId :
       Stored(p)' # Stored(p) =>
         \E d \in Device :
           /\ pc'[d] # pc[d]
           /\ projectID'[d] = p
           /\ \A part \in Part :
                Stored(p)'[part] # Stored(p)[part] =>
                  part \in Writes(pc[d]) /\ Stored(p)'[part] = cellArray[d][part]]_vars

(* A project whose creation died half way is never completed: it is listed *)
(* by the search, crashes whoever opens it, and no operation repairs it.   *)
Abandoned(p) ==
  /\ project[p] # NULL
  /\ ~Complete(p)
  /\ \A d \in Device : pc[d] \in CreateStep => projectID[d] # p
AbandonedForever == [][\A p \in ProjectId : Abandoned(p) => Abandoned(p)']_vars

(* Every row that a save is going to update is there, from the end of the  *)
(* load on, whatever others save and wherever their creations die: no      *)
(* UPDATE is lost on a row that its qualifier does not find.               *)
SavesFindTheirRows == \A d \in Device : pc[d] \in Loaded => Complete(projectID[d])

(* The registry that the five tables implement together.                   *)
Registry == INSTANCE ProjectRegistry WITH record <- [p \in ProjectId |-> Stored(p)]
RegistrySpec == Registry!Spec

(* A save or a load that has begun comes to an end: it never waits for     *)
(* another device.                                                         *)
StatementsEnd == \A d \in Device : pc[d] \in Busy ~> pc[d] \in Screen

(* "Salvage has been created already"                                      *)
(* (ViewExistingProjectTableViewController.m:69), the comment on the flag  *)
(* that makes a save update the salvage row instead of inserting one.      *)
SalvageCreatedAlready ==
  \A d \in Device :
    pc[d] = "viewing" /\ didHaveSalvageInDatabase[d] => SalvageOf(projectID[d]) # NULL

=============================================================================
