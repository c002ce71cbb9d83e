# Millers: a TLA+ development of the MillerConstruction app

MillerConstruction is an iPad app (Objective-C, `src/MillerConstruction/`) with which
the employees of a construction company create, look up, edit and report on projects.
The app has no server of its own: every iPad talks SQL to one shared MySQL database,
one statement at a time, on its main thread, with autocommit on. This directory models
what those statements do together, and what the screens make of their results.

## The system

| Component | State | Operations | Interacts with | Modelled by |
|---|---|---|---|---|
| **Project store**: `DatabaseConnector.m` (`addNewProject` 227, `fetchProjectInformationForID` 358, `updateProjectWithID` 434) | five tables (project, project_managers, project_supervisors, salvagevalue, closeoutdetails) | create (6 statements), open (5 queries), save (up to 8 statements) | shared tables, no transactions, no locks | `ProjectStore`, `ProjectRegistry` |
| **Project forms**: `CreateNewProjectTableViewController.m`, `ViewExistingProjectTableViewController.m`, `ProjectHelper.m` (in PROJECT.json part of the project store) | per iPad the 33 cells twice, as saved and as shown; lists of names; the flag `didHaveSalvageInDatabase` | appear, edit, pick, type, save | loads lists and project; calls the store | `ProjectForm`, `FormCells` |
| **Triggers**: `ViewTriggersHelper.m`, `ViewTriggersTableViewController.m`, `DatabaseConnector.m` 1045-1120 | three lists built from six queries | load on appearing | reads the project table and today's date | `Triggers` |
| **Reports**: `GenerateReport*.m` | criteria, header list, rows joined from three queries | query and lay out | reads the project tables, joins by position | `Reports` |
| **Project search**: `ViewExistingProjectViewController.m`, `ViewExistingProjectSearchHelper.m` | lists, criteria, text fields, result | appear, pick, search, select | reads the tables of names and the project table, hands the id to the form | `ProjectSearch` |
| **Login and menu**: `LoginViewController.m`, `User.m`, `MainMenuViewController.m` | HUD, timers, alerts | log in, segue, open a screen | reads the user table in two queries | `Login` |
| **MySQL wrapper**: `iPhoneMySQL/*.m` | a connection per handler; the keys of fetched columns | connect, fetch, insert, update; raises on failure | used by all the above | `Connections`, `FetchKeys`, `Statements` |
| Value classes, application shell | immutable id/name pairs; nothing | - | - | - |

### What is hard here

* *Half-done saves.* `addNewProject` is six autocommitted inserts and updates;
  `updateProjectWithID` is up to eight statements under one `@catch`. A statement that
  fails, or an app that dies, leaves the earlier ones in effect.
* *Interleaving.* Two iPads run these sequences at the same time. Rows are reached through
  ids that were read (or returned by an insert) earlier.
* *Stale screens.* A save writes back all cells as they were loaded, and chooses between
  updating and inserting the salvage row by a flag computed from displayed defaults.
* *Torn reads.* A project is read by five queries, a password by two, the lists of a form
  and the project in it by some twenty, with other devices' writes in between.
* *The way through the name.* Pickers keep names; ids are looked up from them in lists that are
  as old as the screen.
* *Parallel arrays and tags.* A cell is in two arrays, found again by arithmetic on the digits of a tag.
* *Time.* The trigger screen asks six questions about "today" one after the other; the login screen
  lets go of the touches a second before it answers.
* *Positional joins.* Reports pair rows of three queries, and cells with headers, by position.
* *A limit.* Connections are opened by every handler and closed by none.

### What makes each component correct

* Project store: the links between tables never dangle and no row is shared; a save
  changes its own project and nothing else, each part only by the statement meant for it;
  after a load, or a save reported as successful, the screen shows what is stored unless
  somebody else wrote; loads and saves end; a half-created project stays recognisable.
* Forms: what is saved is what is shown and what was meant, cell by cell.
* Triggers: every project that is due appears in the right one of the three lists.
* Reports: every row belongs to one project and every cell to its header.
* Search: what is found is what the names on the screen say.
* Login: the verdict is one that the table of users justified, and every press is answered, once.
* MySQL wrapper: no column of a result is lost and no reader asks for one that is not there; a handler
  has a connection while it queries, and what it leaves behind is known.

## Modules

| Module | Content |
|---|---|
| `ProjectStore` | the five tables and the devices; one action per SQL statement, per user action, and for failure, crash and restart |
| `ProjectRegistry` | the abstract specification: each project owns six parts, filled in a fixed order, changed but never emptied; no tables, ids or devices |
| `FormCells` | the places of the 33 cells, their tags, and the three ways back |
| `ProjectForm` | the two forms: appearing, the cells, the two saves, other devices |
| `StoreReaders` | what the reports and the triggers see of the five tables: the tables of `Reports` and `Triggers` as views of `ProjectStore` |
| `Triggers` | the trigger screen: one action per query, other devices' saves, midnight, leaving and returning |
| `Reports` | the criteria screen, the nine reports with their headers and cells, the three queries of a report, their join and the grid |
| `ProjectSearch` | the search screen, appearing again and again, against renamed rows and moving projects |
| `Connections` | the place a device has for a connection, and the connections of the server |
| `Login` | extends `Connections` with the login screen, its timers, and the menu and screens behind it |
| `FetchKeys`, `Statements` | how `MysqlFetch` names the columns of a result; the columns of every fetch and the keys its readers use |
| `MC...` | the sets, symmetries and definitions of the instances |
| `...Proofs` | the theorems about the module of that name |
| `ProjectStoreSteps` | the theorems about what the steps of `ProjectStore` do: isolation, the refinement, the screen, progress, and the composition of `StoreReaders` |

The modules meet in the database. `Triggers`, `Reports`, `ProjectSearch` and `ProjectForm`
see the saves of `ProjectStore` as single steps of other devices (`Save`, `CreateProject`, `InsertPart`,
`EditProject`, `MoveProject`, `SaveElsewhere`). That is enough, because each query of theirs reads columns that one
statement of `ProjectStore` writes, with one exception, which `InsertPart` keeps: the rows of a
new project appear one after the other, and may never all appear. For the two that read every project, `StoreReaders` makes
this precise: it gives `Reports` and `Triggers` the tables of `ProjectStore` as their queries select them, and
`FeedsReports` and `FeedsTriggers` say that every statement of every device is, seen so, one of those steps or nothing.
`Login` in turn sees every handler
of the other screens as one that connects, works and lets go (`RunHandler`, `ConnectForScreen`,
`FinishScreen`).

### How `ProjectStore` corresponds to the code

*Tables.* `project`, `project_managers`, `project_supervisors`, `salvagevalue` and
`closeoutdetails` are functions from ids to rows; `NULL` is a row that is not there. Each
table has an AUTO_INCREMENT id, so an insert takes any id that is not in use.

*Cells.* The 33 cells of a project fall into six parts by the row that stores them and the
query that reads them (`ProjectHelper.m` 284-359 gives the column of each cell, the empty
string for those that are not columns of `project`): `required` and `optional` (columns of
the project row, read by two different queries and written by one statement), `manager`,
`supervisor`, `closeout`, `salvage`. A part holds `Blank` (untouched cells, a salvage amount of 0),
`Unset` (a salvage row with neither date nor amount, which only rows older than the app have) or
something a user entered, a member of `Value`. Columns of one part are always written and
read together, so a part is atomic in the code too.

*Devices.* `pc[d]` is the statement that device `d` executes next, or the screen it shows.
`projectID`, `cellArray` and `didHaveSalvageInDatabase` are what the screen's view controller keeps;
`salvageID` and `closeoutID` are the local variables of a running save. `outcome` records how the
last load or save ended, and `touched` (a history variable) whether another device has written
the project since. The code reads neither.

*Statements.* `InsertProject` ... `LinkCloseout` are `addNewProject`; `FetchRequired` ...
`FetchSalvage` are `fetchProjectInformationForID` and the flag that `viewDidAppear`
computes from its result; `UpdateProject` ... `UpdateCloseout` are
`updateProjectWithID`, where the three SELECTs are steps of their own, because another
device may write between a SELECT and the UPDATE that uses its result.

*Failure.* In `addNewProject` and in a load a failing statement raises a `MysqlException` that nothing
catches, and the app goes down (`StatementRaises`). The same happens to a load that finds no
manager, supervisor or closeout row, because `addObject:nil` raises (`FetchFindsNoRow`).
In `updateProjectWithID` the `@catch` turns a failure into "failed" and leaves the screen
as it is (`UpdateFails`); a NULL salvage id has no `integerValue` and fails the same way.
The answer to the last statement may be lost, so `UpdateCloseout` may end in "failed" with
the row written. `Kill` takes the app down at any point, `Launch` starts it again.

Each definition marked "Fault:" or "Mutant of" is a plausible mistake in the definition after it. No
specification uses them: they show that the properties can tell the difference.

### How `Triggers` corresponds to the code

`viewDidAppear` makes a new helper, so `Appear` empties the three lists; then `lookForTriggers`
runs six queries in the order of `NextStep`, each an action (`LookForMCSNumbers` ...
`LookForLargeGaps`) that adds a trigger for every row that satisfies the WHERE clause, an
operator over a row and the server's day. A row holds the columns the clauses read; a NULL
date satisfies no comparison. Between two queries another device may save any row
(`Save`) or the server's day may change (`Midnight`); a failing query raises and
takes the app down (`Crash`). `PickTrigger` opens the project of a trigger, `Leave` goes back to the menu.

The ghosts remember the table and the day at the opening, and which triggers a save has lowered
or raised since. `Level` says what a trigger should be, from the two list names: 0 for not due,
1 for info or warning, 2 for severe. NULL percentages are left out (the forms write 0),
and so are the joins with warehouse, city and item, which every project has.

### How `Reports` corresponds to the code

A report is a name and a type. `Heads` and `Cells` list its columns by what they show: `Heads` is
read off `initialize...ReportHeaders`, `Cells` off the `addObject:` calls of
`fetch...ReportWithReportType`. `HeadersOf` is the choice `viewDidAppear` of the grid makes,
`Branch` the choice of the fetch method, and `Refused` the checks of the criteria screen; three
lists of cases in three files that have to agree.

`QueryProjects`, `QueryManagers` and `QuerySupervisors` are the queries of a report, and `BuildRows` the
loop that joins their results by position, `RowIndexRaises` the case in which `objectAtIndex:`
raises. `DrawCells` asks for a cell for each header. A person is represented by the project the people
query joined it with, so that a row that mixes projects can be seen. The conditions on region, project
type and status are the same in the three queries of a report (checked query by query while
reading); they are one flag, `meets`. Only the closeout row is asked for by the project query alone
(`WithCloseout`), and only the people queries ask for the rows of the people. None of the queries has an ORDER
BY: the model takes primary-key order, which is what favours the code most.
`ragged` and `moved` record whether the project query met a project that lacks rows, and
whether an edit moved a project in or out of the report during the load.

### How `ProjectForm` corresponds to the code

`cells` is `cellArray`, `strings` is `projectStrings`; the rest of the names are the code's. A place is a number
from 0 to 32; `FormCells` has the arithmetic of `cellForRowAtIndexPath` (`CellTag`, `DrawnAt`),
`insertObject:intoArrayWithTag:` (`InsertedAt`) and `textFieldDidEndEditing` (`EndedAt`), which cut digits off strings and compare with
59 or 5. The kinds of cells are those the code tells apart: pickers of names, of dates, texts, and
among the texts the numbers.

`LoadLists` is the making of the helper, `LoadProject` the fetch of the project; between the two, and
at any other time, `NameRow` gives a row another name and `SaveElsewhere` saves the project from another
device. `BeginEditing`, `Type`, `EndEditing`, `PickName` and `PickDate` are what the user does to a cell.
`Create` saves `cellArray` as it stands, after zeroes for empty numbers; `Save` ends the editing, turns names into
ids (`RowIDOf`, the first row of the name) and texts into numbers, in place, and checks the
required cells only then; `SaveRaises` is the nil that `replaceObjectAtIndex:` does not take. A save is one step, its
statements are in `ProjectStore`. `integerValue` is a constant, `IntegerValue`, of which only idempotence is
assumed. A text that was emptied is `Blank`, which is not NSNull: it counts as filled for a
required cell, as in the code. A date is picked and never emptied, and a number is stored as a number, so other devices save no
`Blank` in these (`Saved`).

### How `ProjectSearch` corresponds to the code

`Appear` and `SwipeLetGo` lead to `viewDidAppear`, which loads two lists (`LoadWarehouses`,
`LoadStages`) and resets the criteria, not the fields. `Pick` is `warehousePicked` and
`projectStagePicked`: the name goes into the field, the id of the first row of that name into the criteria.
`SearchForProject`, `QueryProjects` and `ChooseProject` are `searchForProject`, its query, and the alert with a button for each
project found, which clears the fields and opens the form.

### How `Login` and `Connections` correspond to the code

`slot[d]` is `databaseConnection`, `owner` the server's view. `Connect` puts a new connection into the place,
`Release` is `databaseConnection = nil`. The wrapper is compiled without ARC (`-fno-objc-arc`) and `connectToServer:` returns an
object it still owns, so `dealloc`, the only place with `mysql_close`, never runs: `Release` leaves
`owner` as it is. `HangUp` is the end of the process, `Drop` a connection the server ends.

`Press` reads the fields and shows the HUD; `CreateConnector` (the singleton's `init`, which connects too),
`ConnectForLogin`, `NameUnknown`, `NameKnown` and `ComparePasswords` are the steps of
`loginUserToDatabase`, all on the main thread, with `ChangeUser` between them. `Conclude` schedules what comes after one
second (`DismissHud`) and after two (`Answer`); `Tick` lets a second pass. What is due happens before the next
touch (`Quiet`) and waits only while the main thread is busy.

### How `FetchKeys` and `Statements` correspond to the code

`Describe` is a turn of the loop over the columns of a result (`MysqlFetch.m` 88-109): it adds the column's table to
`sourceTables` and its key to `fieldNameCollector`, with the table once a second table is known. `FetchRows`
makes the dictionary. `Statements` lists the SELECTs of `DatabaseConnector.m`, column by column, and the
keys with which their results are read there and in the helpers.

## Properties

### Project store

| Property | Says |
|---|---|
| `TypeOK` | types of tables, cells and ids |
| `LinksSound` | linked rows exist; no closeout row has two projects, no salvage row two closeouts |
| `OwnRows` | a row that a save has inserted and still has to link exists, is unlinked, and is in no other save's hands |
| `SelectedRows` | the ids a save has selected are still those of its own project when they are used |
| `ScreenIsStored` | after a load or a successful save the screen is what is stored, unless another device wrote |
| `Isolation` | what is stored of a project changes only by a statement of a device that has it open, only in that statement's part, and only to that device's cells |
| `AbandonedForever` | a project whose creation died half way is never completed by anything |
| `RegistrySpec` | the tables implement `ProjectRegistry` under `record[p] = Stored(p)` |
| `SavesFindTheirRows` | from the end of a load on, every row that a save of the project updates is there: no UPDATE is lost for want of its row |
| `FeedsReports` | a statement changes what the reports see by one project that appears, the next row that joins one, or other columns of one |
| `StatementsEnd` | every load and save ends |

`FeedsReports` supposes that new projects get ascending numbers (`NumbersAscend`), as AUTO_INCREMENT gives them and as `Reports` has it;
`ProjectStore` allows any free number. `FeedsTriggers`, the like for the triggers, needs no such thing and is proved only.

`SalvageCreatedAlready` states what a comment of the code says, and is violated (`StoreSalvageFlag`).
`ViewExistingProjectTableViewController.m` 68 sets the flag when cell 26 is not NSNull, but
`fetchProjectInformationForID` puts the number 0 there when there is no salvage row
(`DatabaseConnector.m` 419). The flag is therefore TRUE for every project without a salvage row,
and its save takes the UPDATE branch, sends `integerValue` to an NSNull and fails after three
statements took effect. Every save of such a project fails this way. The branch that would
insert the row is only reached for a salvage row whose date and amount are both NULL.

### Triggers

| Property | Says |
|---|---|
| `TypeOK` | the lists hold triggers, the clock keeps its range |
| `AlarmsNeverMissed` | what was due at the opening and no save lowered is in a list when the screen is shown, a severe one in the severe list, even if midnight falls between two queries |
| `NoFalseAlarm` | what is listed was due at the opening, unless a save raised it or midnight made it due; nothing is left over from an earlier load |
| `FiledOnce` | a trigger that nothing touched is in exactly the list its `Level` asks for, and in no other: the pairs of queries meet without gap or overlap |

`AlarmsNeverMissed` holds only because of the order of the queries: time moves a due date from
the warning query to the severe one, and the severe one runs later. With the two halves
swapped a project that becomes overdue at midnight is in neither list.

"Due" in all three means by `Level`. `Level` states the thresholds (0, 20, today, today + 3) by distances, independently of the
queries, but takes from the WHERE clauses which projects count: those with or without an MCS number, in the Active
stage, not complete. Five of the six comments in `DatabaseConnector.m` say something else:

| Comment | Query | A project the two disagree on |
|---|---|---|
| 1045 "all the projects with an MCS Number of -1" | 1050 also asks for the Active stage | no number, not Active: described, not listed |
| 1058 "should invoice > invoiced and should invoice < 20" | 1063 asks for should invoice < invoiced + 20 | invoiced 40, should invoice 59: listed, not described |
| 1071 "a Costco Due Date within 3 days of current date" | 1076 also asks for a number and the Active stage | due today without a number, or not Active: described, not listed |
| 1084 "a scheduled turn over date prior to the current date and project status not equal complete" | 1089 also asks for a number | turnover passed, without a number: described, not listed |
| 1097 "a Costco Due Date past the current date" | 1102 also asks for a number and the Active stage | overdue without a number, or not Active: described, not listed |

A severe gap is described as it is queried (1110, 1115). The model follows the queries, and the run has a row of each kind in the
table: `FiledOnce` would be false if `Level` followed the comments. An Active project without a number is at
least listed for having none; one that is neither Active nor numbered is reported by nothing but its invoice gap, and the Costco due date of
one that is not Active by nothing.

### Reports

| Property | Says |
|---|---|
| `TypeOK` | types of the table, the query results and the grid |
| `OwnPeople` | a row shows the manager and supervisor of its own project, if every wanted project had all its rows at the first query and no edit moved one in or out; projects created between the queries do no harm |
| `CrashesOnlyOnRaggedData` | joining or drawing indexes past the end of an array only when that condition fails, or in the active report of the south east |
| `HeadersMatch` | headers and cells agree, column by column, the repair report apart |
| `TitleTrue` | the grid lists projects of the stage that was asked for |

The conditions of `OwnPeople` are needed, and the code establishes neither: a creation that stops
between its statements leaves a project without people for good (`AbandonedForever` in
`ProjectStore`). From then on the weekly report of every user shows each later project with its neighbour's
people, or ends the app. `ReportRowDoc` gives the shortest such run against the comment "each
index of the outer array is a project" (`GenerateReportSearchHelper.m` 379).

Two reports are wrong on good data, and the properties name them: the active report of the south east selects
permitApplication and never adds it to a row (`DatabaseConnector.m` 743), so that the eleventh header raises over ten
cells (`MissesCell`); the headers of the repair report lack Punch List (`GenerateReportSearchHelper.m` 362).

### Forms

| Property | Says |
|---|---|
| `TypeOK` | what a cell of each kind may hold |
| `SavedIsShown` | a save writes what the screen shows, for every cell but a text field the create form leaves open |
| `MeantIsSaved` | a save writes into a cell what the user put into that cell, or what was loaded, up to namesakes; another row only when a name changed between the two loads |
| `RaisesOnlyOnDrift` | a save meets a name it cannot find only when a name changed between the two loads |

`FormSaveDoc` is the exception of `SavedIsShown`: the Save button of the create form does not end the editing of
the text field, unlike that of the view form, so that what is in the field is not saved, although the
comment on `save:` says it "Saves the information entered into the UITextFields"
(`CreateNewProjectTableViewController.m` 483).

### Search

| Property | Says |
|---|---|
| `TypeOK` | types of lists, criteria and fields |
| `FoundUnderTheirName` | the projects offered were, when found, at the warehouse and in the stage whose names are on the screen |
| `OnlyNamesakesConfused` | a criterion is the row the user pointed at or one of the same name |
| `FilledFieldsCount` | a field with a name has a criterion behind it, unless a swipe back was let go |

The exception of the last one is a divergence a user meets as an alert that asks for fields that are filled
(`ViewExistingProjectViewController.m` 132-134): `viewDidAppear` resets the criteria, not the fields.

### Login and connections

| Property | Says |
|---|---|
| `TypeOK` | types, answers of at most `MaxAge` seconds |
| `VerdictTrue` | the two queries answer as one look at the table could have during the attempt; a user removed in between may be told that the password is wrong |
| `TwoAnswersAtMost` | a second press can put a second answer on its way, never a third; behind the menu at most one comes late |
| `ConnectionPerHandler` | the place is filled while a handler queries and empty between handlers, on each path |
| `EveryHandlerCostsOne` | between handlers a device holds one connection per handler since its launch and one for the connector, those the server ended apart |
| `HudHasTimer` | the HUD never lies over the login screen without a timer that will take it away, on whichever of the three paths the attempt ends |
| `FirstAnswered` | a login leads to the menu, an alert, or the end of the process |

`EveryHandlerCostsOne` is no virtue: it measures what the code does, where the comments of `DatabaseConnector.m` (67, 82) speak of
"ending and recreating a database connection" and the lines that ended it are commented out (74, 76, 90, 95).
At the server's limit the next handler raises and ends the process (`CallRaises`), which frees its
connections; the comment that `connectToDatabase` returns false on failure (48) is never true.

### Keys of a fetch

| Property | Says |
|---|---|
| `TypeOK` | one key for each column described |
| `KeysDistinct` | no two columns of a result share a key |
| `KeysFound` | every key that is read is there, in all statements but one |

The one is the trigger of a near due date: `ViewTriggersHelper.m` 68 asks for `costcoDueDate`, which is stored as
`project.costcoDueDate`, and the trigger says "(null)".

## Runs

The instances of the store have two devices. Ids are bounded by the sets in each `.cfg`; a save starts only
while an id of each kind is left (`RoomForProject`).

| Run | Instance | Question |
|---|---|---|
| `StoreCreate` | 2 creators, nothing stored, 2 ids of each kind, 2 values | two creations at once, opened half made, dying anywhere |
| `StoreLegacy` | 2 editors, 2 projects, one without salvage row, one with an empty one, 2 ids to insert salvage rows, whole forms | both branches of the salvage update, racing on one project, each partial failure followed by further saves, a salvage row replaced between the SELECT of its id and the UPDATE |
| `StoreMixed` | 1 creator, 1 editor, one stored project, fair main threads | opening and saving a project while it is being created; what it finds; what the reports see of it; every load and save ends |
| `StoreSalvageFlag` | as `StoreLegacy`, 1 id to insert | the comment on the flag (violated) |
| `TriggerLoad` | 1 project, 14 rows, days 0 and 1 | each boundary of the six queries, crossed by saves and by midnight |
| `Reports` | 2 projects, 5 stages, every report and type | people, columns, stages and crashes while others create and edit |
| `ReportRowDoc` | 2 projects, weekly active report | the rows as documented (violated) |
| `ProjectForm` | cells 2, 9, 12 and 27, 2 rows, 2 names, 2 texts | a name, a text, a date and a number through loads, edits and saves |
| `FormSaveDoc` | cells 4 and 30 | the comment on the create form's save (violated) |
| `ProjectSearch` | 2 warehouses and stages, 2 names, 1 project | searches against reloads, renamed rows and moves |
| `Login` | 2 devices, 3 connections, 2 passwords, 1 typed | logins and screens at the limit of the server |
| `FetchKeys` | all 25 statements | the key of each column and of each read |

*Why these bounds.* For the store: a property relates at most two devices and two projects: a mix-up needs one other
device and one other row. Two values tell an old content from a new one; a third adds
nothing, since no statement compares values. `CellGroups` bounds which parts a user fills
in at once: all of them (`WholeForm`), or halves that split the three required parts and the
three others (`HalfForms`), so that incomplete forms and partly changed screens occur.
In `StoreMixed` there is one value (two make more than five million states), so that saves change optional cells only and `FeedsReports`
is tested on creations; the theorem has no such bound. Its project ids are the numbers 1 and 2, which `Reports` compares.
For the triggers: the queries treat projects one by one, so one project with rows on
both sides of every constant (today, today + 3, 0, 20), seen on two days, meets every case. For the
reports: two projects are enough to shift a person by a row, the columns do not depend on how many there
are. For the forms: one cell of each kind, on both sides of the sections and of the two-digit rows, with a place (12) that a
forgotten 10 would take for another one (2); tag 50 and the dates in rows 10 to 15 are not among them, and `PlaceOfTag` and `MeantSaved` are for all 33; two rows
with two names make namesakes, renamings and names that are gone. Search: likewise, and one project that moves. Login: three
connections are used up by one login and by two; ages stop at `MaxAge`, which no answer
passes; `MaxDrops` bounds the connections the server ends. Where a bound could hide something, the theorem is for every value.
Symmetry is used only on sets whose members the instance treats alike, never on ids where the first row of a name
wins, and never in a run with a liveness property.

*Fairness.* `StatementsEnd` assumes only that a device with a statement to execute goes on:
the statements run one after the other on the main thread, and a statement that cannot
succeed fails. `FirstAnswered` assumes the same of the login's statements and that time passes and timers fire
(`Step`). Nothing is assumed of users, nor of the system that kills and launches the
app; `Kill` may happen at any time and need not. The other modules state safety only.

## Proofs

`ProjectStoreProofs` proves, for any sets of devices, projects and ids,
`Spec => []TypeOK`, `[]LinksSound`, `[]OwnRows` and `[]SelectedRows`. The assumptions are those named in
`ProjectStore`: `NULL` is no row, id or content; `Blank` and `Unset` are not entered by users; the existing
projects are some of the projects.

None of the four is inductive alone. `LinkCloseout` keeps `LinksSound` only because the row it links
is in nobody else's hands (`OwnRows`); `LinkSalvage` and `UpdateCloseout` have a row to
write only because the id selected a statement earlier still is the project's own
(`SelectedRows`), and even `TypeOK` needs that. Their conjunction `IInv` is inductive. The proof has one
lemma per statement; the statements that leave the links between rows as they are, and all
user actions and failures, share the frame lemmas `DropsRows` and `StaysOpen`, which say that
the other devices keep what they hold.

`ProjectStoreSteps` goes on, under the same assumptions, to what steps may do. `StepInv` adds two facts to `IInv`: a
running creation has made exactly the rows of the statements it has passed (`MadeInOrder`), and a row waiting to be
linked holds what was entered on its device (`RowsWait`). Each statement has a lemma that gives its effect on what is stored
of the projects: `Puts`, the parts of one project that take the values entered, all else kept. From these effects follow

* `Spec => Isolation`: a step changes only what its device's save is about;
* `Spec => AbandonedForever`: what a failed or killed creation leaves half made is never completed;
* `Spec => RegistrySpec`, the refinement: `record[p]` is `Stored(p)`, `InsertProject` is `Begin`, `InsertManager` and
  `InsertSupervisor` assign, `LinkCloseout` is `Finish`, the updates are `Change`, `LinkSalvage` is `AddSalvage` or, where
  an older row is replaced, `Change`; everything else stutters. `MadeInOrder` is what gives `Finish` its guard;
* `Spec => []ScreenIsStored`, from `ScreenInv`: at each step of a load or a save, the parts of the screen that its
  finished statements have read or written (`Done`) are those stored, unless another device wrote;
* `Spec => []FilledInOrder` and `Spec => NothingIsLost`: a project has always one of six sets of parts, whatever failed where, and no
  step takes a part away;
* `Spec => []SavesFindTheirRows`: what is loaded is complete, the salvage row apart, and stays so;
* `Spec => StatementsAdvance`: each step of a load or a save ends it or leaves it fewer statements (`StatementsLeft`), and no other
  device moves it. This is the measure behind `StatementsEnd`: all that fairness adds is that the next statement is executed;
* `Spec => FeedsReports` and `Spec => FeedsTriggers`, for any way in which stage, conditions and columns depend on the cells
  (`ReadersAssumption`), from the refinement: a step of the registry is looked at through the views, case by case. `Begin` is
  `CreateProject`; `AssignManager`, `AssignSupervisor` and `Finish` are `InsertPart`, whose guard is the order in which the registry fills
  the parts; `Change` is an `EditProject`, or nothing, as `AddSalvage` is. So what is proved of `Reports` and `Triggers` under any such steps of others
  holds for the devices of `ProjectStore`, the half-made projects of devices that died included. `Reports` starts from no projects;
  one that exists at the start of `ProjectStore` is one that has been created and joined by its rows before (the
  first numbers are theirs).

`TriggersProofs` proves, for any projects, any set of rows and any bound on the clock,
`Spec => []TypeOK`, `[]AlarmsNeverMissed`, `[]NoFalseAlarm` and `[]FiledOnce`, from `RowsAssumption` (rows are
rows, `NoDate` is no day) and `DayAssumption`. Three lemmas on `Level` hold the arithmetic: the WHERE
clauses give each trigger exactly one level, and a later day never lowers it. The rest never looks
into a row again. The invariant `TriggerInv` says what the load has achieved at each step of `NextStep`: while it
runs, an unsaved trigger is at least as urgent as it was (`Holding`) and a calm one at most
(`NotGrowing`); what is in a list was due (`Grounded`); and past its query a due trigger is in its list, or,
for the two kinds that have a warning and a severe query, is severe by now and will be found by
the later one (`Found`). That last clause is where the order of the queries enters.

`ReportsProofs` proves, for any number of projects and any choice of criteria, all five invariants of `Reports`. The arithmetic is in
`OrderOfRows` (a query returns each of its rows once, the i-th with i - 1 before it, from finite cardinalities) and `LaterRowsLast`
(rows that come after all others leave the others in their places). The invariant `ReportInv` says that ids have no gap (`NoGap`), that the
criteria past the first screen are not refused ones (`Accepted`), that the first query found a set of complete, still wanted projects after which
every other wanted one comes (`FirstFound`), and that each people query, once run, is aligned with it
(`Joined`). A creation keeps `FirstFound` because of `NoGap`; an edit, because it would set `moved`. `OwnPeople` and
`CrashesOnlyOnRaggedData` follow at the loop. The columns are compared report by report (`SameColumns`, `RepairColumns`, `SouthEastColumns`).

`ProjectFormProofs` proves, for any of the 33 cells, any rows, names and texts, `[]TypeOK`, `[]SavedIsShown`, `[]MeantIsSaved` and
`[]RaisesOnlyOnDrift`. `PlaceOfTag` is the arithmetic: on the cells that reach them, the three computations
of a place are inverse to `CellTag`. `FormInv` ties each cell to its string (what is saved stands for what is shown) and
to what was meant, and says that a name in `cellArray` is in the lists unless a name drifted. `RowsAreSaved` draws the conclusion for the database: a saved id
always belongs to a row, and it is the one that was meant where no name drifted and no two rows share a name.

`ProjectSearchProofs` proves, for any rows, names and projects, the four invariants of `ProjectSearch`, from `SearchInv`: a criterion is a listed row of the name in the
field, as long as the criteria are those of this appearance. It also says that `found` is exactly the projects with the criteria, so that (`SearchExact`)
without namesakes a search finds all projects of the two rows that were named, and no others.

`LoginProofs` proves, for any devices, connections, passwords and bound on drops, all of `Login` that is safety, with an invariant of its own for each: `Spaced` (the ages of the
answers on their way are apart by what the HUD takes) for `TwoAnswersAtMost`, `Connector` for the place, `Counted` for the number of connections, `SeenOf` for the rows an attempt
could have seen, `Timed` (the last answer on its way is the one of the attempt that put up the HUD) for `HudHasTimer`. `VerdictTrue` is an action property. Two theorems go beyond
the runs: `HandlersRunOut`, that on a server with finitely many connections a device gets through at most one handler for each connection no other
device holds and each that the server ends, and `AttemptsComeForward` (`AttemptsAdvance`): an attempt only moves forward, ends with a verdict put off to be told or with
the process, and a verdict that is told shows an alert or the menu. The last is what `FirstAnswered` rests on besides fairness.

`FetchKeysProofs` proves `[]TypeOK` and `[]KeysDistinct` for any statements that select no column twice (`ColumnsAssumption`, checked by TLC for the statements of
the application): a key without a table can only be one of the first table's, and no later key lacks its table. `[]KeysFound` follows for any readers that
spell their keys as the text of the statement suggests, one apart (`ReadersAssumption` of `FetchKeys`): the prefix depends only on the columns to the left (`ExpectedKey`), while the loop decides it by the set of
tables it has met. That the 25 statements and their readers are such is evaluated by TLC when it checks the assumption in the run `FetchKeys`.

Model-checked only: `StatementsEnd` and `FirstAnswered`, because liveness under fairness is out of the prover's reach; their measures
are proved. The theorems about `StatementsAdvance`, `FilledInOrder`, `NothingIsLost`, `FeedsTriggers`, `AttemptsAdvance`, `HandlersBounded`, `SearchIsExact` and
`SavedRowsAreRows` state properties that no run repeats.

## Not modelled

* The wording and layout of screens, logging, the value classes (immutable) and the application shell (empty handlers).
* The conversion of column values to objects in `MysqlFetch.m` and of objects to SQL in `MysqlInsert.m` and `MysqlUpdate.m`; `MysqlDelete.m`, which
  nothing calls.
* Rows of the tables of names that are removed: the app cannot, and the model's administrator only adds and
  renames. Empty lists, whose pickers have no row to point at.
* The HVAC report, which the code mentions and never offers.

## Plan

Done: the store and its registry, the forms, triggers, reports, search, login, connections and the keys of
a fetch, each with its proofs. Left:

* The conversions of `MysqlFetch.m`, type by type, against what the readers expect of each column.
