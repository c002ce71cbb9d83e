---------------------------- MODULE ProjectForm ----------------------------
(***************************************************************************)
(* The two project forms, the one that creates a project and the one that  *)
(* shows and edits it.  Behind a form are two arrays, cellArray with what  *)
(* is saved and projectStrings with what is shown, and lists of the names  *)
(* a cell may hold.  The form is filled cell by cell from pickers and text *)
(* fields; a save turns names back into ids through the lists, which are   *)
(* as old as the form.                                                     *)
(*                                                                         *)
(* One project is edited; other devices save it too, and rows are added to *)
(* the tables of names and renamed, while the form loads and afterwards.   *)
(* A save is one step here, its statements are in ProjectStore.            *)
(***************************************************************************)
EXTENDS FormCells

CONSTANTS
    Cells,          \* the cells of the instance, among the 33 places
    Id, Name,       \* the rows of the tables of names
    Text,           \* what is typed, picked as a date, or read from the table
    Blank,          \* the empty text, one of Text
    IntegerValue,   \* integerValue: the text of the number read from a text
    Null            \* NSNull, no row, no focus

Pickers == {i \in Cells : PicksName(i)}
Dates == {i \in Cells : PicksDate(i)}
Fields == {i \in Cells : TakesText(CellTag(i))}

ASSUME CellsAssumption ==
    /\ Cells \subseteq Places
    /\ Id \subseteq Nat
    /\ Blank \in Text
    /\ Text \cap Name = {} /\ Text \cap Nat = {} /\ Name \cap Nat = {}
    /\ Null \notin Nat \cup Name \cup Text
ASSUME IntegerAssumption ==
    /\ IntegerValue \in [Text -> Text]
    /\ \A t \in Text : IntegerValue[IntegerValue[t]] = IntegerValue[t]

VARIABLES
    names,          \* the tables of names: the name of each id, or Null
    stored,         \* the project in the database
    pc,             \* where the form is
    form,           \* which form it is
    isEditing,      \* the view form lets the user edit
    list,           \* the lists of the helper
    cells,          \* cellArray
    strings,        \* projectStrings
    focus, draft,   \* the text field that is edited and what is in it
    meant,          \* ghost: what the user put into each cell, or was loaded
    drifted         \* ghost: a name changed between the two loads

database == <<names, stored>>
ghosts == <<meant, drifted>>
arrays == <<cells, strings>>
edited == <<focus, draft>>
vars == <<names, stored, pc, form, isEditing, list, cells, strings, focus,
          draft, meant, drifted>>

\* away; the lists are loaded, then the project; the form is up; a save has been
\* made; an exception ended the process.
Where == {"away", "lists", "project", "up", "saved", "raised"}

Values(i) ==
    IF i \in Pickers THEN Id \cup Name \cup {Null} ELSE Text \cup {Null}

TypeOK ==
    /\ names \in [Pickers -> [Id -> Name \cup {Null}]]
    /\ stored \in [Cells -> Id \cup Text \cup {Null}]
    /\ pc \in Where
    /\ form \in {"create", "view"}
    /\ isEditing \in BOOLEAN
    /\ list \in [Pickers -> [Id -> Name \cup {Null}]]
    /\ cells \in [Cells -> UNION {Values(i) : i \in Cells}]
    /\ strings \in [Cells -> Name \cup Text \cup {Null}]
    /\ \A i \in Cells : cells[i] \in Values(i)
    /\ focus \in Fields \cup {Null}
    /\ draft \in Text
    /\ meant \in [Cells -> Id \cup Text \cup {Null}]
    /\ drifted \in BOOLEAN

NullCells == [i \in Cells |-> Null]

\* The cells whose text is saved as a number.
Numbers == {0, 26, 27, 28, 31, 32}

\* The texts that the form of some device can have saved: a date is picked and
\* never emptied, a number is the one in its text.
Saved(i) ==
    IF i \in Dates THEN Text \ {Blank}
    ELSE IF i \in Numbers THEN {IntegerValue[t] : t \in Text}
    ELSE Text

\* The project has a row of each table of names.
Init ==
    /\ names \in [Pickers -> [Id -> Name \cup {Null}]]
    /\ stored \in [Cells -> Id \cup Text \cup {Null}]
    /\ \A i \in Cells : IF i \in Pickers
                        THEN stored[i] \in Id /\ names[i][stored[i]] # Null
                        ELSE stored[i] \in Saved(i) \cup {Null}
    /\ pc = "away"
    /\ form = "view"
    /\ isEditing = FALSE
    /\ list = [i \in Pickers |-> [n \in Id |-> Null]]
    /\ cells = NullCells /\ strings = NullCells
    /\ focus = Null /\ draft = Blank
    /\ meant = NullCells /\ drifted = FALSE

-----------------------------------------------------------------------------
(* A form appears. *)

\* viewDidLoad; the form appears.
Open(f) ==
    /\ pc = "away"
    /\ pc' = "lists"
    /\ form' = f
    /\ isEditing' = FALSE
    /\ UNCHANGED <<database, list, arrays, edited, ghosts>>

\* The user begins to swipe back and lets go: viewDidAppear again.
SwipeLetGo ==
    /\ pc = "up"
    /\ pc' = "lists"
    /\ focus' = Null /\ draft' = Blank
    /\ UNCHANGED <<database, form, isEditing, list, arrays, ghosts>>

\* Mutant of LoadLists: the helper of an earlier appearance is kept.
LoadListsOnce ==
    /\ pc = "lists"
    /\ list' = (IF \A i \in Pickers, n \in Id : list[i][n] = Null THEN names ELSE list)
    /\ drifted' = FALSE
    /\ IF form = "create"
       THEN /\ pc' = "up"
            /\ cells' = NullCells /\ strings' = NullCells
            /\ meant' = NullCells
       ELSE /\ pc' = "project"
            /\ UNCHANGED <<arrays, meant>>
    /\ UNCHANGED <<database, form, isEditing, edited>>

\* init of the helper.  The create form begins with empty arrays.
LoadLists ==
    /\ pc = "lists"
    /\ list' = names /\ drifted' = FALSE
    /\ IF form = "create"
       THEN /\ pc' = "up"
            /\ cells' = NullCells /\ strings' = NullCells
            /\ meant' = NullCells
       ELSE /\ pc' = "project"
            /\ UNCHANGED <<arrays, meant>>
    /\ UNCHANGED <<database, form, isEditing, edited>>

\* The names that the project's ids have now, and its other values.
Fetched == [i \in Cells |-> IF i \in Pickers THEN names[i][stored[i]] ELSE stored[i]]

\* getProjectInformationFromDatabase; both arrays begin with what it returns.
LoadProject ==
    /\ pc = "project"
    /\ pc' = "up"
    /\ cells' = Fetched /\ strings' = Fetched
    /\ meant' = stored
    /\ UNCHANGED <<database, form, isEditing, list, edited, drifted>>

\* A query, a statement or the connection raises: the process ends.
CallRaises ==
    /\ pc \in {"lists", "project"}
    /\ pc' = "raised"
    /\ UNCHANGED <<database, form, isEditing, list, arrays, edited, ghosts>>

\* Back from the form, or a new launch: the arrays are gone.
Leave ==
    /\ pc \in {"up", "raised"}
    /\ pc' = "away"
    /\ form' = "view" /\ isEditing' = FALSE
    /\ list' = [i \in Pickers |-> [n \in Id |-> Null]]
    /\ cells' = NullCells /\ strings' = NullCells
    /\ focus' = Null /\ draft' = Blank
    /\ meant' = NullCells /\ drifted' = FALSE
    /\ UNCHANGED database

-----------------------------------------------------------------------------
(* The cells. *)

Editable == pc = "up" /\ (form = "create" \/ isEditing)

Shown(i) == IF strings[i] = Null THEN Blank ELSE strings[i]

Put(array, place, value) == [array EXCEPT ![place] = value]

\* editProject with the title Edit
Edit ==
    /\ pc = "up" /\ form = "view" /\ ~isEditing
    /\ isEditing' = TRUE
    /\ UNCHANGED <<database, pc, form, list, arrays, edited, ghosts>>

\* A text field becomes the first responder, with the text it shows.
BeginEditing(i) ==
    /\ Editable /\ focus = Null
    /\ i \in Fields
    /\ focus' = i
    /\ draft' = Shown(DrawnAt(CellTag(i)))
    /\ UNCHANGED <<database, pc, form, isEditing, list, arrays, ghosts>>

Type(t) ==
    /\ pc = "up" /\ focus # Null
    /\ draft' = t
    /\ UNCHANGED <<database, pc, form, isEditing, list, arrays, focus, ghosts>>

\* What textFieldDidEndEditing puts into the arrays for a field and its text.
CellsEnded(i, t) ==
    Put(cells, EndedAt(CellTag(i)), IF CellTag(i) = 50 THEN IntegerValue[t] ELSE t)

\* Mutant of StringsEnded: what was typed is put into cellArray alone.
StringsEndedOld(i, t) == strings

StringsEnded(i, t) == Put(strings, EndedAt(CellTag(i)), t)

EndedCells == IF focus = Null THEN cells ELSE CellsEnded(focus, draft)
EndedStrings == IF focus = Null THEN strings ELSE StringsEnded(focus, draft)
MeantEnded == IF focus = Null THEN meant ELSE [meant EXCEPT ![focus] = draft]

\* The return key, a tap outside, or another field taking over.
EndEditing ==
    /\ pc = "up" /\ focus # Null
    /\ cells' = EndedCells
    /\ strings' = EndedStrings
    /\ focus' = Null /\ draft' = Blank
    /\ meant' = MeantEnded
    /\ UNCHANGED <<database, pc, form, isEditing, list, drifted>>

Namesakes(i, name) == {n \in Id : list[i][n] = name}

\* rowIDOf...FromName: the first row of the name, or nil.
RowIDOf(i, name) ==
    IF Namesakes(i, name) # {} THEN CHOOSE n \in Namesakes(i, name) : TRUE ELSE Null

\* ...Picked:element: for the rows of a list; a picker has no focus.
PickName(i, n) ==
    /\ Editable /\ focus = Null
    /\ i \in Pickers /\ list[i][n] # Null
    /\ LET place == InsertedAt(CellTag(i))
       IN  /\ cells' = Put(cells, place, RowIDOf(i, list[i][n]))
           /\ strings' = Put(strings, place, list[i][n])
    /\ meant' = [meant EXCEPT ![i] = n]
    /\ UNCHANGED <<database, pc, form, isEditing, list, edited, drifted>>

\* datePicked:element:
PickDate(i, t) ==
    /\ Editable /\ focus = Null
    /\ i \in Dates /\ t # Blank
    /\ LET place == InsertedAt(CellTag(i))
       IN  cells' = Put(cells, place, t) /\ strings' = Put(strings, place, t)
    /\ meant' = [meant EXCEPT ![i] = t]
    /\ UNCHANGED <<database, pc, form, isEditing, list, edited, drifted>>

-----------------------------------------------------------------------------
(* Saving. *)

IsRequiredInformationFilled(array) == \A i \in Cells : i < 10 => array[i] # Null

\* The cells that the create form saves as 0 when they are empty.
NotNull == {26, 27, 28}

\* save of the create form.  Save is in the navigation bar, so the field that is
\* edited goes on being edited.
Create(succeeds) ==
    /\ pc = "up" /\ form = "create"
    /\ IsRequiredInformationFilled(cells)
    /\ cells' = [i \in Cells |-> IF i \in NotNull /\ cells[i] = Null
                                 THEN IntegerValue[Blank] ELSE cells[i]]
    /\ pc' = IF succeeds THEN "saved" ELSE "up"
    /\ UNCHANGED <<database, form, isEditing, list, strings, edited, ghosts>>

\* Mutant of Converted: the names are saved as they stand.
ConvertedNumbers(array) ==
    [i \in Cells |->
        IF i \in Numbers /\ array[i] # Null THEN IntegerValue[array[i]] ELSE array[i]]

\* save of the view form turns strings into the ids and numbers they stand for.
Converted(array) ==
    [i \in Cells |->
        IF i \in Pickers /\ array[i] \in Name THEN RowIDOf(i, array[i])
        ELSE IF i \in Numbers /\ array[i] # Null THEN IntegerValue[array[i]]
        ELSE array[i]]

\* A name that is in no list: replaceObjectAtIndex:withObject: raises for nil.
Unknown(array) ==
    \E i \in Pickers : array[i] \in Name /\ Namesakes(i, array[i]) = {}

\* editProject with the title Save: the editing ends, the form goes back to
\* showing, and the cells are converted, whether or not they are then saved.
Save(succeeds) ==
    /\ pc = "up" /\ form = "view" /\ isEditing
    /\ ~Unknown(EndedCells)
    /\ isEditing' = FALSE
    /\ focus' = Null /\ draft' = Blank
    /\ cells' = Converted(EndedCells)
    /\ strings' = EndedStrings
    /\ IF IsRequiredInformationFilled(cells') /\ succeeds
       THEN pc' = "saved" /\ stored' = cells'
       ELSE pc' = "up" /\ UNCHANGED stored
    /\ meant' = MeantEnded
    /\ UNCHANGED <<names, form, list, drifted>>

SaveRaises ==
    /\ pc = "up" /\ form = "view" /\ isEditing
    /\ Unknown(EndedCells)
    /\ pc' = "raised"
    /\ UNCHANGED <<database, form, isEditing, list, arrays, edited, ghosts>>

\* The save is over and the form still up.
Resume ==
    /\ pc = "saved"
    /\ pc' = "up"
    /\ UNCHANGED <<database, form, isEditing, list, arrays, edited, ghosts>>

-----------------------------------------------------------------------------
(* Others. *)

NameRow(i, n, name) ==
    /\ names' = [names EXCEPT ![i][n] = name]
    /\ drifted' = (drifted \/ pc = "project")
    /\ UNCHANGED <<stored, pc, form, isEditing, list, arrays, edited, meant>>

SaveElsewhere(i, v) ==
    /\ IF i \in Pickers THEN v \in Id /\ names[i][v] # Null ELSE v \in Saved(i)
    /\ stored' = [stored EXCEPT ![i] = v]
    /\ UNCHANGED <<names, pc, form, isEditing, list, arrays, edited, ghosts>>

Next ==
    \/ \E f \in {"create", "view"} : Open(f)
    \/ SwipeLetGo
    \/ LoadLists
    \/ LoadProject
    \/ CallRaises
    \/ Leave
    \/ Edit
    \/ \E i \in Fields : BeginEditing(i)
    \/ \E t \in Text : Type(t)
    \/ EndEditing
    \/ \E i \in Pickers, n \in Id : PickName(i, n)
    \/ \E i \in Dates, t \in Text : PickDate(i, t)
    \/ \E succeeds \in BOOLEAN : Create(succeeds)
    \/ \E succeeds \in BOOLEAN : Save(succeeds)
    \/ SaveRaises
    \/ Resume
    \/ \E i \in Pickers, n \in Id, name \in Name : NameRow(i, n, name)
    \/ \E i \in Cells, v \in Id \cup Text : SaveElsewhere(i, v)

Spec == Init /\ [][Next]_vars

-----------------------------------------------------------------------------
(* Properties. *)

\* What a saved cell and the text on the screen have to do with each other: an
\* id is that of a row listed under the text, a number is the one in the text.
Stands(i, value, text) ==
    \/ value = text
    \/ value = Null /\ text = Blank
    \/ i \in Pickers /\ value \in Id /\ list[i][value] = text
    \/ i \in Numbers /\ text \in Text /\ value = IntegerValue[text]

\* The text in the field at place i: what is typed, or the string of the place
\* the table draws there.
OnScreen(i) == IF focus = i THEN draft ELSE Shown(DrawnAt(CellTag(i)))

\* A save writes what the form shows: the two arrays, written by six pieces of
\* code with three ways to compute a place, and the lists never part company
\* with the place the table draws.
\* The one exception is the text field the create form leaves open.
SavedIsShown ==
    pc = "saved" => \A i \in Cells \ {focus} : Stands(i, cells[i], OnScreen(i))

\* What was put into a cell, and the value a save may write for it: the row
\* itself or a listed namesake, the number a text stands for, 0 for nothing.
Keeps(i, value, wanted) ==
    \/ value = wanted
    \/ /\ i \in Pickers
       /\ \/ drifted
          \/ value \in Id /\ wanted \in Id /\ list[i][value] = list[i][wanted]
    \/ i \in Numbers /\ wanted \in Text /\ value = IntegerValue[wanted]
    \/ i \in NotNull /\ wanted = Null /\ value = IntegerValue[Blank]

\* A save writes into every cell what the user put into that cell, or what the
\* project had when it was loaded, whichever of the three computations of a place
\* it went through.  A name may become the row of a namesake; it may become
\* another row only when a name changed between the load of the lists and that
\* of the project.
MeantIsSaved == pc = "saved" => \A i \in Cells : Keeps(i, cells[i], meant[i])

\* A save ends the application for want of a row only if a name changed between
\* the load of the lists and that of the project: later changes do no harm.
RaisesOnlyOnDrift ==
    pc = "up" /\ form = "view" /\ Unknown(EndedCells) => drifted

\* What the comment on save of the create form says: it saves the information
\* entered into the text fields.
SavesWhatIsEntered ==
    pc = "saved" => \A i \in Cells : Stands(i, cells[i], OnScreen(i))
=============================================================================
