------------------------- MODULE ProjectFormProofs -------------------------
(***************************************************************************)
(* Proofs about ProjectForm, for all the cells of the form and any names,  *)
(* ids and texts: the three computations of a place from a tag agree, the  *)
(* two arrays and what the user did never part, and only a name that       *)
(* changes between the two loads can do harm.                              *)
(***************************************************************************)
EXTENDS ProjectForm, TLAPS

-----------------------------------------------------------------------------
(* The tags. *)

\* A tag leads back to the place it was made for, where the cell is drawn and
\* where the pickers insert; and where editing ends, for the cells it takes.
LEMMA PlaceOfTag ==
    ASSUME NEW i \in Places
    PROVE  /\ DrawnAt(CellTag(i)) = i
           /\ InsertedAt(CellTag(i)) = i
           /\ TakesText(CellTag(i)) => EndedAt(CellTag(i)) = i
<1>1. CASE i < 10
  <2>1. CellTag(i) = 50 + i
    BY <1>1 DEF CellTag, Section, Row, Places
  <2>2. (50 + i) % 10 = i /\ (50 + i) \div 10 = 5 /\ (60 + i) % 10 = i
    BY <1>1 DEF Places
  <2> QED
    BY <1>1, <2>1, <2>2 DEF DrawnAt, InsertedAt, TakesText, EndedAt, Tail1, First, Places
<1>2. CASE i >= 10 /\ i < 20
  <2>1. CellTag(i) = 50 + i
    BY <1>2 DEF CellTag, Section, Row, Places
  <2>2. (50 + i) % 10 = i - 10 /\ (50 + i) \div 10 = 6
    BY <1>2 DEF Places
  <2> QED
    BY <1>2, <2>1, <2>2 DEF DrawnAt, InsertedAt, TakesText, Tail1, First, Places
<1>3. CASE i >= 20
  <2>1. CellTag(i) = 590 + i
    BY <1>3 DEF CellTag, Section, Row, Places
  <2>2. (590 + i) % 100 = i - 10 /\ (590 + i) \div 100 = 6 /\ (600 + i) % 100 = i
    BY <1>3 DEF Places
  <2> QED
    BY <1>3, <2>1, <2>2 DEF DrawnAt, InsertedAt, TakesText, EndedAt, Tail1, First, Places
<1> QED
  BY <1>1, <1>2, <1>3 DEF Places

\* What the form of some device has saved is a text.
LEMMA SavedTexts == \A i \in Cells : Saved(i) \subseteq Text
  BY IntegerAssumption DEF Saved

\* Pickers, dates and text fields are different cells; pickers are required.
LEMMA KindsOfCells ==
    /\ Pickers \subseteq Cells /\ Dates \subseteq Cells /\ Fields \subseteq Cells
    /\ Pickers \cap Dates = {} /\ Pickers \cap Fields = {}
    /\ \A i \in Pickers : i < 10 /\ i \notin Numbers /\ i \notin NotNull
    /\ \A i \in Dates : i \notin Pickers
    /\ NotNull \subseteq Numbers /\ 0 \in Numbers
    /\ \A i \in Cells : i \in Places
    /\ \A i \in Fields : CellTag(i) = 50 => i = 0
<1>1. \A i \in Cells : i \in Places
  BY CellsAssumption
<1>2. \A i \in Places : PicksName(i) => CellTag(i) \in 51..58
  BY DEF Places, PicksName, CellTag, Section, Row
<1>3. \A i \in Places : CellTag(i) = 50 => i = 0
  BY DEF Places, CellTag, Section, Row
<1>4. Pickers \cap Fields = {}
  BY <1>1, <1>2 DEF Pickers, Fields, TakesText
<1> QED
  BY <1>1, <1>3, <1>4 DEF Pickers, Dates, Fields, PicksName, PicksDate, Numbers, NotNull, Places

\* The way back from a listed name ends at a row of that name.
LEMMA RowOfName ==
    ASSUME NEW i \in Pickers, NEW name, Namesakes(i, name) # {}
    PROVE  RowIDOf(i, name) \in Id /\ list[i][RowIDOf(i, name)] = name
<1>1. RowIDOf(i, name) \in Namesakes(i, name)
  BY DEF RowIDOf
<1> QED
  BY <1>1 DEF Namesakes

-----------------------------------------------------------------------------
(* The invariant. *)

\* The project has a row of each table of names.
RowsKnown ==
    /\ \A i \in Pickers : stored[i] \in Id /\ names[i][stored[i]] # Null
    /\ \A i \in Cells \ Pickers : stored[i] \in Text \cup {Null}

\* A row that is listed is still there, maybe under another name.
ListsKnown == \A i \in Pickers, n \in Id : list[i][n] # Null => names[i][n] # Null

\* Between the two loads, unless a name has changed.
LoadedTogether == pc = "project" => form = "view" /\ (~drifted => list = names)

\* A cell with a name: nothing yet, the name that was loaded, or the id that was
\* picked or that the name was converted to.
NameHeld(i) ==
    \/ cells[i] = Null /\ strings[i] = Null /\ meant[i] = Null
    \/ /\ pc = "up" /\ form = "view"
       /\ cells[i] \in Name /\ strings[i] = cells[i]
       /\ meant[i] \in Id /\ (drifted \/ list[i][meant[i]] = strings[i])
    \/ /\ cells[i] \in Id /\ strings[i] \in Name /\ list[i][cells[i]] = strings[i]
       /\ meant[i] \in Id /\ (drifted \/ list[i][meant[i]] = strings[i])

\* Any other cell: the text, the number it stands for, or 0 for nothing.
TextHeld(i) ==
    /\ strings[i] \in Text \cup {Null} /\ meant[i] = strings[i]
    /\ \/ cells[i] = strings[i]
       \/ i \in Numbers /\ strings[i] \in Text /\ cells[i] = IntegerValue[strings[i]]
       \/ i \in NotNull /\ strings[i] = Null /\ cells[i] = IntegerValue[Blank]

Held == /\ \A i \in Pickers : NameHeld(i)
        /\ \A i \in Cells \ Pickers : TextHeld(i)

FormInv ==
    /\ TypeOK
    /\ RowsKnown
    /\ ListsKnown
    /\ LoadedTogether
    /\ pc \in {"up", "saved"} => Held

\* The ends of editing: the field that is left holds what was typed.
LEMMA EndedTogether ==
    ASSUME FormInv, pc = "up"
    PROVE  /\ EndedCells \in [Cells -> UNION {Values(i) : i \in Cells}]
           /\ EndedStrings \in [Cells -> Name \cup Text \cup {Null}]
           /\ MeantEnded \in [Cells -> Id \cup Text \cup {Null}]
           /\ \A i \in Cells : EndedCells[i] \in Values(i)
           /\ \A i \in Cells \ {focus} : /\ EndedCells[i] = cells[i]
                                         /\ EndedStrings[i] = strings[i]
                                         /\ MeantEnded[i] = meant[i]
           /\ focus # Null => /\ focus \in Cells \ Pickers
                              /\ EndedStrings[focus] = draft /\ MeantEnded[focus] = draft
                              /\ \/ EndedCells[focus] = draft
                                 \/ focus \in Numbers /\ EndedCells[focus] = IntegerValue[draft]
<1>1. CASE focus = Null
  BY <1>1 DEF EndedCells, EndedStrings, MeantEnded, FormInv, TypeOK
<1>2. CASE focus # Null
  <2>1. focus \in Fields /\ focus \in Cells \ Pickers /\ draft \in Text
    BY <1>2, KindsOfCells DEF FormInv, TypeOK
  <2>2. EndedAt(CellTag(focus)) = focus
    BY <2>1, KindsOfCells, PlaceOfTag DEF Fields
  <2>3. CellTag(focus) = 50 => focus \in Numbers
    BY <2>1, KindsOfCells
  <2> DEFINE value == IF CellTag(focus) = 50 THEN IntegerValue[draft] ELSE draft
  <2>4. \/ value = draft
        \/ focus \in Numbers /\ value = IntegerValue[draft]
    BY <2>3
  <2>5. EndedCells = [cells EXCEPT ![focus] = value]
    BY <1>2, <2>2 DEF EndedCells, CellsEnded, Put
  <2>6. value \in Text
    BY <2>1, IntegerAssumption
  <2> HIDE DEF value
  <2>7. value \in Values(focus) /\ value \in UNION {Values(i) : i \in Cells}
    BY <2>1, <2>6 DEF Values
  <2>8. EndedStrings = [strings EXCEPT ![focus] = draft]
    BY <1>2, <2>2 DEF EndedStrings, StringsEnded, Put
  <2>9. MeantEnded = [meant EXCEPT ![focus] = draft]
    BY <1>2 DEF MeantEnded
  <2>10. /\ cells \in [Cells -> UNION {Values(i) : i \in Cells}]
         /\ strings \in [Cells -> Name \cup Text \cup {Null}]
         /\ meant \in [Cells -> Id \cup Text \cup {Null}]
         /\ \A i \in Cells : cells[i] \in Values(i)
    BY DEF FormInv, TypeOK
  <2> HIDE DEF EndedCells, EndedStrings, MeantEnded
  <2>11. /\ EndedCells \in [Cells -> UNION {Values(i) : i \in Cells}]
         /\ \A i \in Cells \ {focus} : EndedCells[i] = cells[i]
         /\ EndedCells[focus] = value
    BY <2>1, <2>5, <2>7, <2>10
  <2>12. \A i \in Cells : EndedCells[i] \in Values(i)
    BY <2>7, <2>10, <2>11
  <2> QED
    BY <2>1, <2>4, <2>8, <2>9, <2>10, <2>11, <2>12
<1> QED
  BY <1>1, <1>2

\* Editing ends and the arrays still belong together.
LEMMA EndedHeld ==
    ASSUME FormInv, pc = "up"
    PROVE  /\ \A i \in Pickers : /\ EndedCells[i] = cells[i] /\ EndedStrings[i] = strings[i]
                                 /\ MeantEnded[i] = meant[i]
           /\ \A i \in Cells \ Pickers :
                /\ EndedStrings[i] \in Text \cup {Null} /\ MeantEnded[i] = EndedStrings[i]
                /\ \/ EndedCells[i] = EndedStrings[i]
                   \/ /\ i \in Numbers /\ EndedStrings[i] \in Text
                      /\ EndedCells[i] = IntegerValue[EndedStrings[i]]
                   \/ i \in NotNull /\ EndedStrings[i] = Null /\ EndedCells[i] = IntegerValue[Blank]
<1>1. /\ \A i \in Cells \ {focus} : /\ EndedCells[i] = cells[i]
                                    /\ EndedStrings[i] = strings[i]
                                    /\ MeantEnded[i] = meant[i]
      /\ focus # Null => /\ focus \in Cells \ Pickers
                         /\ EndedStrings[focus] = draft /\ MeantEnded[focus] = draft
                         /\ \/ EndedCells[focus] = draft
                            \/ focus \in Numbers /\ EndedCells[focus] = IntegerValue[draft]
  BY EndedTogether
<1>2. draft \in Text /\ focus \in Fields \cup {Null} /\ \A i \in Cells \ Pickers : TextHeld(i)
  BY DEF FormInv, TypeOK, Held
<1>3. Null \notin Cells
  <2>1. Null \notin Nat /\ Cells \subseteq Nat
    BY CellsAssumption DEF Places
  <2> QED
    BY <2>1
<1>4. \A i \in Pickers : i \in Cells \ {focus}
  BY <1>1, <1>2, <1>3, KindsOfCells
<1>5. ASSUME NEW i \in Cells \ Pickers, i # focus
      PROVE  /\ EndedStrings[i] \in Text \cup {Null} /\ MeantEnded[i] = EndedStrings[i]
             /\ \/ EndedCells[i] = EndedStrings[i]
                \/ /\ i \in Numbers /\ EndedStrings[i] \in Text
                   /\ EndedCells[i] = IntegerValue[EndedStrings[i]]
                \/ i \in NotNull /\ EndedStrings[i] = Null /\ EndedCells[i] = IntegerValue[Blank]
  BY <1>1, <1>2, <1>5 DEF TextHeld
<1>6. ASSUME NEW i \in Cells \ Pickers, i = focus
      PROVE  /\ EndedStrings[i] \in Text \cup {Null} /\ MeantEnded[i] = EndedStrings[i]
             /\ \/ EndedCells[i] = EndedStrings[i]
                \/ /\ i \in Numbers /\ EndedStrings[i] \in Text
                   /\ EndedCells[i] = IntegerValue[EndedStrings[i]]
                \/ i \in NotNull /\ EndedStrings[i] = Null /\ EndedCells[i] = IntegerValue[Blank]
  BY <1>1, <1>2, <1>3, <1>6
<1> QED
  BY <1>1, <1>4, <1>5, <1>6

-----------------------------------------------------------------------------
(* What each action does to the invariant. *)

\* The form opens, is left, or is shown without a change of the arrays.
LEMMA LoadingPreserves ==
    ASSUME FormInv,
           \/ \E f \in {"create", "view"} : Open(f)
           \/ SwipeLetGo \/ LoadLists \/ LoadProject \/ CallRaises \/ Leave
    PROVE  FormInv'
<1> USE CellsAssumption
<1> DEFINE NoList == [i \in Pickers |-> [n \in Id |-> Null]]
<1>1. NullCells \in [Cells -> UNION {Values(i) : i \in Cells}]
  BY DEF NullCells, Values
<1>2. /\ NullCells \in [Cells -> Name \cup Text \cup {Null}]
      /\ NullCells \in [Cells -> Id \cup Text \cup {Null}]
      /\ \A i \in Cells : NullCells[i] = Null /\ NullCells[i] \in Values(i)
  BY DEF NullCells, Values
<1>3. CASE \E f \in {"create", "view"} : Open(f)
  BY <1>3 DEF Open, FormInv, TypeOK, Where, RowsKnown, ListsKnown, LoadedTogether,
              database, arrays, edited, ghosts
<1>4. CASE SwipeLetGo
  BY <1>4 DEF SwipeLetGo, FormInv, TypeOK, Where, RowsKnown, ListsKnown, LoadedTogether,
              database, arrays, ghosts
<1>5. CASE LoadLists
  <2>1. /\ UNCHANGED <<names, stored, form, isEditing, focus, draft>>
        /\ list' = names /\ drifted' = FALSE
        /\ \/ /\ pc' = "up" /\ cells' = NullCells /\ strings' = NullCells /\ meant' = NullCells
           \/ pc' = "project" /\ form = "view" /\ UNCHANGED <<cells, strings, meant>>
    BY <1>5 DEF LoadLists, FormInv, TypeOK, database, arrays, edited
  <2>2. TypeOK'
    BY <1>1, <1>2, <2>1 DEF FormInv, TypeOK, Where
  <2>3. RowsKnown' /\ ListsKnown' /\ LoadedTogether'
    BY <2>1 DEF FormInv, RowsKnown, ListsKnown, LoadedTogether
  <2>4. pc' \in {"up", "saved"} => Held'
    BY <1>2, <2>1, KindsOfCells DEF Held, NameHeld, TextHeld
  <2> QED
    BY <2>2, <2>3, <2>4 DEF FormInv
<1>6. CASE LoadProject
  <2>1. /\ UNCHANGED <<names, stored, form, isEditing, list, focus, draft, drifted>>
        /\ pc = "project" /\ pc' = "up"
        /\ cells' = Fetched /\ strings' = Fetched /\ meant' = stored
    BY <1>6 DEF LoadProject, database, edited
  <2>2. /\ \A i \in Pickers : Fetched[i] = names[i][stored[i]] /\ Fetched[i] \in Name
        /\ \A i \in Cells \ Pickers : Fetched[i] = stored[i]
    BY KindsOfCells DEF Fetched, FormInv, TypeOK, RowsKnown
  <2>3. TypeOK'
    <3>1. \A i \in Cells : Fetched[i] \in Values(i)
      BY <2>2, KindsOfCells DEF Values, FormInv, RowsKnown
    <3>2. /\ Fetched \in [Cells -> UNION {Values(i) : i \in Cells}]
          /\ Fetched \in [Cells -> Name \cup Text \cup {Null}]
      <4>1. Fetched = [i \in Cells |-> Fetched[i]]
        BY DEF Fetched
      <4>2. \A i \in Cells : Fetched[i] \in UNION {Values(j) : j \in Cells}
        BY <3>1
      <4>3. \A i \in Cells : Fetched[i] \in Name \cup Text \cup {Null}
        BY <2>2 DEF FormInv, RowsKnown
      <4> QED
        BY <4>1, <4>2, <4>3
    <3> QED
      BY <2>1, <3>1, <3>2 DEF FormInv, TypeOK, Where
  <2>4. RowsKnown' /\ ListsKnown' /\ LoadedTogether'
    BY <2>1 DEF FormInv, RowsKnown, ListsKnown, LoadedTogether
  <2>5. Held'
    BY <2>1, <2>2 DEF Held, NameHeld, TextHeld, FormInv, RowsKnown, LoadedTogether
  <2> QED
    BY <2>1, <2>3, <2>4, <2>5 DEF FormInv
<1>7. CASE CallRaises
  BY <1>7 DEF CallRaises, FormInv, TypeOK, Where, RowsKnown, ListsKnown, LoadedTogether,
              database, arrays, edited, ghosts
<1>8. CASE Leave
  <2>1. NoList \in [Pickers -> [Id -> Name \cup {Null}]]
    OBVIOUS
  <2>2. TypeOK'
    BY <1>1, <1>2, <1>8, <2>1 DEF Leave, FormInv, TypeOK, Where, database
  <2> QED
    BY <1>8, <2>2 DEF Leave, FormInv, RowsKnown, ListsKnown, LoadedTogether, database
<1> QED
  BY <1>3, <1>4, <1>5, <1>6, <1>7, <1>8

\* A cell is put, by a picker or by the end of editing, or is being edited.
LEMMA EditingPreserves ==
    ASSUME FormInv,
           \/ Edit \/ EndEditing
           \/ \E i \in Fields : BeginEditing(i)
           \/ \E t \in Text : Type(t)
           \/ \E i \in Pickers, n \in Id : PickName(i, n)
           \/ \E i \in Dates, t \in Text : PickDate(i, t)
    PROVE  FormInv'
<1> USE CellsAssumption
<1>1. CASE Edit
  <2>1. TypeOK'
    BY <1>1 DEF Edit, FormInv, TypeOK, database, arrays, edited, ghosts
  <2>2. Held'
    BY <1>1 DEF Edit, FormInv, Held, NameHeld, TextHeld, arrays, ghosts
  <2> QED
    BY <1>1, <2>1, <2>2 DEF Edit, FormInv, RowsKnown, ListsKnown, LoadedTogether, database, ghosts
<1>2. ASSUME NEW i \in Fields, BeginEditing(i) PROVE FormInv'
  <2>1. pc = "up" /\ i \in Cells \ Pickers
    BY <1>2, KindsOfCells DEF BeginEditing, Editable
  <2>2. DrawnAt(CellTag(i)) = i
    BY <2>1, KindsOfCells, PlaceOfTag
  <2>3. Shown(i) \in Text
    BY <2>1 DEF Shown, FormInv, Held, TextHeld
  <2>4. TypeOK'
    BY <1>2, <2>2, <2>3 DEF BeginEditing, FormInv, TypeOK, database, arrays, ghosts
  <2>5. Held'
    BY <1>2, <2>1 DEF BeginEditing, FormInv, Held, NameHeld, TextHeld, arrays, ghosts
  <2> QED
    BY <1>2, <2>4, <2>5
       DEF BeginEditing, FormInv, RowsKnown, ListsKnown, LoadedTogether, database, ghosts
<1>3. ASSUME NEW t \in Text, Type(t) PROVE FormInv'
  <2>1. TypeOK'
    BY <1>3 DEF Type, FormInv, TypeOK, database, arrays, ghosts
  <2>2. Held'
    BY <1>3 DEF Type, FormInv, Held, NameHeld, TextHeld, arrays, ghosts
  <2> QED
    BY <1>3, <2>1, <2>2 DEF Type, FormInv, RowsKnown, ListsKnown, LoadedTogether, database, ghosts
<1>4. CASE EndEditing
  <2>1. /\ pc = "up" /\ cells' = EndedCells /\ strings' = EndedStrings /\ meant' = MeantEnded
        /\ focus' = Null /\ draft' = Blank
        /\ UNCHANGED <<names, stored, pc, form, isEditing, list, drifted>>
    BY <1>4 DEF EndEditing, database
  <2>2. TypeOK'
    BY <2>1, EndedTogether DEF FormInv, TypeOK
  <2>3. Held'
    BY <2>1, EndedHeld DEF FormInv, Held, NameHeld, TextHeld
  <2> QED
    BY <2>1, <2>2, <2>3 DEF FormInv, RowsKnown, ListsKnown, LoadedTogether
<1>5. ASSUME NEW i \in Pickers, NEW n \in Id, PickName(i, n) PROVE FormInv'
  <2> DEFINE row == RowIDOf(i, list[i][n])
  <2>1. InsertedAt(CellTag(i)) = i
    BY KindsOfCells, PlaceOfTag
  <2>2. /\ pc = "up" /\ list[i][n] # Null
        /\ cells' = [cells EXCEPT ![i] = row]
        /\ strings' = [strings EXCEPT ![i] = list[i][n]]
        /\ meant' = [meant EXCEPT ![i] = n]
        /\ UNCHANGED <<names, stored, pc, form, isEditing, list, focus, draft, drifted>>
    BY <1>5, <2>1 DEF PickName, Editable, Put, database, edited
  <2>3. n \in Namesakes(i, list[i][n])
    BY DEF Namesakes
  <2>4. row \in Id /\ list[i][row] = list[i][n] /\ list[i][n] \in Name
    BY <2>2, <2>3, RowOfName DEF FormInv, TypeOK
  <2> HIDE DEF row
  <2>5. row \in Values(i) /\ i \in Cells
    BY <2>4, KindsOfCells DEF Values
  <2>6. /\ cells' \in [Cells -> UNION {Values(j) : j \in Cells}]
        /\ \A j \in Cells : cells'[j] = IF j = i THEN row ELSE cells[j]
        /\ \A j \in Cells : strings'[j] = IF j = i THEN list[i][n] ELSE strings[j]
        /\ \A j \in Cells : meant'[j] = IF j = i THEN n ELSE meant[j]
    BY <2>2, <2>5 DEF FormInv, TypeOK
  <2>7. \A j \in Cells : cells'[j] \in Values(j)
    BY <2>5, <2>6 DEF FormInv, TypeOK
  <2>8. TypeOK'
    BY <2>2, <2>4, <2>5, <2>6, <2>7 DEF FormInv, TypeOK
  <2>9. Held'
    BY <2>2, <2>4, <2>6, KindsOfCells DEF FormInv, Held, NameHeld, TextHeld
  <2> QED
    BY <2>2, <2>8, <2>9 DEF FormInv, RowsKnown, ListsKnown, LoadedTogether
<1>6. ASSUME NEW i \in Dates, NEW t \in Text, PickDate(i, t) PROVE FormInv'
  <2>1. InsertedAt(CellTag(i)) = i /\ i \in Cells \ Pickers
    BY KindsOfCells, PlaceOfTag
  <2>2. /\ pc = "up"
        /\ cells' = [cells EXCEPT ![i] = t]
        /\ strings' = [strings EXCEPT ![i] = t]
        /\ meant' = [meant EXCEPT ![i] = t]
        /\ UNCHANGED <<names, stored, pc, form, isEditing, list, focus, draft, drifted>>
    BY <1>6, <2>1 DEF PickDate, Editable, Put, database, edited
  <2>3. t \in Values(i)
    BY <2>1 DEF Values
  <2>4. /\ cells' \in [Cells -> UNION {Values(j) : j \in Cells}]
        /\ \A j \in Cells : cells'[j] = IF j = i THEN t ELSE cells[j]
        /\ \A j \in Cells : strings'[j] = IF j = i THEN t ELSE strings[j]
        /\ \A j \in Cells : meant'[j] = IF j = i THEN t ELSE meant[j]
    BY <2>1, <2>2, <2>3 DEF FormInv, TypeOK
  <2>5. \A j \in Cells : cells'[j] \in Values(j)
    BY <2>3, <2>4 DEF FormInv, TypeOK
  <2>6. TypeOK'
    BY <2>2, <2>4, <2>5 DEF FormInv, TypeOK
  <2>7. Held'
    BY <2>1, <2>2, <2>4, KindsOfCells DEF FormInv, Held, NameHeld, TextHeld
  <2> QED
    BY <2>2, <2>6, <2>7 DEF FormInv, RowsKnown, ListsKnown, LoadedTogether
<1> QED
  BY <1>1, <1>2, <1>3, <1>4, <1>5, <1>6

\* A save turns names into rows and texts into numbers, or leaves them.
LEMMA SavingPreserves ==
    ASSUME FormInv,
           \/ \E succeeds \in BOOLEAN : Create(succeeds)
           \/ \E succeeds \in BOOLEAN : Save(succeeds)
           \/ SaveRaises \/ Resume
    PROVE  FormInv'
<1> USE CellsAssumption
<1>1. ASSUME NEW succeeds \in BOOLEAN, Create(succeeds) PROVE FormInv'
  <2>1. /\ pc = "up" /\ form = "create" /\ pc' \in {"saved", "up"}
        /\ cells' = [i \in Cells |-> IF i \in NotNull /\ cells[i] = Null
                                     THEN IntegerValue[Blank] ELSE cells[i]]
        /\ UNCHANGED <<names, stored, form, isEditing, list, strings, focus, draft, meant, drifted>>
    BY <1>1 DEF Create, database, edited, ghosts
  <2>2. IntegerValue[Blank] \in Text
    BY IntegerAssumption
  <2>3. \A i \in Cells : cells'[i] \in Values(i)
    <3> TAKE i \in Cells
    <3>1. CASE i \in NotNull /\ cells[i] = Null
      BY <2>1, <2>2, <3>1, KindsOfCells DEF Values
    <3>2. CASE ~(i \in NotNull /\ cells[i] = Null)
      BY <2>1, <3>2 DEF FormInv, TypeOK
    <3> QED
      BY <3>1, <3>2
  <2>4. cells' \in [Cells -> UNION {Values(i) : i \in Cells}]
    BY <2>1, <2>3
  <2>5. TypeOK'
    BY <2>1, <2>3, <2>4 DEF FormInv, TypeOK, Where
  <2>6. \A i \in Pickers : NameHeld(i)'
    <3> TAKE i \in Pickers
    <3>1. NameHeld(i) /\ cells'[i] = cells[i]
      BY <2>1, KindsOfCells DEF FormInv, Held
    <3> QED
      BY <2>1, <3>1 DEF NameHeld
  <2>7. \A i \in Cells \ Pickers : TextHeld(i)'
    <3> TAKE i \in Cells \ Pickers
    <3>1. TextHeld(i)
      BY <2>1 DEF FormInv, Held
    <3>2. CASE i \in NotNull /\ cells[i] = Null
      <4>1. strings[i] = Null /\ cells'[i] = IntegerValue[Blank]
        BY <2>1, <2>2, <3>1, <3>2, IntegerAssumption DEF TextHeld
      <4> QED
        BY <2>1, <3>1, <3>2, <4>1 DEF TextHeld
    <3>3. CASE ~(i \in NotNull /\ cells[i] = Null)
      BY <2>1, <3>1, <3>3 DEF TextHeld
    <3> QED
      BY <3>2, <3>3
  <2> QED
    BY <2>1, <2>5, <2>6, <2>7 DEF FormInv, Held, RowsKnown, ListsKnown, LoadedTogether
<1>2. ASSUME NEW succeeds \in BOOLEAN, Save(succeeds) PROVE FormInv'
  <2>1. /\ pc = "up" /\ form = "view" /\ ~Unknown(EndedCells)
        /\ isEditing' = FALSE /\ focus' = Null /\ draft' = Blank
        /\ cells' = Converted(EndedCells)
        /\ strings' = EndedStrings
        /\ \/ pc' = "saved" /\ stored' = cells' /\ IsRequiredInformationFilled(cells')
           \/ pc' = "up" /\ stored' = stored
        /\ meant' = MeantEnded
        /\ UNCHANGED <<names, form, list, drifted>>
    BY <1>2 DEF Save
  <2>2. \A i \in Pickers :
          cells'[i] = IF cells[i] \in Name THEN RowIDOf(i, cells[i]) ELSE cells[i]
    BY <2>1, EndedHeld, KindsOfCells DEF Converted
  <2>3. \A i \in Cells \ Pickers :
          cells'[i] = IF i \in Numbers /\ EndedCells[i] # Null
                      THEN IntegerValue[EndedCells[i]] ELSE EndedCells[i]
    BY <2>1 DEF Converted
  <2>4. \A i \in Pickers :
          \/ cells'[i] = Null /\ strings'[i] = Null /\ meant'[i] = Null
          \/ /\ cells'[i] \in Id /\ strings'[i] \in Name /\ list[i][cells'[i]] = strings'[i]
             /\ meant'[i] \in Id /\ (drifted \/ list[i][meant'[i]] = strings'[i])
    <3> TAKE i \in Pickers
    <3>1. NameHeld(i) /\ strings'[i] = strings[i] /\ meant'[i] = meant[i]
      BY <2>1, EndedHeld DEF FormInv, Held
    <3>2. CASE cells[i] \in Name
      <4>1. Namesakes(i, cells[i]) # {}
        BY <2>1, <3>2, EndedHeld DEF Unknown
      <4>2. cells'[i] \in Id /\ list[i][cells'[i]] = cells[i]
        BY <2>2, <3>2, <4>1, RowOfName
      <4> QED
        BY <3>1, <3>2, <4>2 DEF NameHeld
    <3>3. CASE cells[i] \notin Name
      BY <2>2, <3>1, <3>3 DEF NameHeld
    <3> QED
      BY <3>2, <3>3
  <2>5. \A i \in Cells \ Pickers : TextHeld(i)' /\ cells'[i] \in Text \cup {Null}
    <3> TAKE i \in Cells \ Pickers
    <3>1. /\ strings'[i] \in Text \cup {Null} /\ meant'[i] = strings'[i]
          /\ \/ EndedCells[i] = strings'[i]
             \/ /\ i \in Numbers /\ strings'[i] \in Text
                /\ EndedCells[i] = IntegerValue[strings'[i]]
             \/ i \in NotNull /\ strings'[i] = Null /\ EndedCells[i] = IntegerValue[Blank]
      BY <2>1, EndedHeld
    <3>2. /\ \A t \in Text : IntegerValue[t] \in Text /\ IntegerValue[IntegerValue[t]] = IntegerValue[t]
          /\ Null \notin Text /\ Blank \in Text
      BY IntegerAssumption
    <3>3. CASE i \in Numbers /\ EndedCells[i] # Null
      BY <2>3, <3>1, <3>2, <3>3 DEF TextHeld
    <3>4. CASE ~(i \in Numbers /\ EndedCells[i] # Null)
      BY <2>3, <3>1, <3>2, <3>4 DEF TextHeld
    <3> QED
      BY <3>3, <3>4
  <2>6. Held'
    BY <2>1, <2>4, <2>5 DEF Held, NameHeld
  <2>7. \A i \in Cells : cells'[i] \in Values(i)
    BY <2>4, <2>5 DEF Values
  <2>8. cells' \in [Cells -> UNION {Values(i) : i \in Cells}]
    BY <2>1, <2>7 DEF Converted
  <2>9. cells' \in [Cells -> Id \cup Text \cup {Null}]
    BY <2>4, <2>5, <2>8
  <2>10. stored' \in [Cells -> Id \cup Text \cup {Null}]
    BY <2>1, <2>9 DEF FormInv, TypeOK
  <2>11. TypeOK'
    BY <2>1, <2>7, <2>8, <2>10, EndedTogether DEF FormInv, TypeOK, Where
  <2>12. RowsKnown'
    <3>1. CASE stored' = stored
      BY <2>1, <3>1 DEF FormInv, RowsKnown
    <3>2. CASE stored' = cells' /\ IsRequiredInformationFilled(cells')
      <4>1. \A i \in Pickers : cells'[i] # Null
        BY <3>2, KindsOfCells DEF IsRequiredInformationFilled
      <4>2. \A i \in Pickers : cells'[i] \in Id /\ list[i][cells'[i]] # Null
        BY <2>4, <4>1
      <4>3. \A i \in Pickers : names[i][cells'[i]] # Null
        BY <4>2 DEF FormInv, ListsKnown
      <4> QED
        BY <2>1, <2>5, <3>2, <4>2, <4>3 DEF RowsKnown
    <3> QED
      BY <2>1, <3>1, <3>2
  <2> QED
    BY <2>1, <2>6, <2>11, <2>12 DEF FormInv, ListsKnown, LoadedTogether
<1>3. CASE SaveRaises
  BY <1>3 DEF SaveRaises, FormInv, TypeOK, Where, RowsKnown, ListsKnown, LoadedTogether,
              database, arrays, edited, ghosts
<1>4. CASE Resume
  BY <1>4 DEF Resume, FormInv, TypeOK, Where, Held, NameHeld, TextHeld, RowsKnown, ListsKnown,
              LoadedTogether, database, arrays, edited, ghosts
<1> QED
  BY <1>1, <1>2, <1>3, <1>4

\* Others save the project and name rows.
LEMMA OthersPreserve ==
    ASSUME FormInv,
           \/ \E i \in Pickers, n \in Id, name \in Name : NameRow(i, n, name)
           \/ \E i \in Cells, v \in Id \cup Text : SaveElsewhere(i, v)
    PROVE  FormInv'
<1> USE CellsAssumption
<1>1. ASSUME NEW i \in Pickers, NEW n \in Id, NEW name \in Name, NameRow(i, n, name)
      PROVE  FormInv'
  <2>1. /\ names' = [names EXCEPT ![i][n] = name]
        /\ drifted' = (drifted \/ pc = "project")
        /\ UNCHANGED <<stored, pc, form, isEditing, list, cells, strings, focus, draft, meant>>
    BY <1>1 DEF NameRow, arrays, edited
  <2>2. names' \in [Pickers -> [Id -> Name \cup {Null}]]
    BY <2>1 DEF FormInv, TypeOK
  <2>3. \A j \in Pickers, m \in Id : names[j][m] # Null => names'[j][m] # Null
    BY <2>1 DEF FormInv, TypeOK
  <2>4. TypeOK'
    BY <2>1, <2>2 DEF FormInv, TypeOK
  <2>5. RowsKnown' /\ ListsKnown' /\ LoadedTogether'
    BY <2>1, <2>3 DEF FormInv, RowsKnown, ListsKnown, LoadedTogether
  <2>6. pc \in {"up", "saved"} => drifted' = drifted
    BY <2>1 DEF FormInv, TypeOK
  <2>7. pc' \in {"up", "saved"} => Held'
    BY <2>1, <2>6 DEF FormInv, Held, NameHeld, TextHeld
  <2> QED
    BY <2>4, <2>5, <2>7 DEF FormInv
<1>2. ASSUME NEW i \in Cells, NEW v \in Id \cup Text, SaveElsewhere(i, v) PROVE FormInv'
  <2>1. /\ IF i \in Pickers THEN v \in Id /\ names[i][v] # Null ELSE v \in Text
        /\ stored' = [stored EXCEPT ![i] = v]
        /\ UNCHANGED <<names, pc, form, isEditing, list, cells, strings, focus, draft, meant, drifted>>
    BY <1>2, SavedTexts DEF SaveElsewhere, arrays, edited, ghosts
  <2>2. TypeOK'
    BY <2>1 DEF FormInv, TypeOK
  <2>3. RowsKnown' /\ ListsKnown' /\ LoadedTogether'
    BY <2>1, KindsOfCells DEF FormInv, TypeOK, RowsKnown, ListsKnown, LoadedTogether
  <2>4. pc' \in {"up", "saved"} => Held'
    BY <2>1 DEF FormInv, Held, NameHeld, TextHeld
  <2> QED
    BY <2>2, <2>3, <2>4 DEF FormInv
<1> QED
  BY <1>1, <1>2

-----------------------------------------------------------------------------
(* The theorems. *)

\* The invariant holds in every state of the form.
THEOREM FormInvariance == Spec => []FormInv
<1>1. Init => FormInv
  <2> SUFFICES ASSUME Init PROVE FormInv
    OBVIOUS
  <2>1. /\ NullCells \in [Cells -> UNION {Values(i) : i \in Cells}]
        /\ NullCells \in [Cells -> Name \cup Text \cup {Null}]
        /\ NullCells \in [Cells -> Id \cup Text \cup {Null}]
        /\ \A i \in Cells : NullCells[i] \in Values(i)
    BY DEF NullCells, Values
  <2>2. [i \in Pickers |-> [n \in Id |-> Null]] \in [Pickers -> [Id -> Name \cup {Null}]]
    OBVIOUS
  <2>3. TypeOK
    BY <2>1, <2>2, CellsAssumption DEF Init, TypeOK, Where
  <2>4. RowsKnown /\ ListsKnown /\ LoadedTogether
    BY KindsOfCells, SavedTexts DEF Init, RowsKnown, ListsKnown, LoadedTogether
  <2> QED
    BY <2>3, <2>4 DEF Init, FormInv
<1>2. FormInv /\ [Next]_vars => FormInv'
  <2> SUFFICES ASSUME FormInv, [Next]_vars PROVE FormInv'
    OBVIOUS
  <2>1. CASE UNCHANGED vars
    BY <2>1 DEF vars, FormInv, TypeOK, Held, NameHeld, TextHeld, RowsKnown, ListsKnown,
                LoadedTogether
  <2> QED
    BY <2>1, LoadingPreserves, EditingPreserves, SavingPreserves, OthersPreserve DEF Next
<1> QED
  BY <1>1, <1>2, PTL DEF Spec

\* The arrays, the lists and what is edited keep to their types.
THEOREM FormTyped == Spec => []TypeOK
<1>1. FormInv => TypeOK
  BY DEF FormInv
<1> QED
  BY <1>1, FormInvariance, PTL

\* A save writes what the form shows, for all cells of the form at once.
THEOREM ShownIsSaved == Spec => []SavedIsShown
<1>1. FormInv => SavedIsShown
  <2> SUFFICES ASSUME FormInv, pc = "saved", NEW i \in Cells \ {focus}
               PROVE  Stands(i, cells[i], OnScreen(i))
    BY DEF SavedIsShown
  <2>1. DrawnAt(CellTag(i)) = i
    BY KindsOfCells, PlaceOfTag
  <2>2. OnScreen(i) = Shown(i) /\ Held
    BY <2>1 DEF OnScreen, FormInv
  <2>3. CASE i \in Pickers
    BY <2>2, <2>3, CellsAssumption DEF Held, NameHeld, Stands, Shown
  <2>4. CASE i \notin Pickers
    BY <2>2, <2>4, KindsOfCells, CellsAssumption DEF Held, TextHeld, Stands, Shown
  <2> QED
    BY <2>3, <2>4
<1> QED
  BY <1>1, FormInvariance, PTL

\* A save writes into every cell what the user meant for it, namesakes and a
\* name that changed between the loads excepted.
THEOREM MeantSaved == Spec => []MeantIsSaved
<1>1. FormInv => MeantIsSaved
  <2> SUFFICES ASSUME FormInv, pc = "saved", NEW i \in Cells
               PROVE  Keeps(i, cells[i], meant[i])
    BY DEF MeantIsSaved
  <2>1. Held
    BY DEF FormInv
  <2>2. CASE i \in Pickers
    BY <2>1, <2>2 DEF Held, NameHeld, Keeps
  <2>3. CASE i \notin Pickers
    BY <2>1, <2>3 DEF Held, TextHeld, Keeps
  <2> QED
    BY <2>2, <2>3
<1> QED
  BY <1>1, FormInvariance, PTL

\* Without a change of names between the two loads no save raises.
THEOREM RaisesOnDrift == Spec => []RaisesOnlyOnDrift
<1>1. FormInv => RaisesOnlyOnDrift
  <2> SUFFICES ASSUME FormInv, pc = "up", ~drifted,
                      NEW i \in Pickers, EndedCells[i] \in Name, Namesakes(i, EndedCells[i]) = {}
               PROVE  FALSE
    BY DEF RaisesOnlyOnDrift, Unknown
  <2>1. EndedCells[i] = cells[i] /\ NameHeld(i)
    BY EndedHeld DEF FormInv, Held
  <2>2. meant[i] \in Id /\ list[i][meant[i]] = cells[i]
    BY <2>1, CellsAssumption DEF NameHeld
  <2> QED
    BY <2>1, <2>2 DEF Namesakes
<1> QED
  BY <1>1, FormInvariance, PTL

-----------------------------------------------------------------------------
(* What the database may rely on. *)

\* No two rows of a list bear one name.
ListsUnique ==
    \A i \in Pickers, m, n \in Id : list[i][m] # Null /\ list[i][m] = list[i][n] => m = n

\* A save never writes an id without a row, not even when names changed between
\* the two loads or later; and where the lists are of one time and without
\* namesakes, it writes the very rows that were picked or loaded, through the
\* detour over their names.
SavedRowsAreRows ==
    pc = "saved" =>
        \A i \in Pickers :
            /\ cells[i] # Null => cells[i] \in Id /\ names[i][cells[i]] # Null
            /\ ~drifted /\ ListsUnique => cells[i] = meant[i]

\* The ids a save writes are rows, and without namesakes and drift the right ones.
THEOREM RowsAreSaved == Spec => []SavedRowsAreRows
<1>1. FormInv => SavedRowsAreRows
  <2> SUFFICES ASSUME FormInv, pc = "saved", NEW i \in Pickers
               PROVE  /\ cells[i] # Null => cells[i] \in Id /\ names[i][cells[i]] # Null
                      /\ ~drifted /\ ListsUnique => cells[i] = meant[i]
    BY DEF SavedRowsAreRows
  <2>1. NameHeld(i) /\ ListsKnown
    BY DEF FormInv, Held
  <2>2. CASE cells[i] = Null /\ meant[i] = Null
    BY <2>2
  <2>3. CASE /\ cells[i] \in Id /\ strings[i] \in Name /\ list[i][cells[i]] = strings[i]
             /\ meant[i] \in Id /\ (drifted \/ list[i][meant[i]] = strings[i])
    <3>1. list[i][cells[i]] # Null
      BY <2>3, CellsAssumption
    <3>2. names[i][cells[i]] # Null
      BY <2>1, <2>3, <3>1 DEF ListsKnown
    <3> QED
      BY <2>3, <3>1, <3>2 DEF ListsUnique
  <2> QED
    BY <2>1, <2>2, <2>3 DEF NameHeld
<1> QED
  BY <1>1, FormInvariance, PTL
=============================================================================
