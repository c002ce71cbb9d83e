------------------------ MODULE ProjectSearchProofs ------------------------
(***************************************************************************)
(* Proofs about ProjectSearch, for any number of rows, names and projects: *)
(* the way from a row to its name and back to a row confuses namesakes and *)
(* nothing else, and what is found is what the fields say.                 *)
(***************************************************************************)
EXTENDS ProjectSearch, TLAPS

\* The screens on which the criteria are in use.
InUse == {"ready", "query", "choose"}

\* A criterion, its text and the row that was pointed at belong together.
Together(k) ==
    criteria[k] # None =>
        /\ meant[k] # None /\ field[k] # None
        /\ lists[k][criteria[k]] = field[k]
        /\ lists[k][meant[k]] = field[k]

\* Without a swipe, a text stands for a criterion, and no text outlives the use
\* of the criteria.
NoTextLeft(k) ==
    field[k] # None =>
        \/ screen \in InUse /\ criteria[k] # None
        \/ screen = "down"

SearchInv ==
    /\ TypeOK
    /\ screen \in InUse => \A k \in Criterion : Together(k)
    /\ ~swiped => \A k \in Criterion : NoTextLeft(k)
    /\ screen = "choose" => found = {p \in Project : origin[p] = criteria} /\ found # {}

\* The way back from a name ends at a row of that name.
LEMMA RowOfName ==
    ASSUME NEW k \in Criterion, NEW i \in Listed(k)
    PROVE  /\ RowIDOf(k, lists[k][i]) \in RowID
           /\ lists[k][RowIDOf(k, lists[k][i])] = lists[k][i]
<1>1. i \in Namesakes(k, lists[k][i])
  BY DEF Namesakes
<1>2. RowIDOf(k, lists[k][i]) \in Namesakes(k, lists[k][i])
  BY <1>1 DEF RowIDOf
<1> QED
  BY <1>2 DEF Namesakes, Listed

\* A row that is listed has a name.
LEMMA ListedName ==
    ASSUME TypeOK, NEW k \in Criterion, NEW i \in Listed(k)
    PROVE  i \in RowID /\ lists[k][i] \in Name
BY DEF TypeOK, Listed

\* The invariant holds in every state, under every order of the loads, the
\* picks, the swipes and what the others do.
THEOREM SearchInvariance == Spec => []SearchInv
<1> USE NoneAssumption
<1>1. Init => SearchInv
  <2> SUFFICES ASSUME Init PROVE SearchInv
    OBVIOUS
  <2>1. TypeOK
    BY DEF Init, TypeOK, Screens, NoRows, Empty
  <2>2. screen \notin InUse /\ \A k \in Criterion : field[k] = None
    BY DEF Init, InUse, Empty
  <2> QED
    BY <2>1, <2>2 DEF Init, SearchInv, NoTextLeft, InUse
<1>2. SearchInv /\ [Next]_vars => SearchInv'
  <2> SUFFICES ASSUME SearchInv, [Next]_vars PROVE SearchInv'
    OBVIOUS
  <2>1. CASE Appear
    BY <2>1 DEF Appear, SearchInv, TypeOK, Screens, InUse, NoTextLeft,
                database, controls, ghosts
  <2>2. CASE SwipeLetGo
    BY <2>2 DEF SwipeLetGo, SearchInv, TypeOK, Screens, InUse, database, controls
  <2>3. CASE LoadWarehouses
    BY <2>3 DEF LoadWarehouses, SearchInv, TypeOK, Screens, InUse, NoTextLeft,
                Criterion, database, ghosts
  <2>4. CASE LoadStages
    <3>1. TypeOK'
      BY <2>4 DEF LoadStages, SearchInv, TypeOK, Screens, Criterion, Empty, database
    <3>2. \A k \in Criterion : Together(k)'
      BY <2>4 DEF LoadStages, Together, Empty
    <3>3. ~swiped' => \A k \in Criterion : NoTextLeft(k)'
      BY <2>4 DEF LoadStages, SearchInv, NoTextLeft, InUse
    <3> QED
      BY <2>4, <3>1, <3>2, <3>3 DEF LoadStages, SearchInv
  <2>5. CASE QueryRaises
    BY <2>5 DEF QueryRaises, SearchInv, TypeOK, Screens, InUse, NoTextLeft,
                database, controls, ghosts
  <2>6. CASE Gone
    <3>1. TypeOK'
      BY <2>6 DEF Gone, SearchInv, TypeOK, Screens, Empty, NoRows, database
    <3>2. \A k \in Criterion : field'[k] = None
      BY <2>6 DEF Gone, Empty
    <3> QED
      BY <2>6, <3>1, <3>2 DEF Gone, SearchInv, NoTextLeft, InUse
  <2>7. ASSUME NEW k \in Criterion, NEW i \in RowID, Pick(k, i) PROVE SearchInv'
    <3> DEFINE row == RowIDOf(k, lists[k][i])
    <3>1. /\ i \in Listed(k) /\ screen = "ready" /\ screen' = "ready"
          /\ field' = [field EXCEPT ![k] = lists[k][i]]
          /\ criteria' = [criteria EXCEPT ![k] = row]
          /\ meant' = [meant EXCEPT ![k] = i]
          /\ UNCHANGED <<rows, home, lists, found, projectID, origin, swiped>>
      BY <2>7 DEF Pick, database
    <3>2. /\ row \in RowID /\ lists[k][row] = lists[k][i]
          /\ lists[k][i] \in Name
      BY <3>1, RowOfName, ListedName DEF SearchInv
    <3> HIDE DEF row
    <3>3. TypeOK'
      BY <3>1, <3>2 DEF SearchInv, TypeOK
    <3>4. /\ criteria'[k] = row /\ meant'[k] = i /\ field'[k] = lists[k][i]
          /\ \A l \in Criterion \ {k} : /\ criteria'[l] = criteria[l]
                                        /\ meant'[l] = meant[l] /\ field'[l] = field[l]
      BY <3>1 DEF SearchInv, TypeOK
    <3>5. \A l \in Criterion : Together(l)'
      BY <3>1, <3>2, <3>4 DEF SearchInv, InUse, Together
    <3>6. ~swiped' => \A l \in Criterion : NoTextLeft(l)'
      BY <3>1, <3>2, <3>4 DEF SearchInv, InUse, NoTextLeft
    <3> QED
      BY <3>1, <3>3, <3>5, <3>6 DEF SearchInv
  <2>8. CASE SearchForProject
    BY <2>8 DEF SearchForProject, SearchInv, TypeOK, Screens, InUse, Together, NoTextLeft,
                database, controls, ghosts
  <2>9. CASE QueryProjects
    <3>1. TypeOK' /\ screen = "query" /\ screen' \in {"ready", "choose"}
          /\ UNCHANGED <<lists, criteria, field, meant, swiped>>
      BY <2>9 DEF QueryProjects, SearchInv, TypeOK, Screens, database
    <3>2. screen' = "choose" => found' = {p \in Project : origin'[p] = criteria'} /\ found' # {}
      BY <2>9 DEF QueryProjects
    <3>3. \A k \in Criterion : Together(k)' /\ (~swiped' => NoTextLeft(k)')
      BY <3>1 DEF SearchInv, InUse, Together, NoTextLeft
    <3> QED
      BY <3>1, <3>2, <3>3 DEF SearchInv
  <2>10. ASSUME NEW p \in Project, ChooseProject(p) PROVE SearchInv'
    BY <2>10 DEF ChooseProject, SearchInv, TypeOK, Screens, InUse, NoTextLeft, Empty, database
  <2>11. ASSUME NEW k \in Criterion, NEW i \in RowID, NEW name \in Name, NameRow(k, i, name)
         PROVE  SearchInv'
    <3>1. TypeOK'
      BY <2>11 DEF NameRow, SearchInv, TypeOK, controls, ghosts
    <3> QED
      BY <2>11, <3>1 DEF NameRow, SearchInv, Together, NoTextLeft, controls, ghosts
  <2>12. ASSUME NEW p \in Project, NEW k \in Criterion, NEW i \in RowID, MoveProject(p, k, i)
         PROVE  SearchInv'
    <3>1. TypeOK'
      BY <2>12 DEF MoveProject, SearchInv, TypeOK, controls, ghosts
    <3> QED
      BY <2>12, <3>1 DEF MoveProject, SearchInv, Together, NoTextLeft, controls, ghosts
  <2>13. CASE UNCHANGED vars
    <3>1. TypeOK'
      BY <2>13 DEF vars, SearchInv, TypeOK
    <3> QED
      BY <2>13, <3>1 DEF vars, SearchInv, Together, NoTextLeft
  <2> QED
    BY <2>1, <2>2, <2>3, <2>4, <2>5, <2>6, <2>7, <2>8, <2>9, <2>10, <2>11, <2>12, <2>13
       DEF Next, Back, Relaunch
<1> QED
  BY <1>1, <1>2, PTL DEF Spec

\* Lists, criteria, fields and the projects found keep to their types.
THEOREM SearchTyped == Spec => []TypeOK
<1>1. SearchInv => TypeOK
  BY DEF SearchInv
<1> QED
  BY <1>1, SearchInvariance, PTL

\* A criterion is the row the user pointed at or a namesake of it.
THEOREM NamesakesOnly == Spec => []OnlyNamesakesConfused
<1>1. SearchInv => OnlyNamesakesConfused
  BY DEF SearchInv, Together, InUse, OnlyNamesakesConfused
<1> QED
  BY <1>1, SearchInvariance, PTL

\* What is offered was at the warehouse and in the stage that the fields name.
THEOREM FoundByName == Spec => []FoundUnderTheirName
<1>1. SearchInv => FoundUnderTheirName
  <2> SUFFICES ASSUME SearchInv, screen = "choose",
                      NEW p \in found, NEW k \in Criterion
               PROVE  lists[k][origin[p][k]] = field[k]
    BY DEF FoundUnderTheirName
  <2>1. origin[p] = criteria /\ p \in Project
    BY DEF SearchInv, TypeOK
  <2>2. criteria[k] \in RowID /\ criteria[k] # None
    BY <2>1, NoneAssumption DEF SearchInv, TypeOK
  <2> QED
    BY <2>1, <2>2 DEF SearchInv, InUse, Together
<1> QED
  BY <1>1, SearchInvariance, PTL

\* No other row of the list has the name that stands in the field.
NameIsUnique(k) == \A i, j \in RowID : lists[k][i] = field[k] /\ lists[k][j] = field[k] => i = j

\* Where no two rows bear the names in the fields, the buttons are exactly the
\* projects of the rows the user pointed at: none is missing and none is foreign,
\* although picks, lists and moves of the projects come in any order before.
SearchIsExact ==
    screen = "choose" /\ (\A k \in Criterion : NameIsUnique(k)) =>
        found = {p \in Project : origin[p] = meant}

\* A search without namesakes is exact.
THEOREM SearchExact == Spec => []SearchIsExact
<1>1. SearchInv => SearchIsExact
  <2> SUFFICES ASSUME SearchInv, screen = "choose", \A k \in Criterion : NameIsUnique(k)
               PROVE  found = {p \in Project : origin[p] = meant}
    BY DEF SearchIsExact
  <2>1. found = {p \in Project : origin[p] = criteria} /\ found # {}
    BY DEF SearchInv
  <2>2. PICK p \in Project : origin[p] = criteria
    BY <2>1
  <2>3. \A k \in Criterion : criteria[k] \in RowID /\ criteria[k] # None
    BY <2>2, NoneAssumption DEF SearchInv, TypeOK
  <2>4. \A k \in Criterion : meant[k] \in RowID
    BY <2>3 DEF SearchInv, InUse, Together, TypeOK
  <2>5. \A k \in Criterion : criteria[k] = meant[k]
    BY <2>3, <2>4 DEF SearchInv, InUse, Together, NameIsUnique
  <2>6. criteria = meant
    BY <2>5 DEF SearchInv, TypeOK
  <2> QED
    BY <2>1, <2>6
<1> QED
  BY <1>1, SearchInvariance, PTL

\* A search is not refused for want of what the fields show, but for a swipe.
THEOREM FilledFields == Spec => []FilledFieldsCount
<1>1. SearchInv => FilledFieldsCount
  BY DEF SearchInv, NoTextLeft, FilledFieldsCount
<1> QED
  BY <1>1, SearchInvariance, PTL
=============================================================================
