------------------------- MODULE ProjectStoreSteps --------------------------
(***************************************************************************)
(* What each statement of ProjectStore does to what is stored of a         *)
(* project, and the theorems about single steps that follow: no project is *)
(* changed by the save of another, an abandoned project stays abandoned,   *)
(* the tables implement ProjectRegistry, loads and saves only go forward,  *)
(* and the reports and the triggers see the steps that they were proved    *)
(* correct for.                                                            *)
(***************************************************************************)
EXTENDS ProjectStoreProofs, StoreReaders

(* The rows of a project are made in the order of the statements, so that  *)
(* the links tell which of them are there.                                 *)
MadeInOrder ==
  /\ \A p \in ProjectId :
       /\ project[p] = NULL => project_managers[p] = NULL
       /\ project_managers[p] = NULL => project_supervisors[p] = NULL
       /\ project_supervisors[p] = NULL => CloseoutOf[p] = NULL
  /\ \A d \in Device :
       /\ pc[d] = "insertManager" => project_managers[projectID[d]] = NULL
       /\ pc[d] = "insertSupervisor" => /\ project_managers[projectID[d]] # NULL
                                        /\ project_supervisors[projectID[d]] = NULL
       /\ pc[d] \in {"insertSalvage", "insertCloseout", "linkCloseout"} =>
            project_supervisors[projectID[d]] # NULL

(* A row that waits to be linked holds the cells of the device that        *)
(* inserted it.                                                            *)
SalvageWaits ==
  \A d \in Device : HoldsSalvage(d) => salvagevalue[salvageID[d]] = cellArray[d].salvage
CloseoutWaits ==
  \A d \in Device : HoldsCloseout(d) =>
    /\ DetailsIn[closeoutID[d]] = cellArray[d].closeout
    /\ SalvageIn[closeoutID[d]] # NULL
    /\ salvagevalue[SalvageIn[closeoutID[d]]] = cellArray[d].salvage
RowsWait == SalvageWaits /\ CloseoutWaits

(* Together with IInv they are inductive.                                  *)
StepInv == IInv /\ MadeInOrder /\ RowsWait

-----------------------------------------------------------------------------
(* The effect of a step on what is stored.                                 *)

AllKept == \A p \in ProjectId : Stored(p)' = Stored(p)

(* The parts of project p become the cells of device d, nothing else       *)
(* changes.                                                                *)
Puts(d, p, parts) ==
  /\ \A part \in parts : Stored(p)'[part] = cellArray[d][part]
  /\ \A part \in Part \ parts : Stored(p)'[part] = Stored(p)[part]
  /\ \A q \in ProjectId \ {p} : Stored(q)' = Stored(q)

(* The rows that a project is made of are as before.                       *)
LEMMA RowsKept ==
  ASSUME NEW p \in ProjectId,
         project'[p] = project[p],
         project_managers'[p] = project_managers[p],
         project_supervisors'[p] = project_supervisors[p],
         CloseoutOf[p] # NULL => /\ CloseoutOf[p] \in CloseoutId
                                 /\ closeoutdetails'[CloseoutOf[p]] = closeoutdetails[CloseoutOf[p]],
         SalvageOf(p) # NULL => salvagevalue'[SalvageOf(p)] = salvagevalue[SalvageOf(p)]
  PROVE  Stored(p)' = Stored(p)
<1>1. CloseoutOf'[p] = CloseoutOf[p]
  BY DEF CloseoutOf
<1>2. CloseoutOf[p] # NULL => /\ DetailsIn'[CloseoutOf[p]] = DetailsIn[CloseoutOf[p]]
                              /\ SalvageIn'[CloseoutOf[p]] = SalvageIn[CloseoutOf[p]]
  BY DEF DetailsIn, SalvageIn
<1>3. SalvageOf(p)' = SalvageOf(p)
  BY <1>1, <1>2 DEF SalvageOf
<1>. QED BY <1>1, <1>2, <1>3 DEF Stored

LEMMA TablesKept ==
  ASSUME TypeOK, UNCHANGED tables
  PROVE  AllKept
BY RowsKept, LinkType DEF AllKept, tables, TypeOK

LEMMA InsertProjectPuts ==
  ASSUME IInv, NEW d \in Device, InsertProject(d),
         NEW p \in ProjectId, p = projectID'[d]
  PROVE  /\ project[p] = NULL
         /\ project'[p] # NULL
         /\ \A q \in ProjectId \ {p} : project'[q] = project[q]
         /\ Puts(d, p, {"required", "optional"})
<1>1. /\ project[p] = NULL
      /\ project' = [project EXCEPT ![p] =
           [required |-> cellArray[d].required, optional |-> cellArray[d].optional,
            closeoutDetails_id |-> NULL]]
      /\ UNCHANGED <<project_managers, project_supervisors, salvagevalue, closeoutdetails>>
  BY DEF IInv, TypeOK, InsertProject, FreshId, otherThanProject
<1>2. \A q \in ProjectId \ {p} : project'[q] = project[q]
  BY <1>1 DEF IInv, TypeOK
<1>3. \A q \in ProjectId \ {p} : Stored(q)' = Stored(q)
  BY <1>1, <1>2, RowsKept, LinkType DEF IInv
<1>4. /\ project'[p] = [required |-> cellArray[d].required, optional |-> cellArray[d].optional,
                        closeoutDetails_id |-> NULL]
      /\ project'[p] # NULL
  BY <1>1, RowAssumption, CellType DEF IInv, TypeOK
<1>5. CloseoutOf[p] = NULL /\ CloseoutOf'[p] = NULL
  BY <1>1, <1>4 DEF CloseoutOf
<1>6. SalvageOf(p) = NULL /\ SalvageOf(p)' = NULL
  BY <1>5 DEF SalvageOf
<1>7. \A part \in {"required", "optional"} : Stored(p)'[part] = cellArray[d][part]
  BY <1>4 DEF Stored
<1>8. \A part \in Part \ {"required", "optional"} : Stored(p)'[part] = Stored(p)[part]
  BY <1>1, <1>5, <1>6 DEF Stored, Part
<1>. QED BY <1>1, <1>2, <1>3, <1>4, <1>7, <1>8 DEF Puts

(* A device that creates or has opened a project works on a row that is    *)
(* there.                                                                  *)
LEMMA OwnProject ==
  ASSUME IInv, NEW d \in Device, Creating(d) \/ pc[d] \in OnScreen
  PROVE  projectID[d] \in ProjectId /\ project[projectID[d]] # NULL
BY DEF IInv, TypeOK, OwnRows, OwnProjects, SelectedRows, OpenRows

(* A project that has been loaded has all the rows but a salvage row.      *)
LEMMA LoadedIsMade ==
  ASSUME IInv, MadeInOrder, NEW d \in Device, pc[d] \in Loaded
  PROVE  /\ projectID[d] \in ProjectId
         /\ project[projectID[d]] # NULL
         /\ project_managers[projectID[d]] # NULL
         /\ project_supervisors[projectID[d]] # NULL
         /\ CloseoutOf[projectID[d]] \in CloseoutId
         /\ closeoutdetails[CloseoutOf[projectID[d]]] # NULL
<1>1. pc[d] \in OnScreen
  BY DEF Loaded, OnScreen, FetchStep
<1>2. projectID[d] \in ProjectId /\ project[projectID[d]] # NULL
  BY <1>1, OwnProject
<1>. QED
  BY <1>2, LinkType DEF IInv, LinksSound, MadeInOrder, SelectedRows, OpenRows

LEMMA ManagerPuts ==
  ASSUME IInv, NEW d \in Device, NEW p \in ProjectId,
         UNCHANGED otherThanManagers,
         project_managers' = [project_managers EXCEPT ![p] = cellArray[d].manager]
  PROVE  Puts(d, p, {"manager"})
<1>1. /\ project_managers'[p] = cellArray[d].manager
      /\ \A q \in ProjectId \ {p} : project_managers'[q] = project_managers[q]
  BY DEF IInv, TypeOK
<1>2. \A q \in ProjectId \ {p} : Stored(q)' = Stored(q)
  BY <1>1, RowsKept, LinkType DEF IInv, otherThanManagers
<1>3. CloseoutOf' = CloseoutOf /\ DetailsIn' = DetailsIn /\ SalvageOf(p)' = SalvageOf(p)
  BY DEF otherThanManagers, CloseoutOf, DetailsIn, SalvageOf, SalvageIn
<1>4. \A part \in Part \ {"manager"} : Stored(p)'[part] = Stored(p)[part]
  BY <1>3 DEF Stored, Part, otherThanManagers
<1>5. \A part \in {"manager"} : Stored(p)'[part] = cellArray[d][part]
  BY <1>1 DEF Stored
<1>. QED BY <1>2, <1>4, <1>5 DEF Puts

LEMMA SupervisorPuts ==
  ASSUME IInv, NEW d \in Device, NEW p \in ProjectId,
         UNCHANGED otherThanSupervisors,
         project_supervisors' = [project_supervisors EXCEPT ![p] = cellArray[d].supervisor]
  PROVE  Puts(d, p, {"supervisor"})
<1>1. /\ project_supervisors'[p] = cellArray[d].supervisor
      /\ \A q \in ProjectId \ {p} : project_supervisors'[q] = project_supervisors[q]
  BY DEF IInv, TypeOK
<1>2. \A q \in ProjectId \ {p} : Stored(q)' = Stored(q)
  BY <1>1, RowsKept, LinkType DEF IInv, otherThanSupervisors
<1>3. CloseoutOf' = CloseoutOf /\ DetailsIn' = DetailsIn /\ SalvageOf(p)' = SalvageOf(p)
  BY DEF otherThanSupervisors, CloseoutOf, DetailsIn, SalvageOf, SalvageIn
<1>4. \A part \in Part \ {"supervisor"} : Stored(p)'[part] = Stored(p)[part]
  BY <1>3 DEF Stored, Part, otherThanSupervisors
<1>5. \A part \in {"supervisor"} : Stored(p)'[part] = cellArray[d][part]
  BY <1>1 DEF Stored
<1>. QED BY <1>2, <1>4, <1>5 DEF Puts

(* A salvage or closeout row that nothing links yet is part of no project. *)
LEMMA NewSalvageKept ==
  ASSUME IInv, NEW d \in Device, InsertSalvage(d) \/ InsertNewSalvage(d)
  PROVE  AllKept
<1>1. PICK s \in SalvageId :
        /\ salvagevalue[s] = NULL
        /\ salvagevalue' = [salvagevalue EXCEPT ![s] = cellArray[d].salvage]
  BY DEF InsertSalvage, InsertNewSalvage, FreshId
<1>2. UNCHANGED otherThanSalvage
  BY DEF InsertSalvage, InsertNewSalvage
<1>3. \A p \in ProjectId : SalvageOf(p) # NULL => SalvageOf(p) # s
  BY <1>1, LinkType DEF IInv, LinksSound, SalvageOf
<1>4. \A r \in SalvageId \ {s} : salvagevalue'[r] = salvagevalue[r]
  BY <1>1 DEF IInv, TypeOK
<1>. QED
  BY <1>2, <1>3, <1>4, RowsKept, LinkType DEF IInv, AllKept, otherThanSalvage

LEMMA NewCloseoutKept ==
  ASSUME IInv, NEW d \in Device, InsertCloseout(d)
  PROVE  AllKept
<1>1. PICK k \in CloseoutId :
        /\ closeoutdetails[k] = NULL
        /\ closeoutdetails' = [closeoutdetails EXCEPT ![k] =
             [details |-> cellArray[d].closeout, salvageValue_id |-> salvageID[d]]]
  BY DEF InsertCloseout, FreshId
<1>2. UNCHANGED otherThanCloseout
  BY DEF InsertCloseout
<1>3. \A p \in ProjectId : CloseoutOf[p] # NULL => CloseoutOf[p] # k
  BY <1>1, LinkType DEF IInv, LinksSound
<1>4. \A l \in CloseoutId \ {k} : closeoutdetails'[l] = closeoutdetails[l]
  BY <1>1 DEF IInv, TypeOK
<1>. QED
  BY <1>2, <1>3, <1>4, RowsKept, LinkType DEF IInv, AllKept, otherThanCloseout

(* Linking the closeout row brings in the closeout and the salvage cells.  *)
LEMMA LinkCloseoutPuts ==
  ASSUME IInv, RowsWait, NEW d \in Device, LinkCloseout(d),
         NEW p \in ProjectId, p = projectID[d]
  PROVE  /\ project'[p] # NULL
         /\ \A q \in ProjectId \ {p} : project'[q] = project[q]
         /\ Puts(d, p, {"closeout", "salvage"})
<1> DEFINE k == closeoutID[d]
<1>1. /\ project[p] \in ProjectRow
      /\ CloseoutOf[p] = NULL
      /\ k \in CloseoutId
      /\ HoldsCloseout(d)
  BY DEF IInv, TypeOK, OwnRows, OwnProjects, OwnCloseouts, Creating, HoldsCloseout, CreateStep,
     LinkCloseout, Goto
<1>2. /\ project' = [project EXCEPT ![p] = [project[p] EXCEPT !.closeoutDetails_id = k]]
      /\ UNCHANGED <<project_managers, project_supervisors, salvagevalue, closeoutdetails>>
  BY DEF LinkCloseout, otherThanProject
<1>3. /\ DetailsIn[k] = cellArray[d].closeout
      /\ SalvageIn[k] # NULL
      /\ salvagevalue[SalvageIn[k]] = cellArray[d].salvage
  BY <1>1 DEF RowsWait, CloseoutWaits
<1> HIDE DEF k
<1>4. [project[p] EXCEPT !.closeoutDetails_id = k] \in ProjectRow
  BY <1>1 DEF ProjectRow
<1>5. \A q \in ProjectId \ {p} : project'[q] = project[q]
  BY <1>2 DEF IInv, TypeOK
<1>6. /\ project'[p] # NULL
      /\ project'[p].required = project[p].required
      /\ project'[p].optional = project[p].optional
      /\ project'[p].closeoutDetails_id = k
  BY <1>1, <1>2, <1>4, RowAssumption DEF IInv, TypeOK, ProjectRow
<1>7. \A q \in ProjectId \ {p} : Stored(q)' = Stored(q)
  BY <1>2, <1>5, RowsKept, LinkType DEF IInv
<1>8. CloseoutOf'[p] = k /\ k # NULL
  BY <1>1, <1>6, ValueAssumption DEF CloseoutOf
<1>9. DetailsIn' = DetailsIn /\ SalvageIn' = SalvageIn
  BY <1>2 DEF DetailsIn, SalvageIn
<1>10. SalvageOf(p)' = SalvageIn[k]
  BY <1>8, <1>9 DEF SalvageOf
<1>11. \A part \in {"closeout", "salvage"} : Stored(p)'[part] = cellArray[d][part]
  BY <1>2, <1>3, <1>8, <1>9, <1>10 DEF Stored
<1>12. project[p] # NULL
  BY <1>1, RowAssumption DEF ProjectRow
<1>13. \A part \in Part \ {"closeout", "salvage"} : Stored(p)'[part] = Stored(p)[part]
  BY <1>2, <1>6, <1>12 DEF Stored, Part
<1>. QED BY <1>5, <1>6, <1>7, <1>11, <1>13 DEF Puts

LEMMA UpdateProjectPuts ==
  ASSUME IInv, MadeInOrder, NEW d \in Device, UpdateProject(d),
         NEW p \in ProjectId, p = projectID[d]
  PROVE  /\ project'[p] # NULL
         /\ CloseoutOf'[p] = CloseoutOf[p]
         /\ \A q \in ProjectId \ {p} : project'[q] = project[q]
         /\ Puts(d, p, {"required", "optional"})
<1> DEFINE row == [required |-> cellArray[d].required, optional |-> cellArray[d].optional,
                   closeoutDetails_id |-> CloseoutOf[p]]
<1>1. project[p] # NULL
  BY LoadedIsMade DEF UpdateProject, Goto, Loaded, UpdateStep
<1>2. /\ project' = [project EXCEPT ![p] = row]
      /\ UNCHANGED <<project_managers, project_supervisors, salvagevalue, closeoutdetails>>
  BY <1>1 DEF UpdateProject, Overwrite, otherThanProject
<1>3. /\ row \in ProjectRow
      /\ row.required = cellArray[d].required
      /\ row.optional = cellArray[d].optional
      /\ row.closeoutDetails_id = CloseoutOf[p]
  BY CellType, LinkType DEF IInv, ProjectRow
<1> HIDE DEF row
<1>4. /\ project'[p] = row
      /\ project'[p] # NULL
      /\ \A q \in ProjectId \ {p} : project'[q] = project[q]
  BY <1>2, <1>3, RowAssumption DEF IInv, TypeOK, ProjectRow
<1>5. \A q \in ProjectId \ {p} : Stored(q)' = Stored(q)
  BY <1>2, <1>4, RowsKept, LinkType DEF IInv
<1>6. CloseoutOf'[p] = CloseoutOf[p]
  BY <1>3, <1>4 DEF CloseoutOf
<1>7. DetailsIn' = DetailsIn /\ SalvageOf(p)' = SalvageOf(p)
  BY <1>2, <1>6 DEF DetailsIn, SalvageIn, SalvageOf
<1>8. \A part \in {"required", "optional"} : Stored(p)'[part] = cellArray[d][part]
  BY <1>3, <1>4 DEF Stored
<1>9. \A part \in Part \ {"required", "optional"} : Stored(p)'[part] = Stored(p)[part]
  BY <1>2, <1>6, <1>7 DEF Stored, Part
<1>. QED BY <1>4, <1>5, <1>6, <1>8, <1>9 DEF Puts

(* The salvage row that was selected is the project's, or no longer        *)
(* anybody's.                                                              *)
LEMMA UpdateSalvagePuts ==
  ASSUME IInv, NEW d \in Device, UpdateSalvage(d),
         NEW p \in ProjectId, p = projectID[d]
  PROVE  /\ AllKept \/ Puts(d, p, {"salvage"})
         /\ SalvageOf(p) = salvageID[d] => Puts(d, p, {"salvage"})
<1> DEFINE s == salvageID[d]
<1>1. /\ s \in SalvageId
      /\ salvagevalue[s] # NULL
      /\ \A k \in CloseoutId : SalvageIn[k] = s => k = CloseoutOf[p]
  BY DEF UpdateSalvage, Goto, IInv, TypeOK, SelectedRows, SelectedSalvage
<1>2. UNCHANGED otherThanSalvage
  BY DEF UpdateSalvage
<1>3. /\ salvagevalue'[s] = cellArray[d].salvage
      /\ \A r \in SalvageId \ {s} : salvagevalue'[r] = salvagevalue[r]
  BY <1>1 DEF UpdateSalvage, Overwrite, IInv, TypeOK
<1>4. s # NULL
  BY <1>1, ValueAssumption
<1> HIDE DEF s
<1>5. \A q \in ProjectId : SalvageOf(q) = s => q = p
  <2>. SUFFICES ASSUME NEW q \in ProjectId, SalvageOf(q) = s
                PROVE  q = p
    OBVIOUS
  <2>1. CloseoutOf[q] # NULL /\ SalvageIn[CloseoutOf[q]] = s
    BY <1>4 DEF SalvageOf
  <2>2. CloseoutOf[q] \in CloseoutId
    BY <2>1, LinkType DEF IInv
  <2>3. CloseoutOf[q] = CloseoutOf[p]
    BY <1>1, <2>1, <2>2
  <2>. QED BY <2>1, <2>3 DEF IInv, LinksSound
<1>6. \A q \in ProjectId : SalvageOf(q) # s => Stored(q)' = Stored(q)
  <2>. SUFFICES ASSUME NEW q \in ProjectId, SalvageOf(q) # s
                PROVE  Stored(q)' = Stored(q)
    OBVIOUS
  <2>1. SalvageOf(q) # NULL => salvagevalue'[SalvageOf(q)] = salvagevalue[SalvageOf(q)]
    BY <1>3, LinkType DEF IInv
  <2>. QED BY <1>2, <2>1, RowsKept, LinkType DEF IInv, otherThanSalvage
<1>7. CASE SalvageOf(p) # s
  BY <1>5, <1>6, <1>7 DEF AllKept, s
<1>8. CASE SalvageOf(p) = s
  <2>1. \A q \in ProjectId \ {p} : Stored(q)' = Stored(q)
    BY <1>5, <1>6
  <2>2. CloseoutOf' = CloseoutOf /\ DetailsIn' = DetailsIn /\ SalvageOf(p)' = SalvageOf(p)
    BY <1>2 DEF otherThanSalvage, CloseoutOf, DetailsIn, SalvageOf, SalvageIn
  <2>3. \A part \in Part \ {"salvage"} : Stored(p)'[part] = Stored(p)[part]
    BY <1>2, <2>2 DEF Stored, Part, otherThanSalvage
  <2>4. \A part \in {"salvage"} : Stored(p)'[part] = cellArray[d][part]
    BY <1>3, <1>4, <1>8, <2>2 DEF Stored
  <2>. QED BY <2>1, <2>3, <2>4 DEF Puts
<1>. QED BY <1>7, <1>8

(* A statement on the closeout row of a project reaches that project only. *)
LEMMA OneCloseout ==
  ASSUME IInv, NEW p \in ProjectId, NEW k \in CloseoutId, k = CloseoutOf[p],
         UNCHANGED otherThanCloseout,
         \A l \in CloseoutId \ {k} : closeoutdetails'[l] = closeoutdetails[l]
  PROVE  \A q \in ProjectId \ {p} : Stored(q)' = Stored(q)
<1>. SUFFICES ASSUME NEW q \in ProjectId \ {p}
              PROVE  Stored(q)' = Stored(q)
  OBVIOUS
<1>1. CloseoutOf[q] # k
  BY ValueAssumption DEF IInv, LinksSound
<1>. QED BY <1>1, RowsKept, LinkType DEF IInv, otherThanCloseout

LEMMA LinkSalvagePuts ==
  ASSUME IInv, RowsWait, MadeInOrder, NEW d \in Device, LinkSalvage(d),
         NEW p \in ProjectId, p = projectID[d]
  PROVE  Puts(d, p, {"salvage"})
<1> DEFINE s == salvageID[d]
           k == closeoutID[d]
<1>1. /\ k = CloseoutOf[p]
      /\ k \in CloseoutId
      /\ closeoutdetails[k] \in CloseoutRow
      /\ closeoutdetails[k] # NULL
      /\ project[p] # NULL
  BY LoadedIsMade DEF LinkSalvage, Goto, Loaded, UpdateStep, IInv, TypeOK, SelectedRows,
     SelectedCloseout
<1>2. s \in SalvageId /\ s # NULL /\ salvagevalue[s] = cellArray[d].salvage
  BY DEF LinkSalvage, Goto, IInv, TypeOK, OwnRows, OwnSalvages, HoldsSalvage, RowsWait,
     SalvageWaits
<1>3. /\ closeoutdetails' =
           [closeoutdetails EXCEPT ![k] = [closeoutdetails[k] EXCEPT !.salvageValue_id = s]]
      /\ UNCHANGED otherThanCloseout
  BY DEF LinkSalvage
<1> HIDE DEF s, k
<1>4. [closeoutdetails[k] EXCEPT !.salvageValue_id = s] \in CloseoutRow
  BY <1>1, <1>2 DEF CloseoutRow
<1>5. /\ closeoutdetails'[k] # NULL
      /\ closeoutdetails'[k].details = closeoutdetails[k].details
      /\ closeoutdetails'[k].salvageValue_id = s
      /\ \A l \in CloseoutId \ {k} : closeoutdetails'[l] = closeoutdetails[l]
  BY <1>1, <1>3, <1>4, RowAssumption DEF IInv, TypeOK, CloseoutRow
<1>6. \A q \in ProjectId \ {p} : Stored(q)' = Stored(q)
  BY <1>1, <1>3, <1>5, OneCloseout
<1>7. CloseoutOf'[p] = k /\ k # NULL
  BY <1>1, <1>3, ValueAssumption DEF CloseoutOf, otherThanCloseout
<1>8. DetailsIn'[k] = DetailsIn[k] /\ SalvageIn'[k] = s
  BY <1>1, <1>5 DEF DetailsIn, SalvageIn
<1>9. SalvageOf(p)' = s
  BY <1>7, <1>8 DEF SalvageOf
<1>10. \A part \in Part \ {"salvage"} : Stored(p)'[part] = Stored(p)[part]
  BY <1>1, <1>3, <1>7, <1>8 DEF Stored, Part, otherThanCloseout
<1>11. \A part \in {"salvage"} : Stored(p)'[part] = cellArray[d][part]
  BY <1>2, <1>3, <1>9 DEF Stored, otherThanCloseout
<1>. QED BY <1>6, <1>10, <1>11 DEF Puts

LEMMA UpdateCloseoutPuts ==
  ASSUME IInv, MadeInOrder, NEW d \in Device, UpdateCloseout(d),
         NEW p \in ProjectId, p = projectID[d]
  PROVE  Puts(d, p, {"closeout"})
<1> DEFINE v == cellArray[d].closeout
           k == closeoutID[d]
<1>1. /\ k = CloseoutOf[p]
      /\ k \in CloseoutId
      /\ closeoutdetails[k] \in CloseoutRow
      /\ closeoutdetails[k] # NULL
  BY LoadedIsMade DEF UpdateCloseout, Goto, Loaded, UpdateStep, IInv, TypeOK, SelectedRows,
     SelectedCloseout
<1>2. v \in Contents
  BY CellType DEF IInv
<1>3. /\ closeoutdetails' =
           [closeoutdetails EXCEPT ![k] = [closeoutdetails[k] EXCEPT !.details = v]]
      /\ UNCHANGED otherThanCloseout
  BY DEF UpdateCloseout
<1> HIDE DEF k
<1>4. [closeoutdetails[k] EXCEPT !.details = v] \in CloseoutRow
  BY <1>1, <1>2 DEF CloseoutRow
<1>5. /\ closeoutdetails'[k] # NULL
      /\ closeoutdetails'[k].details = v
      /\ closeoutdetails'[k].salvageValue_id = closeoutdetails[k].salvageValue_id
      /\ \A l \in CloseoutId \ {k} : closeoutdetails'[l] = closeoutdetails[l]
  BY <1>1, <1>3, <1>4, RowAssumption DEF IInv, TypeOK, CloseoutRow
<1>6. \A q \in ProjectId \ {p} : Stored(q)' = Stored(q)
  BY <1>1, <1>3, <1>5, OneCloseout
<1>7. CloseoutOf'[p] = k /\ k # NULL
  BY <1>1, <1>3, ValueAssumption DEF CloseoutOf, otherThanCloseout
<1>8. DetailsIn'[k] = v /\ SalvageIn'[k] = SalvageIn[k]
  BY <1>1, <1>5 DEF DetailsIn, SalvageIn
<1>9. SalvageOf(p)' = SalvageOf(p)
  BY <1>1, <1>7, <1>8 DEF SalvageOf
<1>10. \A part \in Part \ {"closeout"} : Stored(p)'[part] = Stored(p)[part]
  BY <1>3, <1>9 DEF Stored, Part, otherThanCloseout
<1>11. \A part \in {"closeout"} : Stored(p)'[part] = cellArray[d][part]
  BY <1>7, <1>8 DEF Stored
<1>. QED BY <1>6, <1>10, <1>11 DEF Puts

-----------------------------------------------------------------------------
(* StepInv is inductive.                                                   *)

CellsStay(d) == \A e \in Device \ {d} : cellArray'[e] = cellArray[e]

(* A step of device d leaves the rows that other devices wait to link.     *)
OthersRowsStay(d) ==
  \A e \in Device \ {d} :
    /\ HoldsSalvage(e) => salvagevalue'[salvageID[e]] = salvagevalue[salvageID[e]]
    /\ HoldsCloseout(e) =>
         /\ DetailsIn'[closeoutID[e]] = DetailsIn[closeoutID[e]]
         /\ SalvageIn'[closeoutID[e]] = SalvageIn[closeoutID[e]]
         /\ salvagevalue'[SalvageIn[closeoutID[e]]] = salvagevalue[SalvageIn[closeoutID[e]]]

LEMMA WaitKept ==
  ASSUME IInv, RowsWait, NEW d \in Device, OthersStay(d), CellsStay(d), OthersRowsStay(d),
         HoldsSalvage(d)' => salvagevalue'[salvageID'[d]] = cellArray'[d].salvage,
         HoldsCloseout(d)' =>
           /\ DetailsIn'[closeoutID'[d]] = cellArray'[d].closeout
           /\ SalvageIn'[closeoutID'[d]] # NULL
           /\ salvagevalue'[SalvageIn'[closeoutID'[d]]] = cellArray'[d].salvage
  PROVE  RowsWait'
<1>1. SalvageWaits'
  <2>. SUFFICES ASSUME NEW e \in Device \ {d}, HoldsSalvage(e)'
                PROVE  salvagevalue'[salvageID'[e]] = cellArray'[e].salvage
    BY DEF SalvageWaits
  <2>1. HoldsSalvage(e) /\ salvageID'[e] = salvageID[e] /\ cellArray'[e] = cellArray[e]
    BY DEF OthersStay, CellsStay, HoldsSalvage
  <2>. QED BY <2>1 DEF RowsWait, SalvageWaits, OthersRowsStay
<1>2. CloseoutWaits'
  <2>. SUFFICES ASSUME NEW e \in Device \ {d}, HoldsCloseout(e)'
                PROVE  /\ DetailsIn'[closeoutID'[e]] = cellArray'[e].closeout
                       /\ SalvageIn'[closeoutID'[e]] # NULL
                       /\ salvagevalue'[SalvageIn'[closeoutID'[e]]] = cellArray'[e].salvage
    BY DEF CloseoutWaits
  <2>1. HoldsCloseout(e) /\ closeoutID'[e] = closeoutID[e] /\ cellArray'[e] = cellArray[e]
    BY DEF OthersStay, CellsStay, HoldsCloseout
  <2>. QED BY <2>1 DEF RowsWait, CloseoutWaits, OthersRowsStay
<1>. QED BY <1>1, <1>2 DEF RowsWait

LEMMA SameRowsStay ==
  ASSUME UNCHANGED <<salvagevalue, closeoutdetails>>, NEW d
  PROVE  OthersRowsStay(d)
BY DEF OthersRowsStay, DetailsIn, SalvageIn

LEMMA WaitingRows ==
  ASSUME IInv, RowsWait, NEW e \in Device
  PROVE  /\ HoldsSalvage(e) => /\ salvageID[e] \in SalvageId
                               /\ salvagevalue[salvageID[e]] # NULL
         /\ HoldsCloseout(e) => /\ closeoutID[e] \in CloseoutId
                                /\ closeoutdetails[closeoutID[e]] # NULL
                                /\ SalvageIn[closeoutID[e]] \in SalvageId
                                /\ salvagevalue[SalvageIn[closeoutID[e]]] # NULL
                                /\ \A p \in ProjectId : CloseoutOf[p] # closeoutID[e]
BY LinkType DEF IInv, TypeOK, LinksSound, OwnRows, OwnSalvages, OwnCloseouts, RowsWait,
   CloseoutWaits

(* A salvage row is written that no other device waits to link.            *)
LEMMA SalvageRowStays ==
  ASSUME IInv, RowsWait, NEW d \in Device, NEW s \in SalvageId,
         UNCHANGED closeoutdetails,
         \A r \in SalvageId \ {s} : salvagevalue'[r] = salvagevalue[r],
         \A e \in Device \ {d} :
           /\ HoldsSalvage(e) => salvageID[e] # s
           /\ HoldsCloseout(e) => SalvageIn[closeoutID[e]] # s
  PROVE  OthersRowsStay(d)
<1>1. DetailsIn' = DetailsIn /\ SalvageIn' = SalvageIn
  BY DEF DetailsIn, SalvageIn
<1>. QED BY <1>1, WaitingRows DEF OthersRowsStay

(* A closeout row is written that no other device waits to link.           *)
LEMMA CloseoutRowStays ==
  ASSUME IInv, RowsWait, NEW d \in Device, NEW k \in CloseoutId,
         UNCHANGED salvagevalue,
         \A l \in CloseoutId \ {k} : closeoutdetails'[l] = closeoutdetails[l],
         \A e \in Device \ {d} : HoldsCloseout(e) => closeoutID[e] # k
  PROVE  OthersRowsStay(d)
<1>1. \A l \in CloseoutId \ {k} : DetailsIn'[l] = DetailsIn[l] /\ SalvageIn'[l] = SalvageIn[l]
  BY DEF DetailsIn, SalvageIn
<1>. QED BY <1>1, WaitingRows DEF OthersRowsStay

InOrder == {"insertManager", "insertSupervisor", "insertSalvage", "insertCloseout", "linkCloseout"}

(* A step that makes and links no row, or only rows of the last steps of a *)
(* creation.                                                               *)
LEMMA OrderKept ==
  ASSUME IInv, MadeInOrder, NEW d \in Device, OthersStay(d),
         \A p \in ProjectId : /\ project'[p] = NULL <=> project[p] = NULL
                              /\ project_managers'[p] = NULL <=> project_managers[p] = NULL
                              /\ project_supervisors'[p] = NULL <=> project_supervisors[p] = NULL,
         CloseoutOf' = CloseoutOf,
         \/ pc'[d] \notin InOrder
         \/ /\ pc[d] \in {"insertSalvage", "insertCloseout"}
            /\ pc'[d] \in {"insertCloseout", "linkCloseout"}
            /\ projectID'[d] = projectID[d]
  PROVE  MadeInOrder'
<1>1. \A e \in Device : pc[e] \in InOrder => projectID[e] \in ProjectId
  BY OwnProject DEF InOrder, Creating, CreateStep
<1>. QED BY <1>1 DEF MadeInOrder, OthersStay, InOrder

Step(d) == Create(d) \/ Fetch(d) \/ Update(d) \/ User(d) \/ Failure(d)

(* A step of one device changes nothing of another but "touched".          *)
LEMMA StepStaysOwn ==
  ASSUME IInv, NEW d \in Device, Step(d)
  PROVE  OthersStay(d) /\ CellsStay(d)
<1>1. CASE Create(d)
  BY <1>1 DEF IInv, TypeOK, OthersStay, CellsStay, Create, InsertProject, InsertManager,
     InsertSupervisor, InsertSalvage, InsertCloseout, LinkCloseout, Goto, WroteRow, ClearIds,
     screen, scratch
<1>2. CASE Fetch(d)
  BY <1>2 DEF IInv, TypeOK, OthersStay, CellsStay, Fetch, FetchRequired, FetchManager,
     FetchSupervisor, FetchOptional, FetchSalvage, FetchFindsNoRow, Goto, OnlyCells, scratch,
     Forget, ClearIds
<1>3. CASE Update(d)
  BY <1>3 DEF IInv, TypeOK, OthersStay, CellsStay, Update, UpdateProject, UpdateManager,
     UpdateSupervisor, SelectSalvage, UpdateSalvage, InsertNewSalvage, SelectLink, LinkSalvage,
     SelectCloseout, UpdateCloseout, Goto, WroteRow, ClearIds, screen, scratch
<1>4. CASE User(d)
  BY <1>4 DEF IInv, TypeOK, OthersStay, CellsStay, User, OpenForm, FillForm, SaveForm, RefuseForm,
     OpenProject, EditProject, ChangeCells, SaveProject, Leave, Launch, Goto, Forget, ClearIds,
     screen, scratch
<1>5. CASE Failure(d)
  BY <1>5 DEF IInv, TypeOK, OthersStay, CellsStay, Failure, StatementRaises, UpdateFails, Kill,
     Forget, ClearIds, screen
<1>. QED BY <1>1, <1>2, <1>3, <1>4, <1>5 DEF Step

(* Steps that write nothing, of a device that waits to link nothing, or    *)
(* goes on waiting.                                                        *)
LEMMA NoWriteKeeps ==
  ASSUME IInv, MadeInOrder, RowsWait, NEW d \in Device, Step(d), UNCHANGED tables,
         pc'[d] \notin InOrder,
         HoldsSalvage(d)' => /\ HoldsSalvage(d)
                             /\ salvageID'[d] = salvageID[d]
                             /\ cellArray'[d] = cellArray[d]
  PROVE  MadeInOrder' /\ RowsWait'
<1>1. OthersStay(d) /\ CellsStay(d)
  BY StepStaysOwn
<1>2. MadeInOrder'
  BY <1>1, OrderKept DEF tables, CloseoutOf
<1>3. RowsWait'
  BY <1>1, WaitKept, SameRowsStay
     DEF tables, RowsWait, SalvageWaits, HoldsSalvage, HoldsCloseout, InOrder
<1>. QED BY <1>2, <1>3

LEMMA WriteNothing ==
  ASSUME IInv, MadeInOrder, RowsWait, NEW d \in Device,
         Fetch(d) \/ User(d) \/ Failure(d)
  PROVE  UNCHANGED tables /\ MadeInOrder' /\ RowsWait'
<1>1. CASE Fetch(d)
  <2>1. /\ UNCHANGED tables
        /\ pc'[d] \notin InOrder
        /\ ~HoldsSalvage(d)'
    BY <1>1 DEF IInv, TypeOK, Fetch, FetchRequired, FetchManager, FetchSupervisor, FetchOptional,
       FetchSalvage, FetchFindsNoRow, Goto, OnlyCells, InOrder, HoldsSalvage
  <2>. QED BY <1>1, <2>1, NoWriteKeeps DEF Step
<1>2. CASE User(d)
  <2>1. /\ UNCHANGED tables
        /\ pc'[d] \notin InOrder
        /\ ~HoldsSalvage(d)'
    BY <1>2 DEF IInv, TypeOK, User, OpenForm, FillForm, SaveForm, RefuseForm, OpenProject,
       EditProject, ChangeCells, SaveProject, Leave, Launch, Goto, InOrder, HoldsSalvage
  <2>. QED BY <1>2, <2>1, NoWriteKeeps DEF Step
<1>3. CASE Failure(d)
  <2>1. /\ UNCHANGED tables
        /\ pc'[d] \notin InOrder
        /\ ~HoldsSalvage(d)'
    BY <1>3 DEF IInv, TypeOK, Failure, StatementRaises, UpdateFails, Kill, InOrder, HoldsSalvage
  <2>. QED BY <1>3, <2>1, NoWriteKeeps DEF Step
<1>. QED BY <1>1, <1>2, <1>3

LEMMA SelectsKeep ==
  ASSUME IInv, MadeInOrder, RowsWait, NEW d \in Device,
         SelectSalvage(d) \/ SelectLink(d) \/ SelectCloseout(d)
  PROVE  UNCHANGED tables /\ MadeInOrder' /\ RowsWait'
<1>1. /\ UNCHANGED tables
      /\ pc'[d] \notin InOrder
      /\ HoldsSalvage(d)' => /\ HoldsSalvage(d)
                             /\ salvageID'[d] = salvageID[d]
                             /\ cellArray'[d] = cellArray[d]
  BY DEF IInv, TypeOK, SelectSalvage, SelectLink, SelectCloseout, Goto, screen, InOrder,
     HoldsSalvage
<1>. QED BY <1>1, NoWriteKeeps DEF Step, Update

LEMMA InsertProjectInOrder ==
  ASSUME IInv, MadeInOrder, RowsWait, NEW d \in Device, InsertProject(d)
  PROVE  MadeInOrder' /\ RowsWait'
<1>1. OthersStay(d) /\ CellsStay(d)
  BY StepStaysOwn DEF Step, Create
<1>2. PICK p \in ProjectId : p = projectID'[d]
  BY DEF IInv, TypeOK, InsertProject
<1>3. /\ project[p] = NULL
      /\ \A q \in ProjectId : project[q] # NULL => project'[q] # NULL
      /\ \A q \in ProjectId \ {p} : project'[q] = project[q]
      /\ UNCHANGED otherThanProject
  BY <1>2, InsertProjectPuts DEF InsertProject
<1>4. CloseoutOf'[p] = NULL
  <2>1. project'[p] = [required |-> cellArray[d].required, optional |-> cellArray[d].optional,
                       closeoutDetails_id |-> NULL]
    BY <1>2 DEF IInv, TypeOK, InsertProject
  <2>. QED BY <2>1 DEF CloseoutOf
<1>5. \A q \in ProjectId \ {p} : CloseoutOf'[q] = CloseoutOf[q]
  BY <1>3 DEF CloseoutOf
<1>6. pc'[d] = "insertManager"
  BY DEF IInv, TypeOK, InsertProject, Goto
<1>7. \A e \in Device : pc[e] \in InOrder => projectID[e] \in ProjectId
  BY OwnProject DEF InOrder, Creating, CreateStep
<1>8. MadeInOrder'
  BY <1>1, <1>2, <1>3, <1>4, <1>5, <1>6, <1>7
     DEF MadeInOrder, OthersStay, InOrder, otherThanProject
<1>9. RowsWait'
  BY <1>1, <1>3, <1>6, WaitKept, SameRowsStay DEF otherThanProject, HoldsSalvage, HoldsCloseout
<1>. QED BY <1>8, <1>9

LEMMA InsertManagerInOrder ==
  ASSUME IInv, MadeInOrder, RowsWait, NEW d \in Device, InsertManager(d)
  PROVE  MadeInOrder' /\ RowsWait'
<1> DEFINE p == projectID[d]
<1>1. OthersStay(d) /\ CellsStay(d)
  BY StepStaysOwn DEF Step, Create
<1>2. /\ p \in ProjectId
      /\ project[p] # NULL
      /\ \A e \in Device \ {d} : Creating(e) => projectID[e] # p
  BY OwnProject DEF IInv, InsertManager, Goto, Creating, CreateStep, OwnRows, OwnProjects
<1>3. /\ pc'[d] = "insertSupervisor"
      /\ projectID'[d] = p
      /\ UNCHANGED otherThanManagers
      /\ project_managers'[p] # NULL
      /\ project_managers[p] = NULL
      /\ \A q \in ProjectId \ {p} : project_managers'[q] = project_managers[q]
  BY <1>2, CellType, ValueAssumption DEF IInv, TypeOK, InsertManager, Goto, WroteRow, screen,
     MadeInOrder, Contents
<1> HIDE DEF p
<1>4. CloseoutOf' = CloseoutOf
  BY <1>3 DEF CloseoutOf, otherThanManagers
<1>5. \A e \in Device \ {d} : pc[e] \in InOrder => projectID[e] \in ProjectId \ {p}
  BY <1>2, OwnProject DEF InOrder, Creating, CreateStep
<1>6. MadeInOrder'
  BY <1>1, <1>2, <1>3, <1>4, <1>5 DEF MadeInOrder, OthersStay, InOrder, otherThanManagers
<1>7. RowsWait'
  BY <1>1, <1>3, WaitKept, SameRowsStay DEF otherThanManagers, HoldsSalvage, HoldsCloseout
<1>. QED BY <1>6, <1>7

LEMMA InsertSupervisorInOrder ==
  ASSUME IInv, MadeInOrder, RowsWait, NEW d \in Device, InsertSupervisor(d)
  PROVE  MadeInOrder' /\ RowsWait'
<1> DEFINE p == projectID[d]
<1>1. OthersStay(d) /\ CellsStay(d)
  BY StepStaysOwn DEF Step, Create
<1>2. /\ p \in ProjectId
      /\ project[p] # NULL
      /\ \A e \in Device \ {d} : Creating(e) => projectID[e] # p
  BY OwnProject DEF IInv, InsertSupervisor, Goto, Creating, CreateStep, OwnRows, OwnProjects
<1>3. /\ pc'[d] = "insertSalvage"
      /\ projectID'[d] = p
      /\ UNCHANGED otherThanSupervisors
      /\ project_supervisors'[p] # NULL
      /\ project_managers[p] # NULL
      /\ \A q \in ProjectId \ {p} : project_supervisors'[q] = project_supervisors[q]
  BY <1>2, CellType, ValueAssumption DEF IInv, TypeOK, InsertSupervisor, Goto, WroteRow, screen,
     MadeInOrder, Contents
<1> HIDE DEF p
<1>4. CloseoutOf' = CloseoutOf
  BY <1>3 DEF CloseoutOf, otherThanSupervisors
<1>5. \A e \in Device \ {d} : pc[e] \in InOrder => projectID[e] \in ProjectId \ {p}
  BY <1>2, OwnProject DEF InOrder, Creating, CreateStep
<1>6. MadeInOrder'
  BY <1>1, <1>2, <1>3, <1>4, <1>5 DEF MadeInOrder, OthersStay, InOrder, otherThanSupervisors
<1>7. RowsWait'
  BY <1>1, <1>3, WaitKept, SameRowsStay DEF otherThanSupervisors, HoldsSalvage, HoldsCloseout
<1>. QED BY <1>6, <1>7

LEMMA InsertSalvageInOrder ==
  ASSUME IInv, MadeInOrder, RowsWait, NEW d \in Device, InsertSalvage(d) \/ InsertNewSalvage(d)
  PROVE  MadeInOrder' /\ RowsWait'
<1>1. OthersStay(d) /\ CellsStay(d)
  BY StepStaysOwn DEF Step, Create, Update
<1>2. PICK s \in SalvageId :
        /\ salvagevalue[s] = NULL
        /\ salvagevalue' = [salvagevalue EXCEPT ![s] = cellArray[d].salvage]
        /\ salvageID' = [salvageID EXCEPT ![d] = s]
  BY DEF InsertSalvage, InsertNewSalvage, FreshId
<1>3. /\ UNCHANGED otherThanSalvage
      /\ projectID'[d] = projectID[d]
      /\ cellArray'[d] = cellArray[d]
      /\ salvagevalue'[s] = cellArray[d].salvage
      /\ \A r \in SalvageId \ {s} : salvagevalue'[r] = salvagevalue[r]
      /\ salvageID'[d] = s
      /\ ~HoldsCloseout(d)'
      /\ \/ pc'[d] \notin InOrder
         \/ pc[d] = "insertSalvage" /\ pc'[d] = "insertCloseout"
  BY <1>2 DEF IInv, TypeOK, InsertSalvage, InsertNewSalvage, Goto, screen, HoldsCloseout, InOrder
<1>4. CloseoutOf' = CloseoutOf
  BY <1>3 DEF CloseoutOf, otherThanSalvage
<1>5. MadeInOrder'
  BY <1>1, <1>3, <1>4, OrderKept DEF otherThanSalvage
<1>6. OthersRowsStay(d)
  BY <1>2, <1>3, WaitingRows, SalvageRowStays DEF otherThanSalvage
<1>7. RowsWait'
  BY <1>1, <1>3, <1>6, WaitKept
<1>. QED BY <1>5, <1>7

LEMMA InsertCloseoutInOrder ==
  ASSUME IInv, MadeInOrder, RowsWait, NEW d \in Device, InsertCloseout(d)
  PROVE  MadeInOrder' /\ RowsWait'
<1>1. OthersStay(d) /\ CellsStay(d)
  BY StepStaysOwn DEF Step, Create
<1>2. PICK k \in CloseoutId :
        /\ closeoutdetails[k] = NULL
        /\ closeoutdetails' = [closeoutdetails EXCEPT ![k] =
             [details |-> cellArray[d].closeout, salvageValue_id |-> salvageID[d]]]
        /\ closeoutID' = [closeoutID EXCEPT ![d] = k]
  BY DEF InsertCloseout, FreshId
<1>3. /\ UNCHANGED otherThanCloseout
      /\ projectID'[d] = projectID[d]
      /\ cellArray'[d] = cellArray[d]
      /\ closeoutdetails'[k] = [details |-> cellArray[d].closeout, salvageValue_id |-> salvageID[d]]
      /\ \A l \in CloseoutId \ {k} : closeoutdetails'[l] = closeoutdetails[l]
      /\ closeoutID'[d] = k
      /\ pc[d] = "insertCloseout"
      /\ pc'[d] = "linkCloseout"
  BY <1>2 DEF IInv, TypeOK, InsertCloseout, Goto, screen
<1>4. CloseoutOf' = CloseoutOf
  BY <1>3 DEF CloseoutOf, otherThanCloseout
<1>5. MadeInOrder'
  BY <1>1, <1>3, <1>4, OrderKept DEF otherThanCloseout
<1>6. OthersRowsStay(d)
  BY <1>2, <1>3, WaitingRows, CloseoutRowStays DEF otherThanCloseout
<1>7. /\ salvageID[d] \in SalvageId
      /\ salvageID[d] # NULL
      /\ salvagevalue[salvageID[d]] = cellArray[d].salvage
      /\ cellArray[d].closeout \in Contents
  BY <1>3, ValueAssumption, CellType, WaitingRows DEF IInv, HoldsSalvage, RowsWait, SalvageWaits
<1>8. closeoutdetails'[k] # NULL
  BY <1>3, <1>7, RowAssumption
<1>9. DetailsIn'[k] = cellArray[d].closeout /\ SalvageIn'[k] = salvageID[d]
  BY <1>3, <1>8 DEF DetailsIn, SalvageIn
<1>10. RowsWait'
  BY <1>1, <1>3, <1>6, <1>7, <1>9, WaitKept DEF otherThanCloseout, HoldsSalvage
<1>. QED BY <1>5, <1>10

LEMMA LinkCloseoutInOrder ==
  ASSUME IInv, MadeInOrder, RowsWait, NEW d \in Device, LinkCloseout(d)
  PROVE  MadeInOrder' /\ RowsWait'
<1> DEFINE p == projectID[d]
<1>1. OthersStay(d) /\ CellsStay(d)
  BY StepStaysOwn DEF Step, Create
<1>2. /\ p \in ProjectId
      /\ project[p] # NULL
      /\ project_managers[p] # NULL
      /\ project_supervisors[p] # NULL
  BY OwnProject DEF LinkCloseout, Goto, Creating, CreateStep, MadeInOrder
<1>3. /\ project'[p] # NULL
      /\ \A q \in ProjectId \ {p} : project'[q] = project[q]
      /\ UNCHANGED otherThanProject
      /\ pc'[d] = "form"
  BY <1>2, LinkCloseoutPuts DEF IInv, TypeOK, LinkCloseout, Goto
<1> HIDE DEF p
<1>4. \A q \in ProjectId \ {p} : CloseoutOf'[q] = CloseoutOf[q]
  BY <1>3 DEF CloseoutOf
<1>5. \A e \in Device : pc[e] \in InOrder => projectID[e] \in ProjectId
  BY OwnProject DEF InOrder, Creating, CreateStep
<1>6. MadeInOrder'
  BY <1>1, <1>2, <1>3, <1>4, <1>5 DEF MadeInOrder, OthersStay, InOrder, otherThanProject
<1>7. RowsWait'
  BY <1>1, <1>3, WaitKept, SameRowsStay DEF otherThanProject, HoldsSalvage, HoldsCloseout
<1>. QED BY <1>6, <1>7

LEMMA UpdateProjectInOrder ==
  ASSUME IInv, MadeInOrder, RowsWait, NEW d \in Device, UpdateProject(d)
  PROVE  MadeInOrder' /\ RowsWait'
<1> DEFINE p == projectID[d]
<1>1. OthersStay(d) /\ CellsStay(d)
  BY StepStaysOwn DEF Step, Update
<1>2. p \in ProjectId /\ project[p] # NULL
  BY LoadedIsMade DEF UpdateProject, Goto, Loaded, UpdateStep
<1>3. /\ project'[p] # NULL
      /\ CloseoutOf'[p] = CloseoutOf[p]
      /\ \A q \in ProjectId \ {p} : project'[q] = project[q]
      /\ UNCHANGED otherThanProject
      /\ pc'[d] = "updateManager"
  BY <1>2, UpdateProjectPuts DEF IInv, TypeOK, UpdateProject, Goto
<1> HIDE DEF p
<1>4. CloseoutOf' = CloseoutOf
  BY <1>3 DEF CloseoutOf
<1>5. MadeInOrder'
  BY <1>1, <1>2, <1>3, <1>4, OrderKept DEF InOrder, otherThanProject
<1>6. RowsWait'
  BY <1>1, <1>3, WaitKept, SameRowsStay DEF otherThanProject, HoldsSalvage, HoldsCloseout
<1>. QED BY <1>5, <1>6

LEMMA UpdatePeople ==
  ASSUME IInv, MadeInOrder, RowsWait, NEW d \in Device, UpdateManager(d) \/ UpdateSupervisor(d),
         NEW p \in ProjectId, p = projectID[d]
  PROVE  /\ MadeInOrder' /\ RowsWait'
         /\ UpdateManager(d)    => Puts(d, p, {"manager"})
         /\ UpdateSupervisor(d) => Puts(d, p, {"supervisor"})
<1>1. OthersStay(d) /\ CellsStay(d)
  BY StepStaysOwn DEF Step, Update
<1>2. project_managers[p] # NULL /\ project_supervisors[p] # NULL
  BY LoadedIsMade DEF UpdateManager, UpdateSupervisor, Goto, Loaded, UpdateStep
<1>3. /\ UNCHANGED <<project, salvagevalue, closeoutdetails>>
      /\ pc'[d] \notin InOrder /\ ~HoldsSalvage(d)' /\ ~HoldsCloseout(d)'
  BY DEF IInv, TypeOK, UpdateManager, UpdateSupervisor, Goto, otherThanManagers,
     otherThanSupervisors, InOrder, HoldsSalvage, HoldsCloseout
<1>4. UpdateManager(d) =>
        /\ project_managers' = [project_managers EXCEPT ![p] = cellArray[d].manager]
        /\ UNCHANGED otherThanManagers
  BY <1>2 DEF UpdateManager, Overwrite
<1>5. UpdateSupervisor(d) =>
        /\ project_supervisors' = [project_supervisors EXCEPT ![p] = cellArray[d].supervisor]
        /\ UNCHANGED otherThanSupervisors
  BY <1>2 DEF UpdateSupervisor, Overwrite
<1>6. cellArray[d].manager # NULL /\ cellArray[d].supervisor # NULL
  BY CellType, ValueAssumption DEF IInv
<1>7. \A q \in ProjectId :
        /\ project_managers'[q] = NULL <=> project_managers[q] = NULL
        /\ project_supervisors'[q] = NULL <=> project_supervisors[q] = NULL
  BY <1>2, <1>4, <1>5, <1>6 DEF IInv, TypeOK, otherThanManagers, otherThanSupervisors
<1>8. CloseoutOf' = CloseoutOf
  BY <1>3 DEF CloseoutOf
<1>9. MadeInOrder'
  BY <1>1, <1>3, <1>7, <1>8, OrderKept
<1>10. RowsWait'
  BY <1>1, <1>3, WaitKept, SameRowsStay
<1>. QED BY <1>4, <1>5, <1>9, <1>10, ManagerPuts, SupervisorPuts

LEMMA UpdateSalvageInOrder ==
  ASSUME IInv, MadeInOrder, RowsWait, NEW d \in Device, UpdateSalvage(d)
  PROVE  MadeInOrder' /\ RowsWait'
<1> DEFINE s == salvageID[d]
<1>1. OthersStay(d) /\ CellsStay(d)
  BY StepStaysOwn DEF Step, Update
<1>2. /\ projectID[d] \in ProjectId
      /\ s \in SalvageId
      /\ \A k \in CloseoutId : SalvageIn[k] = s => k = CloseoutOf[projectID[d]]
      /\ \A e \in Device : HoldsSalvage(e) => salvageID[e] # s
  BY LoadedIsMade DEF UpdateSalvage, Goto, Loaded, UpdateStep, IInv, TypeOK, SelectedRows,
     SelectedSalvage
<1>3. /\ UNCHANGED otherThanSalvage
      /\ \A r \in SalvageId \ {s} : salvagevalue'[r] = salvagevalue[r]
      /\ pc'[d] = "selectCloseout"
  BY DEF IInv, TypeOK, UpdateSalvage, Overwrite, Goto
<1> HIDE DEF s
<1>4. \A e \in Device : HoldsCloseout(e) => SalvageIn[closeoutID[e]] # s
  BY <1>2, WaitingRows
<1>5. OthersRowsStay(d)
  BY <1>2, <1>3, <1>4, SalvageRowStays DEF otherThanSalvage
<1>6. CloseoutOf' = CloseoutOf
  BY <1>3 DEF CloseoutOf, otherThanSalvage
<1>7. MadeInOrder'
  BY <1>1, <1>3, <1>6, OrderKept DEF InOrder, otherThanSalvage
<1>8. RowsWait'
  BY <1>1, <1>3, <1>5, WaitKept DEF HoldsSalvage, HoldsCloseout
<1>. QED BY <1>7, <1>8

LEMMA CloseoutRowInOrder ==
  ASSUME IInv, MadeInOrder, RowsWait, NEW d \in Device, LinkSalvage(d) \/ UpdateCloseout(d)
  PROVE  MadeInOrder' /\ RowsWait'
<1> DEFINE k == closeoutID[d]
<1>1. OthersStay(d) /\ CellsStay(d)
  BY StepStaysOwn DEF Step, Update
<1>2. /\ projectID[d] \in ProjectId
      /\ k \in CloseoutId
      /\ k = CloseoutOf[projectID[d]]
  BY LoadedIsMade DEF LinkSalvage, UpdateCloseout, Goto, Loaded, UpdateStep, IInv, SelectedRows,
     SelectedCloseout
<1>3. /\ UNCHANGED otherThanCloseout
      /\ \A l \in CloseoutId \ {k} : closeoutdetails'[l] = closeoutdetails[l]
      /\ pc'[d] \in {"selectCloseout", "viewing"}
  BY DEF IInv, TypeOK, LinkSalvage, UpdateCloseout, Goto
<1> HIDE DEF k
<1>4. \A e \in Device : HoldsCloseout(e) => closeoutID[e] # k
  BY <1>2, WaitingRows
<1>5. OthersRowsStay(d)
  BY <1>2, <1>3, <1>4, CloseoutRowStays DEF otherThanCloseout
<1>6. CloseoutOf' = CloseoutOf
  BY <1>3 DEF CloseoutOf, otherThanCloseout
<1>7. MadeInOrder'
  BY <1>1, <1>3, <1>6, OrderKept DEF InOrder, otherThanCloseout
<1>8. RowsWait'
  BY <1>1, <1>3, <1>5, WaitKept DEF HoldsSalvage, HoldsCloseout
<1>. QED BY <1>7, <1>8

LEMMA StepKeeps ==
  ASSUME IInv, MadeInOrder, RowsWait, NEW d \in Device, Step(d)
  PROVE  MadeInOrder' /\ RowsWait'
<1>1. CASE Create(d)
  BY <1>1, InsertProjectInOrder, InsertManagerInOrder, InsertSupervisorInOrder,
     InsertSalvageInOrder, InsertCloseoutInOrder, LinkCloseoutInOrder DEF Create
<1>2. CASE Update(d)
  <2>1. UpdateManager(d) \/ UpdateSupervisor(d) => projectID[d] \in ProjectId
    BY LoadedIsMade DEF UpdateManager, UpdateSupervisor, Goto, Loaded, UpdateStep
  <2>. QED
    BY <1>2, <2>1, UpdateProjectInOrder, UpdatePeople, SelectsKeep, UpdateSalvageInOrder,
       InsertSalvageInOrder, CloseoutRowInOrder DEF Update
<1>3. CASE Fetch(d) \/ User(d) \/ Failure(d)
  BY <1>3, WriteNothing
<1>. QED BY <1>1, <1>2, <1>3 DEF Step

LEMMA StepInitHolds == Init => StepInv
<1>. SUFFICES ASSUME Init PROVE StepInv
  OBVIOUS
<1>1. IInv
  BY InitHolds
<1>2. \A p \in ProjectId : /\ project[p] = NULL => project_managers[p] = NULL
                           /\ project_managers[p] = NULL => project[p] = NULL
                           /\ project_supervisors[p] = project_managers[p]
  <2>1. PICK first \in Value, rest \in Value \cup {Blank},
             co \in Injection(Existing, CloseoutId) :
          /\ project = [p \in ProjectId |->
               IF p \in Existing
               THEN [required |-> first, optional |-> rest, closeoutDetails_id |-> co[p]]
               ELSE NULL]
          /\ project_managers = [p \in ProjectId |-> IF p \in Existing THEN first ELSE NULL]
          /\ project_supervisors = project_managers
    BY DEF Init
  <2>2. first # NULL
    BY <2>1, ValueAssumption DEF Contents
  <2>3. \A p \in Existing :
          [required |-> first, optional |-> rest, closeoutDetails_id |-> co[p]] # NULL
    <3>1. \A p \in Existing :
            [required |-> first, optional |-> rest, closeoutDetails_id |-> co[p]] \in ProjectRow
      BY <2>1 DEF ProjectRow, Contents, Injection
    <3>2. NULL \notin ProjectRow
      BY RowAssumption DEF ProjectRow
    <3>. QED BY <3>1, <3>2
  <2>. QED BY <2>1, <2>2, <2>3
<1>3. \A p \in ProjectId : project[p] = NULL => CloseoutOf[p] = NULL
  BY DEF CloseoutOf
<1>4. MadeInOrder
  BY <1>2, <1>3 DEF Init, MadeInOrder
<1>5. RowsWait
  BY DEF Init, RowsWait, SalvageWaits, CloseoutWaits, HoldsSalvage, HoldsCloseout
<1>. QED BY <1>1, <1>4, <1>5 DEF StepInv

LEMMA StepNextKeeps == StepInv /\ [Next]_vars => StepInv'
<1>. SUFFICES ASSUME StepInv, [Next]_vars PROVE StepInv'
  OBVIOUS
<1>1. IInv'
  BY NextKeeps DEF StepInv
<1>2. CASE Next
  <2>. PICK d \in Device : Step(d)
    BY <1>2 DEF Next, Step
  <2>. QED BY <1>1, StepKeeps DEF StepInv
<1>3. CASE UNCHANGED vars
  BY <1>1, <1>3 DEF StepInv, MadeInOrder, RowsWait, SalvageWaits, CloseoutWaits, HoldsSalvage,
     HoldsCloseout, CloseoutOf, DetailsIn, SalvageIn, vars, tables, screen, scratch
<1>. QED BY <1>2, <1>3

(* In every behaviour the rows of a project are made in the order of the   *)
(* statements of addNewProject, and a row that waits to be linked holds    *)
(* what its device entered.                                                *)
THEOREM StepInvariance == Spec => []StepInv
<1>. QED BY StepInitHolds, StepNextKeeps, PTL DEF Spec

-----------------------------------------------------------------------------
(* What a step of device d does to what is stored: nothing, the next step  *)
(* of a creation, or an update of one row of a loaded project.             *)

RowParts == { {"required", "optional"}, {"manager"}, {"supervisor"}, {"closeout"}, {"salvage"} }

Grows(d, p) ==
  \/ /\ pc[d] = "insertProject"
     /\ project[p] = NULL
     /\ Puts(d, p, {"required", "optional"})
  \/ /\ pc[d] = "insertManager"
     /\ projectID[d] = p
     /\ Puts(d, p, {"manager"})
  \/ /\ pc[d] = "insertSupervisor"
     /\ projectID[d] = p
     /\ Puts(d, p, {"supervisor"})
  \/ /\ pc[d] = "linkCloseout"
     /\ projectID[d] = p
     /\ Puts(d, p, {"closeout", "salvage"})

Changes(d, p) ==
  /\ pc[d] \in UpdateStep
  /\ projectID[d] = p
  /\ \E parts \in RowParts : parts \subseteq Writes(pc[d]) /\ Puts(d, p, parts)

LEMMA CreateEffect ==
  ASSUME StepInv, NEW d \in Device, Create(d)
  PROVE  AllKept \/ \E p \in ProjectId :
                      projectID'[d] = p /\ pc'[d] # pc[d] /\ Grows(d, p)
<1>. IInv /\ RowsWait
  BY DEF StepInv
<1>1. CASE InsertProject(d)
  <2>1. projectID'[d] \in ProjectId
    BY <1>1 DEF IInv, TypeOK, InsertProject
  <2>2. pc[d] = "insertProject" /\ pc'[d] # pc[d]
    BY <1>1 DEF IInv, TypeOK, InsertProject, Goto
  <2>3. PICK p \in ProjectId : p = projectID'[d]
    BY <2>1
  <2>4. project[p] = NULL /\ Puts(d, p, {"required", "optional"})
    BY <1>1, <2>3, InsertProjectPuts
  <2>. QED BY <2>2, <2>3, <2>4 DEF Grows
<1>2. CASE InsertManager(d) \/ InsertSupervisor(d) \/ LinkCloseout(d)
  <2>1. Creating(d)
    BY <1>2 DEF InsertManager, InsertSupervisor, LinkCloseout, Goto, Creating, CreateStep
  <2>2. PICK p \in ProjectId : p = projectID[d]
    BY <2>1, OwnProject
  <2>3. projectID'[d] = p /\ pc'[d] # pc[d]
    BY <1>2, <2>2 DEF IInv, TypeOK, InsertManager, InsertSupervisor, LinkCloseout, Goto, WroteRow,
       screen
  <2>4. InsertManager(d) => pc[d] = "insertManager" /\ Puts(d, p, {"manager"})
    BY <2>2, ManagerPuts DEF InsertManager, Goto
  <2>5. InsertSupervisor(d) => pc[d] = "insertSupervisor" /\ Puts(d, p, {"supervisor"})
    BY <2>2, SupervisorPuts DEF InsertSupervisor, Goto
  <2>6. LinkCloseout(d) => pc[d] = "linkCloseout" /\ Puts(d, p, {"closeout", "salvage"})
    BY <2>2, LinkCloseoutPuts DEF LinkCloseout, Goto
  <2>. QED BY <1>2, <2>2, <2>3, <2>4, <2>5, <2>6 DEF Grows
<1>. QED BY <1>1, <1>2, NewSalvageKept, NewCloseoutKept DEF Create

LEMMA UpdateEffect ==
  ASSUME StepInv, NEW d \in Device, Update(d)
  PROVE  AllKept \/ \E p \in ProjectId :
                      projectID'[d] = p /\ pc'[d] # pc[d] /\ Changes(d, p)
<1>. IInv /\ MadeInOrder /\ RowsWait
  BY DEF StepInv
<1>1. pc[d] \in UpdateStep
  BY DEF Update, UpdateProject, UpdateManager, UpdateSupervisor, SelectSalvage, UpdateSalvage,
     InsertNewSalvage, SelectLink, LinkSalvage, SelectCloseout, UpdateCloseout, Goto, UpdateStep
<1>2. PICK p \in ProjectId : p = projectID[d]
  BY <1>1, LoadedIsMade DEF Loaded
<1>3. projectID'[d] = p /\ pc'[d] # pc[d]
  BY <1>2 DEF IInv, TypeOK, Update, UpdateProject, UpdateManager, UpdateSupervisor, SelectSalvage,
     UpdateSalvage, InsertNewSalvage, SelectLink, LinkSalvage, SelectCloseout, UpdateCloseout, Goto,
     WroteRow, screen
<1>4. CASE UpdateProject(d)
  <2>1. Puts(d, p, {"required", "optional"})
    BY <1>2, <1>4, UpdateProjectPuts
  <2>2. {"required", "optional"} \subseteq Writes(pc[d])
    BY <1>4 DEF UpdateProject, Goto, Writes, Part
  <2>. QED BY <1>1, <1>2, <1>3, <2>1, <2>2 DEF Changes, RowParts
<1>5. CASE UpdateManager(d)
  <2>1. Puts(d, p, {"manager"})
    BY <1>2, <1>5, UpdatePeople
  <2>2. {"manager"} \subseteq Writes(pc[d])
    BY <1>5 DEF UpdateManager, Goto, Writes, Part
  <2>. QED BY <1>1, <1>2, <1>3, <2>1, <2>2 DEF Changes, RowParts
<1>6. CASE UpdateSupervisor(d)
  <2>1. Puts(d, p, {"supervisor"})
    BY <1>2, <1>6, UpdatePeople
  <2>2. {"supervisor"} \subseteq Writes(pc[d])
    BY <1>6 DEF UpdateSupervisor, Writes, Part
  <2>. QED BY <1>1, <1>2, <1>3, <2>1, <2>2 DEF Changes, RowParts
<1>7. CASE UpdateSalvage(d) \/ LinkSalvage(d)
  <2>1. AllKept \/ Puts(d, p, {"salvage"})
    BY <1>2, <1>7, UpdateSalvagePuts, LinkSalvagePuts
  <2>2. {"salvage"} \subseteq Writes(pc[d])
    BY <1>7 DEF UpdateSalvage, LinkSalvage, Goto, Writes, Part
  <2>. QED BY <1>1, <1>2, <1>3, <2>1, <2>2 DEF Changes, RowParts
<1>8. CASE UpdateCloseout(d)
  <2>1. Puts(d, p, {"closeout"})
    BY <1>2, <1>8, UpdateCloseoutPuts
  <2>2. {"closeout"} \subseteq Writes(pc[d])
    BY <1>8 DEF UpdateCloseout, Goto, Writes, Part
  <2>. QED BY <1>1, <1>2, <1>3, <2>1, <2>2 DEF Changes, RowParts
<1>. QED
  BY <1>4, <1>5, <1>6, <1>7, <1>8, NewSalvageKept, SelectsKeep, TablesKept DEF Update, IInv

LEMMA StepEffect ==
  ASSUME StepInv, [Next]_vars
  PROVE  \/ AllKept
         \/ \E d \in Device, p \in ProjectId :
              /\ projectID'[d] = p
              /\ pc'[d] # pc[d]
              /\ Grows(d, p) \/ Changes(d, p)
<1>1. CASE UNCHANGED vars
  BY <1>1, TablesKept DEF StepInv, IInv, vars
<1>2. CASE Next
  <2>. PICK d \in Device : Step(d)
    BY <1>2 DEF Next, Step
  <2>1. CASE Create(d) \/ Update(d)
    BY <2>1, CreateEffect, UpdateEffect
  <2>2. CASE Fetch(d) \/ User(d) \/ Failure(d)
    BY <2>2, WriteNothing, TablesKept DEF StepInv, IInv
  <2>. QED BY <2>1, <2>2 DEF Step
<1>. QED BY <1>1, <1>2

-----------------------------------------------------------------------------
(* What is stored of a project changes only by a statement of a device     *)
(* that has it on screen, in the parts of that statement and to the cells  *)
(* of that device: no interleaving of saves, and no id that was fetched    *)
(* before another device relinked a row, ever changes another project.     *)
THEOREM SavesAreIsolated == Spec => Isolation
<1> DEFINE Isolated ==
      \A p \in ProjectId :
        Stored(p)' # Stored(p) =>
          \E d \in Device :
            /\ pc'[d] # pc[d]
            /\ projectID'[d] = p
            /\ \A part \in Part :
                 Stored(p)'[part] # Stored(p)[part] =>
                   part \in Writes(pc[d]) /\ Stored(p)'[part] = cellArray[d][part]
<1>1. StepInv /\ [Next]_vars => Isolated
  <2>. SUFFICES ASSUME StepInv, [Next]_vars, NEW p \in ProjectId, Stored(p)' # Stored(p)
                PROVE  \E d \in Device :
                         /\ pc'[d] # pc[d]
                         /\ projectID'[d] = p
                         /\ \A part \in Part :
                              Stored(p)'[part] # Stored(p)[part] =>
                                /\ part \in Writes(pc[d])
                                /\ Stored(p)'[part] = cellArray[d][part]
    OBVIOUS
  <2>1. PICK d \in Device, q \in ProjectId :
          projectID'[d] = q /\ pc'[d] # pc[d] /\ (Grows(d, q) \/ Changes(d, q))
    BY StepEffect DEF AllKept
  <2>2. PICK parts \in SUBSET Writes(pc[d]) : Puts(d, q, parts)
    BY <2>1 DEF Grows, Changes, Writes, Part
  <2>3. q = p
    BY <2>2 DEF Puts
  <2>. QED BY <2>1, <2>2, <2>3 DEF Puts
<1>. QED BY <1>1, StepInvariance, PTL DEF Isolation, Spec

(* A project whose creation died half way stays as it is for good: it      *)
(* keeps being listed, no device resumes it, and no save reaches it.       *)
THEOREM AbandonedStays == Spec => AbandonedForever
<1>1. StepInv /\ [Next]_vars => \A p \in ProjectId : Abandoned(p) => Abandoned(p)'
  <2>. SUFFICES ASSUME StepInv, [Next]_vars, NEW p \in ProjectId, Abandoned(p)
                PROVE  Abandoned(p)'
    OBVIOUS
  <2>. IInv /\ MadeInOrder
    BY DEF StepInv
  <2>1. project[p] # NULL /\ ~Complete(p) /\ \A d \in Device : pc[d] \in CreateStep => projectID[d] # p
    BY DEF Abandoned
  <2>2. \A d \in Device : pc[d] \in UpdateStep => projectID[d] # p
    <3>. SUFFICES ASSUME NEW d \in Device, pc[d] \in UpdateStep, projectID[d] = p
                  PROVE  Complete(p)
      BY <2>1
    <3>1. /\ project_managers[p] # NULL
          /\ project_supervisors[p] # NULL
          /\ CloseoutOf[p] \in CloseoutId
          /\ closeoutdetails[CloseoutOf[p]] # NULL
      BY LoadedIsMade DEF Loaded
    <3>2. DetailsIn[CloseoutOf[p]] # NULL /\ CloseoutOf[p] # NULL
      BY <3>1, ValueAssumption DEF DetailsIn, IInv, TypeOK, CloseoutRow
    <3>3. project[p].required # NULL /\ project[p].optional # NULL
      BY <2>1, ValueAssumption DEF IInv, TypeOK, ProjectRow
    <3>. QED BY <2>1, <3>1, <3>2, <3>3 DEF Complete, Stored, Part
  <2>3. Stored(p)' = Stored(p)
    <3>. SUFFICES ASSUME NEW d \in Device, NEW q \in ProjectId, Grows(d, q) \/ Changes(d, q)
                  PROVE  Stored(p)' = Stored(p)
      BY StepEffect DEF AllKept
    <3>1. q # p
      BY <2>1, <2>2 DEF Grows, Changes, CreateStep
    <3>. QED BY <3>1 DEF Grows, Changes, Puts
  <2>4. ~Complete(p)'
    BY <2>1, <2>3 DEF Complete
  <2>5. project'[p] # NULL
    <3>1. Stored(p).required # NULL
      BY <2>1, ValueAssumption DEF Stored, IInv, TypeOK, ProjectRow
    <3>. QED BY <2>3, <3>1 DEF Stored
  <2>6. \A d \in Device : pc'[d] \in CreateStep => projectID'[d] # p
    <3>. SUFFICES ASSUME NEW e \in Device, pc'[e] \in CreateStep
                  PROVE  projectID'[e] # p
      OBVIOUS
    <3>1. CASE UNCHANGED vars
      BY <2>1, <3>1 DEF vars, screen
    <3>2. CASE Next
      <4>1. PICK d \in Device : Step(d)
        BY <3>2 DEF Next, Step
      <4>2. CASE e # d
        BY <2>1, <4>1, <4>2, StepStaysOwn DEF OthersStay
      <4>3. CASE e = d
        <5>1. CASE Create(d)
          <6>1. InsertProject(d) => projectID'[d] # p
            BY <2>1 DEF IInv, TypeOK, InsertProject, FreshId
          <6>2. ~InsertProject(d) => pc[d] \in CreateStep /\ projectID'[d] = projectID[d]
            BY <5>1 DEF Create, InsertManager, InsertSupervisor, InsertSalvage, InsertCloseout,
               LinkCloseout, Goto, WroteRow, screen, CreateStep
          <6>. QED BY <2>1, <4>3, <6>1, <6>2
        <5>2. CASE Fetch(d) \/ Update(d) \/ Failure(d)
          <6>1. pc'[d] \notin CreateStep
            BY <5>2 DEF IInv, TypeOK, Fetch, FetchRequired, FetchManager, FetchSupervisor,
               FetchOptional, FetchSalvage, FetchFindsNoRow, Update, UpdateProject, UpdateManager,
               UpdateSupervisor, SelectSalvage, UpdateSalvage, InsertNewSalvage, SelectLink,
               LinkSalvage, SelectCloseout, UpdateCloseout, Failure, StatementRaises, UpdateFails,
               Kill, Goto, CreateStep
          <6>. QED BY <4>3, <6>1
        <5>3. CASE User(d)
          <6>1. SaveForm(d) => projectID'[d] # p
            BY ValueAssumption DEF IInv, TypeOK, SaveForm
          <6>2. ~SaveForm(d) => pc'[d] \notin CreateStep
            BY <5>3 DEF IInv, TypeOK, User, OpenForm, FillForm, RefuseForm, OpenProject,
               EditProject, ChangeCells, SaveProject, Leave, Launch, Goto, CreateStep
          <6>. QED BY <4>3, <6>1, <6>2
        <5>. QED BY <4>1, <5>1, <5>2, <5>3 DEF Step
      <4>. QED BY <4>2, <4>3
    <3>. QED BY <3>1, <3>2
  <2>. QED BY <2>4, <2>5, <2>6 DEF Abandoned
<1>. QED BY <1>1, StepInvariance, PTL DEF AbandonedForever, Spec

-----------------------------------------------------------------------------
(* The tables implement the registry.                                      *)

Record == [p \in ProjectId |-> Stored(p)]

RecordTyped == Record \in [ProjectId -> [Part -> Contents \cup {NULL}]]

LEMMA RecordType == TypeOK => RecordTyped
<1>. SUFFICES ASSUME TypeOK, NEW p \in ProjectId
              PROVE  Stored(p) \in [Part -> Contents \cup {NULL}]
  BY DEF RecordTyped, Record
<1>1. Stored(p).required \in Contents \cup {NULL} /\ Stored(p).optional \in Contents \cup {NULL}
  BY StoredType DEF Stored
<1>2. Stored(p).salvage \in Contents \cup {NULL}
  BY LinkType DEF TypeOK, Stored
<1>. QED BY <1>1, <1>2, StoredType DEF Stored, Part

(* The parts of the existing projects at the start.                        *)
LEMMA RegistryInit == Init => Registry!Init
<1>. SUFFICES ASSUME Init PROVE Registry!Init
  OBVIOUS
<1>1. PICK first \in Value,
           rest \in Value \cup {Blank},
           co \in Injection(Existing, CloseoutId),
           sv \in Injection(Existing \ WithoutSalvage, SalvageId) :
        /\ project = [p \in ProjectId |->
             IF p \in Existing
             THEN [required |-> first, optional |-> rest, closeoutDetails_id |-> co[p]]
             ELSE NULL]
        /\ project_managers = [p \in ProjectId |-> IF p \in Existing THEN first ELSE NULL]
        /\ project_supervisors = project_managers
        /\ closeoutdetails = [k \in CloseoutId |->
             IF \E p \in Existing : co[p] = k
             THEN LET p == CHOOSE p \in Existing : co[p] = k IN
                  [details |-> rest,
                   salvageValue_id |-> IF p \in WithoutSalvage THEN NULL ELSE sv[p]]
             ELSE NULL]
        /\ salvagevalue = [s \in SalvageId |->
             IF \E p \in Existing \ WithoutSalvage : sv[p] = s
             THEN IF \E p \in Unpriced : sv[p] = s THEN Unset ELSE rest
             ELSE NULL]
  BY DEF Init
<1>2. /\ co \in [Existing -> CloseoutId]
      /\ sv \in [Existing \ WithoutSalvage -> SalvageId]
      /\ \A p, q \in Existing : co[p] = co[q] => p = q
  BY DEF Injection, IsInjective
<1>3. first \in Contents /\ rest \in Contents /\ first # NULL /\ rest # NULL /\ Unset # NULL
  BY <1>1, ValueAssumption DEF Contents
<1>4. TypeOK
  BY InitHolds DEF IInv
<1>5. ASSUME NEW p \in ProjectId \ Existing
      PROVE  \A part \in Part : Stored(p)[part] = NULL
  <2>1. /\ project[p] = NULL
        /\ project_managers[p] = NULL
        /\ project_supervisors[p] = NULL
        /\ CloseoutOf[p] = NULL
    BY <1>1 DEF CloseoutOf
  <2>2. SalvageOf(p) = NULL
    BY <2>1 DEF SalvageOf
  <2>. QED BY <2>1, <2>2 DEF Stored, Part
<1>6. ASSUME NEW p \in Existing
      PROVE  /\ \A part \in Part \ {"salvage"} : Stored(p)[part] # NULL
             /\ Stored(p)["salvage"] = NULL <=> p \in WithoutSalvage
  <2>. p \in ProjectId
    BY ExistingAssumption
  <2> DEFINE row == [required |-> first, optional |-> rest, closeoutDetails_id |-> co[p]]
             detail == [details |-> rest,
                        salvageValue_id |-> IF p \in WithoutSalvage THEN NULL ELSE sv[p]]
  <2>1. project[p] = row
    BY <1>1
  <2>2. co[p] \in CloseoutId /\ row \in ProjectRow /\ row # NULL
    BY <1>2, <1>3, RowAssumption DEF ProjectRow
  <2>3. /\ project[p] # NULL
        /\ project[p].required = first
        /\ project[p].optional = rest
        /\ CloseoutOf[p] = co[p]
        /\ co[p] # NULL
    BY <2>1, <2>2, ValueAssumption DEF CloseoutOf
  <2>4. (CHOOSE q \in Existing : co[q] = co[p]) = p
    BY <1>2
  <2>5. closeoutdetails[co[p]] = detail
    BY <1>1, <2>2, <2>4
  <2>6. p \notin WithoutSalvage => sv[p] \in SalvageId
    BY <1>2
  <2>7. detail \in CloseoutRow
    BY <1>3, <2>6 DEF CloseoutRow
  <2>8. closeoutdetails[co[p]] # NULL
    BY <2>5, <2>7, RowAssumption DEF CloseoutRow
  <2>9. /\ DetailsIn[co[p]] = rest
        /\ SalvageIn[co[p]] = IF p \in WithoutSalvage THEN NULL ELSE sv[p]
    BY <2>2, <2>5, <2>8 DEF DetailsIn, SalvageIn
  <2> HIDE DEF row, detail
  <2>10. SalvageOf(p) = IF p \in WithoutSalvage THEN NULL ELSE sv[p]
    BY <2>3, <2>9 DEF SalvageOf
  <2>11. p \notin WithoutSalvage => sv[p] # NULL /\ salvagevalue[sv[p]] # NULL
    BY <1>1, <1>3, <2>6, ValueAssumption
  <2>12. Stored(p)["salvage"] = NULL <=> p \in WithoutSalvage
    BY <2>10, <2>11 DEF Stored
  <2>13. project_managers[p] = first /\ project_supervisors[p] = first
    BY <1>1
  <2>14. \A part \in Part \ {"salvage"} : Stored(p)[part] # NULL
    BY <1>3, <2>3, <2>9, <2>13 DEF Stored, Part
  <2>. QED BY <2>12, <2>14
<1>7. \A p \in ProjectId :
        Registry!Filled(p) = IF p \in WithoutSalvage THEN Part \ {"salvage"}
                             ELSE IF p \in Existing THEN Part
                             ELSE {}
  BY <1>5, <1>6, ExistingAssumption DEF Registry!Filled, Registry!Part, Part
<1>8. Record \in [ProjectId -> [Part -> Contents \cup {NULL}]]
  BY <1>4, RecordType DEF RecordTyped
<1>. QED BY <1>7, <1>8 DEF Registry!Init, Registry!Part, Part, Record

(* Which parts of a project are there, in terms of the rows.               *)
LEMMA FilledParts ==
  ASSUME IInv, MadeInOrder, NEW p \in ProjectId
  PROVE  /\ project[p] = NULL => Registry!Filled(p) = {}
         /\ project[p] # NULL /\ project_managers[p] = NULL =>
              Registry!Filled(p) = {"required", "optional"}
         /\ project[p] # NULL /\ project_managers[p] # NULL /\ project_supervisors[p] = NULL =>
              Registry!Filled(p) = {"required", "optional", "manager"}
         /\ project[p] # NULL /\ project_supervisors[p] # NULL /\ CloseoutOf[p] = NULL =>
              Registry!Filled(p) = Part \ {"closeout", "salvage"}
         /\ project[p] # NULL /\ project_supervisors[p] # NULL /\ CloseoutOf[p] # NULL =>
              Registry!Filled(p) \in {Part, Part \ {"salvage"}}
<1>1. Registry!Filled(p) = {part \in Part : Stored(p)[part] # NULL}
  BY DEF Registry!Filled, Registry!Part, Part
<1>2. /\ Stored(p).manager = project_managers[p]
      /\ Stored(p).supervisor = project_supervisors[p]
      /\ project[p] = NULL => Stored(p).required = NULL /\ Stored(p).optional = NULL
  BY DEF Stored
<1>3. project[p] # NULL => Stored(p).required # NULL /\ Stored(p).optional # NULL
  BY ValueAssumption DEF Stored, IInv, TypeOK, ProjectRow
<1>4. CloseoutOf[p] = NULL => Stored(p).closeout = NULL /\ Stored(p).salvage = NULL
  BY DEF Stored, SalvageOf
<1>5. CloseoutOf[p] # NULL => Stored(p).closeout # NULL
  <2>. SUFFICES ASSUME CloseoutOf[p] # NULL
                PROVE  DetailsIn[CloseoutOf[p]] # NULL
    BY DEF Stored
  <2>. QED BY LinkType, ValueAssumption DEF IInv, TypeOK, LinksSound, DetailsIn, CloseoutRow
<1>6. /\ project[p] = NULL => project_managers[p] = NULL
      /\ project_managers[p] = NULL => project_supervisors[p] = NULL
      /\ project_supervisors[p] = NULL => CloseoutOf[p] = NULL
  BY DEF MadeInOrder
<1>. QED BY <1>1, <1>2, <1>3, <1>4, <1>5, <1>6 DEF Part

LEMMA PutsIsPut ==
  ASSUME IInv, NEW d \in Device, NEW p \in ProjectId, NEW parts \in SUBSET Part, Puts(d, p, parts)
  PROVE  Registry!Put(p, parts)
<1>1. \A part \in parts : Stored(p)'[part] \in Contents
  BY DEF Puts, IInv, TypeOK
<1>. QED BY <1>1 DEF Puts, Registry!Put, Registry!Part, Part

LEMMA GrowsIsFill ==
  ASSUME StepInv, NEW d \in Device, NEW p \in ProjectId, Grows(d, p)
  PROVE  \/ Registry!Begin(p) \/ Registry!AssignManager(p) \/ Registry!AssignSupervisor(p)
         \/ Registry!Finish(p)
<1>. IInv /\ MadeInOrder
  BY DEF StepInv
<1>1. CASE pc[d] = "insertProject"
  <2>1. project[p] = NULL /\ Puts(d, p, {"required", "optional"})
    BY <1>1 DEF Grows
  <2>2. Registry!Put(p, {"required", "optional"})
    BY <2>1, PutsIsPut DEF Part
  <2>. QED BY <2>1, <2>2, FilledParts DEF Registry!Begin, Registry!Fill
<1>2. CASE pc[d] # "insertProject"
  <2>1. pc[d] \in {"insertManager", "insertSupervisor", "linkCloseout"} /\ projectID[d] = p
    BY <1>2 DEF Grows
  <2>2. project[p] # NULL /\ CloseoutOf[p] = NULL
    BY <2>1 DEF IInv, OwnRows, OwnProjects, Creating, CreateStep
  <2>3. CASE pc[d] = "insertManager"
    <3>1. Registry!Put(p, {"manager"})
      BY <2>3, PutsIsPut DEF Grows, Part
    <3>2. project_managers[p] = NULL
      BY <2>1, <2>3 DEF MadeInOrder
    <3>. QED BY <2>2, <3>1, <3>2, FilledParts DEF Registry!AssignManager, Registry!Fill
  <2>4. CASE pc[d] = "insertSupervisor"
    <3>1. Registry!Put(p, {"supervisor"})
      BY <2>4, PutsIsPut DEF Grows, Part
    <3>2. project_managers[p] # NULL /\ project_supervisors[p] = NULL
      BY <2>1, <2>4 DEF MadeInOrder
    <3>. QED BY <2>2, <3>1, <3>2, FilledParts DEF Registry!AssignSupervisor, Registry!Fill
  <2>5. CASE pc[d] = "linkCloseout"
    <3>1. Registry!Put(p, {"closeout", "salvage"})
      BY <2>5, PutsIsPut DEF Grows, Part
    <3>2. project_supervisors[p] # NULL
      BY <2>1, <2>5 DEF MadeInOrder
    <3>. QED
      BY <2>2, <3>1, <3>2, FilledParts DEF Registry!Finish, Registry!Fill, Registry!Part, Part
  <2>. QED BY <2>1, <2>3, <2>4, <2>5
<1>. QED BY <1>1, <1>2

LEMMA ChangesIsChange ==
  ASSUME StepInv, NEW d \in Device, NEW p \in ProjectId, Changes(d, p)
  PROVE  Registry!AddSalvage(p) \/ \E parts \in Registry!Rows : Registry!Change(p, parts)
<1>. IInv /\ MadeInOrder
  BY DEF StepInv
<1>1. PICK parts \in RowParts : Puts(d, p, parts)
  BY DEF Changes
<1>2. parts \in SUBSET Part /\ parts \in Registry!Rows
  BY DEF RowParts, Part, Registry!Rows
<1>3. Registry!Put(p, parts)
  BY <1>1, <1>2, PutsIsPut
<1>4. Registry!Filled(p) \in {Part, Part \ {"salvage"}}
  <2>1. project[p] # NULL /\ project_supervisors[p] # NULL /\ CloseoutOf[p] # NULL
    BY LoadedIsMade, ValueAssumption DEF Changes, Loaded
  <2>. QED BY <2>1, FilledParts
<1>5. CASE parts \subseteq Registry!Filled(p)
  BY <1>2, <1>3, <1>4, <1>5 DEF Registry!Change, Registry!Part, Part
<1>6. CASE ~(parts \subseteq Registry!Filled(p))
  <2>1. Registry!Filled(p) = Part \ {"salvage"} /\ parts = {"salvage"}
    BY <1>4, <1>6 DEF RowParts, Part
  <2>. QED BY <1>3, <2>1 DEF Registry!AddSalvage, Registry!Fill, Registry!Part, Part
<1>. QED BY <1>5, <1>6

LEMMA RegistryNext ==
  StepInv /\ RecordTyped' /\ [Next]_vars => [Registry!Next]_([p \in ProjectId |-> Stored(p)])
<1>. SUFFICES ASSUME StepInv, RecordTyped', [Next]_vars,
                     [p \in ProjectId |-> Stored(p)]' # [p \in ProjectId |-> Stored(p)]
              PROVE  Registry!Next
  OBVIOUS
<1>1. ~AllKept
  BY DEF AllKept
<1>2. PICK d \in Device, p \in ProjectId : Grows(d, p) \/ Changes(d, p)
  BY <1>1, StepEffect
<1>3. Stored(p)' # Stored(p)
  BY <1>1, <1>2 DEF Grows, Changes, Puts, AllKept
<1>4. [q \in ProjectId |-> Stored(q)]' \in [ProjectId -> [Registry!Part -> Contents \cup {NULL}]]
  BY DEF RecordTyped, Record, Registry!Part, Part
<1>5. \/ Registry!Begin(p) \/ Registry!AssignManager(p) \/ Registry!AssignSupervisor(p)
      \/ Registry!Finish(p) \/ Registry!AddSalvage(p)
      \/ \E parts \in Registry!Rows : Registry!Change(p, parts)
  BY <1>2, GrowsIsFill, ChangesIsChange
<1>. QED BY <1>3, <1>4, <1>5 DEF Registry!Next

(* The five tables, written one row at a time by any number of devices     *)
(* that fail and die between two statements, implement a registry where    *)
(* each project owns its parts and fills them in one fixed order.          *)
THEOREM TablesImplementRegistry == Spec => RegistrySpec
<1>1. StepInv => RecordTyped
  BY RecordType DEF StepInv, IInv
<1>. QED
  BY <1>1, RegistryInit, RegistryNext, StepInvariance, PTL DEF Spec, RegistrySpec, Registry!Spec

-----------------------------------------------------------------------------
(* What the registry says of the tables.                                   *)

(* The parts of a project, from nothing to everything.                     *)
Beginnings ==
  { {}, {"required", "optional"}, {"required", "optional", "manager"},
    Part \ {"closeout", "salvage"}, Part \ {"salvage"}, Part }

(* What a creation leaves behind wherever it stops, and whatever else goes *)
(* on, is one of the beginnings of a complete project.                     *)
FilledInOrder == \A p \in ProjectId : Registry!Filled(p) \in Beginnings

(* No step of any device takes a part of a project away again: a save may  *)
(* overwrite what another one wrote, but nothing that was stored is ever   *)
(* replaced by nothing.                                                    *)
NothingIsLost ==
  [][\A p \in ProjectId : Registry!Filled(p) \subseteq Registry!Filled(p)']_vars

LEMMA FilledIsBeginning ==
  ASSUME StepInv, NEW p \in ProjectId
  PROVE  Registry!Filled(p) \in Beginnings
<1>1. /\ project[p] = NULL => project_managers[p] = NULL
      /\ project_managers[p] = NULL => project_supervisors[p] = NULL
  BY DEF StepInv, MadeInOrder
<1>. QED BY <1>1, FilledParts DEF StepInv, Beginnings, Part

(* A project is only ever left complete or at one of the five points where *)
(* the creation may stop.                                                  *)
THEOREM FilledByTheOrder == Spec => []FilledInOrder
<1>1. StepInv => FilledInOrder
  BY FilledIsBeginning DEF FilledInOrder
<1>. QED BY <1>1, StepInvariance, PTL

(* Parts that are put are there, the others stay as they are.              *)
LEMMA PutKeepsFilled ==
  ASSUME IInv, NEW d \in Device, NEW p \in ProjectId, NEW parts \in SUBSET Part,
         Puts(d, p, parts), NEW q \in ProjectId
  PROVE  Registry!Filled(q) \subseteq Registry!Filled(q)'
<1>1. \A part \in parts : Stored(p)'[part] # NULL
  BY ValueAssumption DEF Puts, IInv, TypeOK
<1>2. CASE q = p
  BY <1>1, <1>2 DEF Puts, Registry!Filled, Registry!Part, Part
<1>3. CASE q # p
  BY <1>3 DEF Puts, Registry!Filled, Registry!Part, Part
<1>. QED BY <1>2, <1>3

(* No interleaving of loads, saves, failures and crashes loses a part that *)
(* was stored.                                                             *)
THEOREM PartsStay == Spec => NothingIsLost
<1>1. StepInv /\ [Next]_vars =>
        \A p \in ProjectId : Registry!Filled(p) \subseteq Registry!Filled(p)'
  <2>. SUFFICES ASSUME StepInv, [Next]_vars, NEW q \in ProjectId
                PROVE  Registry!Filled(q) \subseteq Registry!Filled(q)'
    OBVIOUS
  <2>1. CASE AllKept
    BY <2>1 DEF AllKept, Registry!Filled
  <2>2. CASE ~AllKept
    <3>1. PICK d \in Device, p \in ProjectId : Grows(d, p) \/ Changes(d, p)
      BY <2>2, StepEffect
    <3>2. PICK parts \in SUBSET Part : Puts(d, p, parts)
      BY <3>1 DEF Grows, Changes, Writes, Part
    <3>. QED BY <3>2, PutKeepsFilled DEF StepInv
  <2>. QED BY <2>1, <2>2
<1>. QED BY <1>1, StepInvariance, PTL DEF NothingIsLost, Spec

(* A screen that shows a project, and a save that runs behind it, has all  *)
(* the rows of that project to work on.                                    *)
THEOREM UpdatesFindTheirRows == Spec => []SavesFindTheirRows
<1>1. StepInv => SavesFindTheirRows
  <2>. SUFFICES ASSUME StepInv, NEW d \in Device, pc[d] \in Loaded
                PROVE  Complete(projectID[d])
    BY DEF SavesFindTheirRows
  <2>. IInv /\ MadeInOrder
    BY DEF StepInv
  <2>1. PICK p \in ProjectId : p = projectID[d]
    BY LoadedIsMade
  <2>2. project[p] # NULL /\ project_supervisors[p] # NULL /\ CloseoutOf[p] # NULL
    BY <2>1, LoadedIsMade, ValueAssumption
  <2>3. Registry!Filled(p) \in {Part, Part \ {"salvage"}}
    BY <2>2, FilledParts
  <2>. QED BY <2>1, <2>3 DEF Complete, Registry!Filled, Registry!Part, Part
<1>. QED BY <1>1, StepInvariance, PTL

-----------------------------------------------------------------------------
(* A load or a save goes forward only.                                     *)

(* How many statements are left, the one about to be executed included; of *)
(* the two ways to save the salvage, each counts as it goes.               *)
StatementsLeft ==
  [insertProject |-> 6, insertManager |-> 5, insertSupervisor |-> 4,
   insertSalvage |-> 3, insertCloseout |-> 2, linkCloseout |-> 1,
   fetchRequired |-> 5, fetchManager |-> 4, fetchSupervisor |-> 3,
   fetchOptional |-> 2, fetchSalvage |-> 1,
   updateProject |-> 8, updateManager |-> 7, updateSupervisor |-> 6,
   insertNewSalvage |-> 5, selectLink |-> 4, linkSalvage |-> 3,
   selectSalvage |-> 4, updateSalvage |-> 3, selectCloseout |-> 2, updateCloseout |-> 1]

(* No step, of whichever device, takes a running load or save back: it     *)
(* ends, or it has fewer statements left.  Nothing retries, and a save of  *)
(* another device can neither restart nor prolong it, so that it ends      *)
(* after at most eight statements if only the device goes on.              *)
StatementsAdvance ==
  [][\A d \in Device :
       pc[d] \in Busy /\ pc'[d] # pc[d] =>
         \/ pc'[d] \in Screen
         \/ pc'[d] \in Busy /\ StatementsLeft[pc'[d]] < StatementsLeft[pc[d]]]_vars

(* What is left of a load or save decreases: the reason why StatementsEnd  *)
(* asks for fairness and for nothing else.                                 *)
THEOREM LoadsAndSavesAdvance == Spec => StatementsAdvance
<1> DEFINE Forward(d) ==
      pc[d] \in Busy /\ pc'[d] # pc[d] =>
        \/ pc'[d] \in Screen
        \/ pc'[d] \in Busy /\ StatementsLeft[pc'[d]] < StatementsLeft[pc[d]]
<1>1. IInv /\ [Next]_vars => \A d \in Device : Forward(d)
  <2>. SUFFICES ASSUME IInv, [Next]_vars, NEW d \in Device PROVE Forward(d)
    OBVIOUS
  <2>. pc \in [Device -> Busy \cup Screen]
    BY DEF IInv, TypeOK
  <2>1. CASE UNCHANGED vars
    BY <2>1 DEF vars
  <2>2. CASE Next
    <3>. PICK e \in Device : Step(e)
      BY <2>2 DEF Next, Step
    <3>1. CASE e # d
      BY <3>1, StepStaysOwn DEF OthersStay
    <3>2. CASE e = d /\ Create(d)
      BY <3>2 DEF Create, InsertProject, InsertManager, InsertSupervisor, InsertSalvage,
         InsertCloseout, LinkCloseout, Goto, Busy, CreateStep, Screen, StatementsLeft
    <3>3. CASE e = d /\ Fetch(d)
      BY <3>3 DEF Fetch, FetchRequired, FetchManager, FetchSupervisor, FetchOptional,
         FetchSalvage, FetchFindsNoRow, Goto, Busy, FetchStep, Screen, StatementsLeft
    <3>4. CASE e = d /\ Update(d)
      BY <3>4 DEF Update, UpdateProject, UpdateManager, UpdateSupervisor, SelectSalvage,
         UpdateSalvage, InsertNewSalvage, SelectLink, LinkSalvage, SelectCloseout, UpdateCloseout,
         Goto, Busy, UpdateStep, Screen, StatementsLeft
    <3>5. CASE e = d /\ User(d)
      BY <3>5 DEF User, OpenForm, FillForm, SaveForm, RefuseForm, OpenProject, EditProject,
         ChangeCells, SaveProject, Leave, Launch, Goto, Busy, CreateStep, FetchStep, UpdateStep
    <3>6. CASE e = d /\ Failure(d)
      BY <3>6 DEF Failure, StatementRaises, UpdateFails, Kill, Screen
    <3>. QED BY <3>1, <3>2, <3>3, <3>4, <3>5, <3>6 DEF Step
  <2>. QED BY <2>1, <2>2
<1>. QED BY <1>1, Invariance, PTL DEF StatementsAdvance, Spec

-----------------------------------------------------------------------------
(* The cells on screen and the tables.                                     *)

FromManager    == {"insertSupervisor", "insertSalvage", "insertCloseout", "linkCloseout",
                   "fetchSupervisor", "fetchOptional", "fetchSalvage",
                   "updateSupervisor", "selectSalvage", "updateSalvage", "insertNewSalvage",
                   "selectLink", "linkSalvage", "selectCloseout", "updateCloseout"}
FromSupervisor == FromManager \ {"insertSupervisor", "fetchSupervisor", "updateSupervisor"}
FromRequired   == FromManager \cup {"insertManager", "fetchManager", "updateManager"}
FromOptional   == FromRequired \ {"fetchManager", "fetchSupervisor", "fetchOptional"}

(* The parts that a load has read, or a save has written, when it has come *)
(* to a statement: all of them on the screen where it ended well.          *)
Done(step, how) ==
  { part \in Part :
      \/ step \in {"viewing", "form"} /\ how \in {"loaded", "success"}
      \/ part = "required"   /\ step \in FromRequired
      \/ part = "optional"   /\ step \in FromOptional
      \/ part = "manager"    /\ step \in FromManager
      \/ part = "supervisor" /\ step \in FromSupervisor
      \/ part = "closeout"   /\ step = "fetchSalvage"
      \/ part = "salvage"    /\ step \in {"selectCloseout", "updateCloseout"} }

Matches(d, p, part) ==
  cellArray[d][part] = IF part = "salvage" THEN ShownSalvage(p) ELSE Stored(p)[part]

AgreesOn(d, p) ==
  /\ \A part \in Done(pc[d], outcome[d]) : Matches(d, p, part)
  /\ pc[d] = "updateSalvage" => salvageID[d] = SalvageOf(p)

Agrees(d) ==
  /\ outcome[d] \in {"loaded", "success"} =>
       pc[d] \in {"viewing", "form"} /\ projectID[d] # NULL
  /\ ~touched[d] => \A p \in ProjectId : projectID[d] = p => AgreesOn(d, p)

ScreenInv == \A d \in Device : Agrees(d)

(* Another device is told of a write, and of nothing else.                 *)
OthersSee(d) ==
  \A e \in Device \ {d} : outcome'[e] = outcome[e] /\ (touched[e] => touched'[e])

LEMMA StepIsSeen ==
  ASSUME IInv, NEW d \in Device, Step(d)
  PROVE  OthersSee(d)
<1>1. CASE Create(d)
  BY <1>1 DEF IInv, TypeOK, OthersSee, Create, InsertProject, InsertManager, InsertSupervisor,
     InsertSalvage, InsertCloseout, LinkCloseout, WroteRow, Touch, Ends
<1>2. CASE Fetch(d)
  BY <1>2 DEF IInv, TypeOK, OthersSee, Fetch, FetchRequired, FetchManager, FetchSupervisor,
     FetchOptional, FetchSalvage, FetchFindsNoRow, OnlyCells, Forget, Ends
<1>3. CASE Update(d)
  BY <1>3 DEF IInv, TypeOK, OthersSee, Update, UpdateProject, UpdateManager, UpdateSupervisor,
     SelectSalvage, UpdateSalvage, InsertNewSalvage, SelectLink, LinkSalvage, SelectCloseout,
     UpdateCloseout, WroteRow, Touch, Ends
<1>4. CASE User(d)
  BY <1>4 DEF IInv, TypeOK, OthersSee, User, OpenForm, FillForm, SaveForm, RefuseForm, OpenProject,
     EditProject, ChangeCells, SaveProject, Leave, Launch, Forget, Ends
<1>5. CASE Failure(d)
  BY <1>5 DEF IInv, TypeOK, OthersSee, Failure, StatementRaises, UpdateFails, Kill, Forget, Ends
<1>. QED BY <1>1, <1>2, <1>3, <1>4, <1>5 DEF Step

(* A step that leaves every project as it is, relinks nothing either; one  *)
(* that does not tells the devices that have the project on screen.        *)
LEMMA WritesAreSeen ==
  ASSUME StepInv, NEW d \in Device, Step(d)
  PROVE  \/ AllKept /\ \A q \in ProjectId : SalvageOf(q)' = SalvageOf(q)
         \/ \E p \in ProjectId :
              /\ projectID'[d] = p
              /\ \A q \in ProjectId \ {p} :
                   Stored(q)' = Stored(q) /\ SalvageOf(q)' = SalvageOf(q)
              /\ project[p] = NULL \/ \A e \in Device \ {d} : projectID[e] = p => touched'[e]
<1>. IInv /\ MadeInOrder /\ RowsWait
  BY DEF StepInv
<1>1. CASE Fetch(d) \/ User(d) \/ Failure(d) \/ SelectSalvage(d) \/ SelectLink(d) \/ SelectCloseout(d)
  <2>1. UNCHANGED tables
    BY <1>1, WriteNothing, SelectsKeep
  <2>. QED BY <2>1, TablesKept DEF IInv, tables, SalvageOf, CloseoutOf, SalvageIn
<1>2. CASE InsertProject(d)
  <2>1. PICK p \in ProjectId : p = projectID'[d]
    BY <1>2 DEF IInv, TypeOK, InsertProject
  <2>2. /\ project[p] = NULL
        /\ \A q \in ProjectId \ {p} : project'[q] = project[q]
        /\ Puts(d, p, {"required", "optional"})
    BY <1>2, <2>1, InsertProjectPuts
  <2>3. UNCHANGED closeoutdetails
    BY <1>2 DEF InsertProject, otherThanProject
  <2>4. \A q \in ProjectId \ {p} : SalvageOf(q)' = SalvageOf(q)
    BY <2>2, <2>3 DEF SalvageOf, CloseoutOf, SalvageIn
  <2>. QED BY <2>1, <2>2, <2>4 DEF Puts
<1>3. CASE InsertSalvage(d) \/ InsertNewSalvage(d)
  BY <1>3, NewSalvageKept DEF InsertSalvage, InsertNewSalvage, otherThanSalvage, SalvageOf,
     CloseoutOf, SalvageIn
<1>4. CASE InsertCloseout(d)
  <2>1. PICK k \in CloseoutId :
          /\ closeoutdetails[k] = NULL
          /\ closeoutdetails' = [closeoutdetails EXCEPT ![k] =
               [details |-> cellArray[d].closeout, salvageValue_id |-> salvageID[d]]]
    BY <1>4 DEF InsertCloseout, FreshId
  <2>2. \A l \in CloseoutId \ {k} : SalvageIn'[l] = SalvageIn[l]
    BY <2>1 DEF IInv, TypeOK, SalvageIn
  <2>3. \A q \in ProjectId : CloseoutOf[q] # NULL => CloseoutOf[q] \in CloseoutId \ {k}
    BY <2>1, LinkType DEF IInv, LinksSound
  <2>. QED
    BY <1>4, <2>2, <2>3, NewCloseoutKept DEF InsertCloseout, otherThanCloseout, SalvageOf,
       CloseoutOf
<1>5. CASE \/ InsertManager(d) \/ InsertSupervisor(d) \/ LinkCloseout(d) \/ UpdateProject(d)
           \/ UpdateManager(d) \/ UpdateSupervisor(d) \/ UpdateSalvage(d) \/ LinkSalvage(d)
           \/ UpdateCloseout(d)
  <2>1. Creating(d) \/ pc[d] \in OnScreen
    BY <1>5 DEF InsertManager, InsertSupervisor, LinkCloseout, UpdateProject, UpdateManager,
       UpdateSupervisor, UpdateSalvage, LinkSalvage, UpdateCloseout, Goto, Creating, CreateStep,
       OnScreen, UpdateStep
  <2>2. PICK p \in ProjectId : p = projectID[d]
    BY <2>1, OwnProject
  <2>3. projectID'[d] = p /\ Touch(d)
    BY <1>5, <2>2 DEF InsertManager, InsertSupervisor, LinkCloseout, UpdateProject, UpdateManager,
       UpdateSupervisor, UpdateSalvage, LinkSalvage, UpdateCloseout, WroteRow, screen
  <2>4. \A e \in Device \ {d} : projectID[e] = p => touched'[e]
    BY <2>2, <2>3 DEF Touch
  <2>5. \A q \in ProjectId \ {p} : Stored(q)' = Stored(q)
    <3>1. CASE Create(d)
      BY <1>5, <2>2, <2>3, <3>1, CreateEffect DEF AllKept, Grows, Puts
    <3>2. CASE Update(d)
      BY <2>2, <2>3, <3>2, UpdateEffect DEF AllKept, Changes, Puts
    <3>. QED BY <1>5, <3>1, <3>2 DEF Create, Update
  <2>6. \A q \in ProjectId \ {p} : SalvageOf(q)' = SalvageOf(q)
    <3>1. CASE LinkCloseout(d)
      <4>1. \A q \in ProjectId \ {p} : project'[q] = project[q]
        BY <2>2, <3>1, LinkCloseoutPuts
      <4>2. UNCHANGED closeoutdetails
        BY <3>1 DEF LinkCloseout, otherThanProject
      <4>. QED BY <4>1, <4>2 DEF SalvageOf, CloseoutOf, SalvageIn
    <3>2. CASE UpdateProject(d)
      <4>1. \A q \in ProjectId \ {p} : project'[q] = project[q]
        BY <2>2, <3>2, UpdateProjectPuts
      <4>2. UNCHANGED closeoutdetails
        BY <3>2 DEF UpdateProject, otherThanProject
      <4>. QED BY <4>1, <4>2 DEF SalvageOf, CloseoutOf, SalvageIn
    <3>3. CASE LinkSalvage(d) \/ UpdateCloseout(d)
      <4> DEFINE k == closeoutID[d]
      <4>1. k = CloseoutOf[p] /\ k # NULL
        BY <2>2, <3>3, LoadedIsMade, ValueAssumption DEF LinkSalvage, UpdateCloseout, Goto, Loaded,
           UpdateStep, IInv, SelectedRows, SelectedCloseout
      <4>2. /\ UNCHANGED project
            /\ \A l \in CloseoutId \ {k} : closeoutdetails'[l] = closeoutdetails[l]
        BY <3>3 DEF IInv, TypeOK, LinkSalvage, UpdateCloseout, otherThanCloseout
      <4> HIDE DEF k
      <4>3. \A l \in CloseoutId \ {k} : SalvageIn'[l] = SalvageIn[l]
        BY <4>2 DEF SalvageIn
      <4>4. \A q \in ProjectId \ {p} : CloseoutOf[q] # NULL => CloseoutOf[q] \in CloseoutId \ {k}
        BY <4>1, LinkType DEF IInv, LinksSound
      <4>. QED BY <4>2, <4>3, <4>4 DEF SalvageOf, CloseoutOf
    <3>4. CASE \/ InsertManager(d) \/ InsertSupervisor(d) \/ UpdateManager(d) \/ UpdateSupervisor(d)
               \/ UpdateSalvage(d)
      BY <3>4 DEF InsertManager, InsertSupervisor, UpdateManager, UpdateSupervisor, UpdateSalvage,
         otherThanManagers, otherThanSupervisors, otherThanSalvage, SalvageOf, CloseoutOf, SalvageIn
    <3>. QED BY <1>5, <3>1, <3>2, <3>3, <3>4
  <2>. QED BY <2>3, <2>4, <2>5, <2>6
<1>. QED BY <1>1, <1>2, <1>3, <1>4, <1>5 DEF Step, Create, Update

(* A step of another device that is not seen leaves the project alone.     *)
LEMMA OthersAgree ==
  ASSUME StepInv, ScreenInv, NEW d \in Device, Step(d), NEW e \in Device \ {d}
  PROVE  Agrees(e)'
<1>. IInv
  BY DEF StepInv
<1>1. /\ pc'[e] = pc[e] /\ projectID'[e] = projectID[e] /\ salvageID'[e] = salvageID[e]
      /\ cellArray'[e] = cellArray[e] /\ outcome'[e] = outcome[e]
      /\ touched[e] => touched'[e]
  BY StepStaysOwn, StepIsSeen DEF OthersStay, CellsStay, OthersSee
<1>2. Agrees(e)
  BY DEF ScreenInv
<1>3. ASSUME ~touched'[e], NEW p \in ProjectId, projectID[e] = p
      PROVE  AgreesOn(e, p)'
  <2>1. AgreesOn(e, p)
    BY <1>1, <1>2, <1>3 DEF Agrees
  <2>2. CASE Stored(p)' = Stored(p) /\ SalvageOf(p)' = SalvageOf(p)
    <3>1. ShownSalvage(p)' = ShownSalvage(p)
      BY <2>2 DEF ShownSalvage
    <3>. QED BY <1>1, <2>1, <2>2, <3>1 DEF AgreesOn, Matches
  <2>3. CASE project[p] = NULL
    <3>1. ~Creating(e) /\ pc[e] \notin OnScreen
      BY <1>3, <2>3, OwnProject
    <3>2. Done(pc[e], outcome[e]) = {}
      <4>1. outcome[e] \notin {"loaded", "success"} \/ pc[e] \notin {"viewing", "form"}
        <5>. SUFFICES ASSUME outcome[e] \in {"loaded", "success"}, pc[e] \in {"viewing", "form"}
                      PROVE  FALSE
          OBVIOUS
        <5>1. cellArray[e]["required"] = Stored(p)["required"]
          BY <2>1 DEF AgreesOn, Done, Matches, Part
        <5>. QED BY <2>3, <5>1, CellType, ValueAssumption DEF Stored, IInv
      <4>. QED
        BY <3>1, <4>1 DEF Done, FromRequired, FromOptional, FromManager, FromSupervisor, Creating,
           CreateStep, OnScreen, FetchStep, UpdateStep
    <3>3. pc[e] # "updateSalvage"
      BY <3>1 DEF OnScreen, UpdateStep
    <3>. QED BY <1>1, <3>2, <3>3 DEF AgreesOn
  <2>. QED BY <1>3, <2>2, <2>3, WritesAreSeen DEF AllKept
<1>. QED BY <1>1, <1>2, <1>3 DEF Agrees

(* The parts a statement puts are shown, and so are those that were.       *)
LEMMA PutsShown ==
  ASSUME IInv, NEW d \in Device, NEW p \in ProjectId, NEW parts \in SUBSET Part,
         Puts(d, p, parts), cellArray'[d] = cellArray[d],
         NEW part \in Part, part \in parts \/ Matches(d, p, part)
  PROVE  Matches(d, p, part)'
<1>1. cellArray[d][part] # NULL
  BY ValueAssumption DEF IInv, TypeOK
<1>2. CASE part \in parts
  BY <1>1, <1>2 DEF Puts, Matches, ShownSalvage
<1>3. CASE part \notin parts
  BY <1>3 DEF Puts, Matches, ShownSalvage
<1>. QED BY <1>2, <1>3

LEMMA KeptShown ==
  ASSUME AllKept, NEW d \in Device, NEW p \in ProjectId, cellArray'[d] = cellArray[d],
         NEW part \in Part, Matches(d, p, part)
  PROVE  Matches(d, p, part)'
BY DEF AllKept, Matches, ShownSalvage

(* A statement that writes some parts, and then has done no more than it   *)
(* had before and these.                                                   *)
LEMMA WriterAgrees ==
  ASSUME IInv, ScreenInv, NEW d \in Device, NEW p \in ProjectId, NEW parts \in SUBSET Part,
         projectID[d] = p, projectID'[d] = p, cellArray'[d] = cellArray[d],
         touched'[d] = touched[d],
         Puts(d, p, parts) \/ (AllKept /\ parts = {}),
         Done(pc'[d], outcome'[d]) \subseteq parts \cup Done(pc[d], outcome[d]),
         pc'[d] # "updateSalvage",
         outcome'[d] \in {"loaded", "success"} => pc'[d] \in {"viewing", "form"}
  PROVE  Agrees(d)'
<1>1. ASSUME ~touched'[d], NEW part \in Done(pc'[d], outcome'[d])
      PROVE  Matches(d, p, part)'
  <2>1. part \in Part
    BY <1>1 DEF Done
  <2>2. part \in parts \/ Matches(d, p, part)
    BY <1>1 DEF ScreenInv, Agrees, AgreesOn
  <2>. QED BY <2>1, <2>2, PutsShown, KeptShown
<1>2. ~touched'[d] => AgreesOn(d, p)'
  BY <1>1 DEF AgreesOn
<1>. QED BY <1>2, ValueAssumption DEF Agrees

LEMMA TouchIsOfOthers ==
  ASSUME IInv, NEW d \in Device, Touch(d)
  PROVE  touched'[d] = touched[d]
BY DEF IInv, TypeOK, Touch

LEMMA CreateAgrees ==
  ASSUME StepInv, ScreenInv, NEW d \in Device, Create(d)
  PROVE  Agrees(d)'
<1>. IInv /\ RowsWait
  BY DEF StepInv
<1>1. pc[d] \in CreateStep => outcome[d] \notin {"loaded", "success"}
  BY DEF ScreenInv, Agrees, CreateStep
<1>2. CASE InsertProject(d)
  <2>1. PICK p \in ProjectId : p = projectID'[d]
    BY <1>2 DEF IInv, TypeOK, InsertProject
  <2>2. Puts(d, p, {"required", "optional"})
    BY <1>2, <2>1, InsertProjectPuts
  <2>3. /\ pc[d] = "insertProject"
        /\ pc'[d] = "insertManager"
        /\ cellArray'[d] = cellArray[d]
        /\ outcome'[d] = outcome[d]
    BY <1>2 DEF IInv, TypeOK, InsertProject, Goto
  <2>4. \A part \in Done(pc'[d], outcome'[d]) : part \in {"required", "optional"}
    BY <2>3 DEF Done, FromSupervisor, FromManager
  <2>5. \A part \in Done(pc'[d], outcome'[d]) : Matches(d, p, part)'
    <3>. SUFFICES ASSUME NEW part \in {"required", "optional"}
                  PROVE  Matches(d, p, part)'
      BY <2>4
    <3>. QED BY <2>2, <2>3, PutsShown DEF Part
  <2>. QED BY <1>1, <2>1, <2>3, <2>5 DEF Agrees, AgreesOn, CreateStep
<1>3. CASE InsertManager(d) \/ InsertSupervisor(d) \/ LinkCloseout(d)
  <2>1. Creating(d)
    BY <1>3 DEF InsertManager, InsertSupervisor, LinkCloseout, Goto, Creating, CreateStep
  <2>2. PICK p \in ProjectId : p = projectID[d]
    BY <2>1, OwnProject
  <2>3. projectID'[d] = p /\ cellArray'[d] = cellArray[d] /\ touched'[d] = touched[d]
    BY <1>3, <2>2, TouchIsOfOthers DEF InsertManager, InsertSupervisor, LinkCloseout, WroteRow,
       screen
  <2>4. CASE InsertManager(d)
    <3>1. Puts(d, p, {"manager"})
      BY <2>2, <2>4, ManagerPuts DEF InsertManager
    <3>2. pc[d] = "insertManager" /\ pc'[d] = "insertSupervisor" /\ outcome'[d] = outcome[d]
      BY <2>4 DEF IInv, TypeOK, InsertManager, Goto, WroteRow
    <3>3. Done(pc'[d], outcome'[d]) \subseteq {"manager"} \cup Done(pc[d], outcome[d])
      BY <3>2 DEF Done, FromRequired, FromOptional, FromManager, FromSupervisor
    <3>. QED
      BY <1>1, <2>2, <2>3, <3>1, <3>2, <3>3, WriterAgrees DEF Part, CreateStep
  <2>5. CASE InsertSupervisor(d)
    <3>1. Puts(d, p, {"supervisor"})
      BY <2>2, <2>5, SupervisorPuts DEF InsertSupervisor
    <3>2. pc[d] = "insertSupervisor" /\ pc'[d] = "insertSalvage" /\ outcome'[d] = outcome[d]
      BY <2>5 DEF IInv, TypeOK, InsertSupervisor, Goto, WroteRow
    <3>3. Done(pc'[d], outcome'[d]) \subseteq {"supervisor"} \cup Done(pc[d], outcome[d])
      BY <3>2 DEF Done, FromRequired, FromOptional, FromManager, FromSupervisor
    <3>. QED
      BY <1>1, <2>2, <2>3, <3>1, <3>2, <3>3, WriterAgrees DEF Part, CreateStep
  <2>6. CASE LinkCloseout(d)
    <3>1. Puts(d, p, {"closeout", "salvage"})
      BY <2>2, <2>6, LinkCloseoutPuts
    <3>2. pc[d] = "linkCloseout" /\ pc'[d] = "form"
      BY <2>6 DEF IInv, TypeOK, LinkCloseout, Goto
    <3>3. Done(pc'[d], outcome'[d]) \subseteq {"closeout", "salvage"} \cup Done(pc[d], outcome[d])
      BY <3>2 DEF Done, FromRequired, FromOptional, FromManager, FromSupervisor, Part
    <3>. QED
      BY <2>2, <2>3, <3>1, <3>2, <3>3, WriterAgrees DEF Part
  <2>. QED BY <1>3, <2>4, <2>5, <2>6
<1>4. CASE InsertSalvage(d) \/ InsertCloseout(d)
  <2>1. Creating(d)
    BY <1>4 DEF InsertSalvage, InsertCloseout, Goto, Creating, CreateStep
  <2>2. PICK p \in ProjectId : p = projectID[d]
    BY <2>1, OwnProject
  <2>3. /\ projectID'[d] = p /\ cellArray'[d] = cellArray[d] /\ touched'[d] = touched[d]
        /\ outcome'[d] = outcome[d]
        /\ pc[d] \in {"insertSalvage", "insertCloseout"}
        /\ pc'[d] \in {"insertCloseout", "linkCloseout"}
    BY <1>4, <2>2 DEF IInv, TypeOK, InsertSalvage, InsertCloseout, Goto, screen
  <2>4. Done(pc'[d], outcome'[d]) \subseteq {} \cup Done(pc[d], outcome[d])
    BY <2>3 DEF Done, FromRequired, FromOptional, FromManager, FromSupervisor
  <2>5. AllKept
    BY <1>4, NewSalvageKept, NewCloseoutKept
  <2>6. outcome'[d] \notin {"loaded", "success"} /\ pc'[d] # "updateSalvage"
    BY <1>1, <2>3 DEF CreateStep
  <2>7. {} \in SUBSET Part
    OBVIOUS
  <2>. QED BY <2>2, <2>3, <2>4, <2>5, <2>6, <2>7, WriterAgrees
<1>. QED BY <1>2, <1>3, <1>4 DEF Create

LEMMA UpdateAgrees ==
  ASSUME StepInv, ScreenInv, NEW d \in Device, Update(d)
  PROVE  Agrees(d)'
<1>. IInv /\ MadeInOrder /\ RowsWait
  BY DEF StepInv
<1>1. pc[d] \in UpdateStep
  BY DEF Update, UpdateProject, UpdateManager, UpdateSupervisor, SelectSalvage, UpdateSalvage,
     InsertNewSalvage, SelectLink, LinkSalvage, SelectCloseout, UpdateCloseout, Goto, UpdateStep
<1>2. PICK p \in ProjectId : p = projectID[d]
  BY <1>1, LoadedIsMade DEF Loaded
<1>3. projectID'[d] = p /\ cellArray'[d] = cellArray[d] /\ touched'[d] = touched[d]
  BY <1>2, TouchIsOfOthers DEF Update, UpdateProject, UpdateManager, UpdateSupervisor,
     SelectSalvage, UpdateSalvage, InsertNewSalvage, SelectLink, LinkSalvage, SelectCloseout,
     UpdateCloseout, WroteRow, screen
<1>4. outcome[d] \notin {"loaded", "success"}
  BY <1>1 DEF ScreenInv, Agrees, UpdateStep
<1>5. CASE UpdateProject(d)
  <2>1. Puts(d, p, {"required", "optional"})
    BY <1>2, <1>5, UpdateProjectPuts
  <2>2. pc'[d] = "updateManager" /\ outcome'[d] = outcome[d]
    BY <1>5 DEF IInv, TypeOK, UpdateProject, Goto, WroteRow
  <2>3. Done(pc'[d], outcome'[d]) \subseteq {"required", "optional"} \cup Done(pc[d], outcome[d])
    BY <2>2 DEF Done, FromRequired, FromOptional, FromManager, FromSupervisor
  <2>. QED BY <1>2, <1>3, <1>4, <2>1, <2>2, <2>3, WriterAgrees DEF Part
<1>6. CASE UpdateManager(d)
  <2>1. Puts(d, p, {"manager"})
    BY <1>2, <1>6, UpdatePeople
  <2>2. /\ pc[d] = "updateManager" /\ pc'[d] = "updateSupervisor"
        /\ outcome'[d] = outcome[d]
    BY <1>6 DEF IInv, TypeOK, UpdateManager, Goto, WroteRow
  <2>3. Done(pc'[d], outcome'[d]) \subseteq {"manager"} \cup Done(pc[d], outcome[d])
    BY <2>2 DEF Done, FromRequired, FromOptional, FromManager, FromSupervisor
  <2>. QED BY <1>2, <1>3, <1>4, <2>1, <2>2, <2>3, WriterAgrees DEF Part
<1>7. CASE UpdateSupervisor(d)
  <2>1. Puts(d, p, {"supervisor"})
    BY <1>2, <1>7, UpdatePeople
  <2>2. /\ pc[d] = "updateSupervisor" /\ pc'[d] \in {"selectSalvage", "insertNewSalvage"}
        /\ outcome'[d] = outcome[d]
    BY <1>7 DEF IInv, TypeOK, UpdateSupervisor, WroteRow
  <2>3. Done(pc'[d], outcome'[d]) \subseteq {"supervisor"} \cup Done(pc[d], outcome[d])
    BY <2>2 DEF Done, FromRequired, FromOptional, FromManager, FromSupervisor
  <2>. QED BY <1>2, <1>3, <1>4, <2>1, <2>2, <2>3, WriterAgrees DEF Part
<1>8. CASE SelectSalvage(d)
  <2>1. /\ pc[d] = "selectSalvage" /\ pc'[d] = "updateSalvage"
        /\ outcome'[d] = outcome[d]
        /\ salvageID'[d] = SalvageOf(p)
        /\ UNCHANGED tables
    BY <1>2, <1>8 DEF IInv, TypeOK, SelectSalvage, Goto
  <2>2. SalvageOf(p)' = SalvageOf(p)
    BY <2>1 DEF tables, SalvageOf, CloseoutOf, SalvageIn
  <2>3. Done(pc'[d], outcome'[d]) \subseteq Done(pc[d], outcome[d])
    BY <2>1 DEF Done, FromRequired, FromOptional, FromManager, FromSupervisor
  <2>4. ASSUME ~touched'[d], NEW part \in Done(pc'[d], outcome'[d])
        PROVE  Matches(d, p, part)'
    <3>1. part \in Part
      BY DEF Done
    <3>2. Matches(d, p, part)
      BY <1>2, <1>3, <2>3, <2>4 DEF ScreenInv, Agrees, AgreesOn
    <3>. QED BY <1>3, <2>1, <3>1, <3>2, TablesKept, KeptShown DEF IInv
  <2>. QED BY <1>3, <1>4, <2>1, <2>2, <2>4 DEF Agrees, AgreesOn
<1>9. CASE UpdateSalvage(d)
  <2>1. /\ pc[d] = "updateSalvage" /\ pc'[d] = "selectCloseout"
        /\ outcome'[d] = outcome[d]
    BY <1>9 DEF IInv, TypeOK, UpdateSalvage, Goto, WroteRow
  <2>2. CASE touched[d]
    BY <1>3, <1>4, <2>1, <2>2 DEF Agrees
  <2>3. CASE ~touched[d]
    <3>1. salvageID[d] = SalvageOf(p)
      BY <1>2, <2>1, <2>3 DEF ScreenInv, Agrees, AgreesOn
    <3>2. Puts(d, p, {"salvage"})
      BY <1>2, <1>9, <3>1, UpdateSalvagePuts
    <3>3. Done(pc'[d], outcome'[d]) \subseteq {"salvage"} \cup Done(pc[d], outcome[d])
      BY <2>1 DEF Done, FromRequired, FromOptional, FromManager, FromSupervisor
    <3>. QED BY <1>2, <1>3, <1>4, <2>1, <3>2, <3>3, WriterAgrees DEF Part
  <2>. QED BY <2>2, <2>3
<1>10. CASE LinkSalvage(d)
  <2>1. Puts(d, p, {"salvage"})
    BY <1>2, <1>10, LinkSalvagePuts
  <2>2. /\ pc[d] = "linkSalvage" /\ pc'[d] = "selectCloseout"
        /\ outcome'[d] = outcome[d]
    BY <1>10 DEF IInv, TypeOK, LinkSalvage, Goto, WroteRow
  <2>3. Done(pc'[d], outcome'[d]) \subseteq {"salvage"} \cup Done(pc[d], outcome[d])
    BY <2>2 DEF Done, FromRequired, FromOptional, FromManager, FromSupervisor
  <2>. QED BY <1>2, <1>3, <1>4, <2>1, <2>2, <2>3, WriterAgrees DEF Part
<1>11. CASE UpdateCloseout(d)
  <2>1. Puts(d, p, {"closeout"})
    BY <1>2, <1>11, UpdateCloseoutPuts
  <2>2. pc[d] = "updateCloseout" /\ pc'[d] = "viewing"
    BY <1>11 DEF IInv, TypeOK, UpdateCloseout, Goto
  <2>3. Done(pc'[d], outcome'[d]) \subseteq {"closeout"} \cup Done(pc[d], outcome[d])
    BY <2>2 DEF Done, FromRequired, FromOptional, FromManager, FromSupervisor, Part
  <2>. QED BY <1>2, <1>3, <2>1, <2>2, <2>3, WriterAgrees DEF Part
<1>12. CASE InsertNewSalvage(d) \/ SelectLink(d) \/ SelectCloseout(d)
  <2>1. AllKept
    BY <1>12, NewSalvageKept, SelectsKeep, TablesKept DEF IInv
  <2>2. /\ outcome'[d] = outcome[d]
        /\ \/ pc[d] = "insertNewSalvage" /\ pc'[d] = "selectLink"
           \/ pc[d] = "selectLink" /\ pc'[d] = "linkSalvage"
           \/ pc[d] = "selectCloseout" /\ pc'[d] = "updateCloseout"
    BY <1>12 DEF IInv, TypeOK, InsertNewSalvage, SelectLink, SelectCloseout, Goto
  <2>3. Done(pc'[d], outcome'[d]) \subseteq {} \cup Done(pc[d], outcome[d])
    BY <2>2 DEF Done, FromRequired, FromOptional, FromManager, FromSupervisor
  <2>4. outcome'[d] \notin {"loaded", "success"} /\ pc'[d] # "updateSalvage"
    BY <1>4, <2>2
  <2>5. {} \in SUBSET Part
    OBVIOUS
  <2>. QED BY <1>2, <1>3, <2>1, <2>3, <2>4, <2>5, WriterAgrees
<1>. QED
  BY <1>5, <1>6, <1>7, <1>8, <1>9, <1>10, <1>11, <1>12 DEF Update

(* A query shows the parts it has read beside those read before.           *)
LEMMA ReaderAgrees ==
  ASSUME IInv, ScreenInv, NEW d \in Device, NEW p \in ProjectId, NEW parts,
         AllKept, projectID[d] = p, projectID'[d] = p, touched'[d] = touched[d],
         \A part \in Part \cap parts : Matches(d, p, part)',
         \A part \in Part \ parts : cellArray'[d][part] = cellArray[d][part],
         Done(pc'[d], outcome'[d]) \subseteq parts \cup Done(pc[d], outcome[d]),
         pc'[d] # "updateSalvage",
         outcome'[d] \in {"loaded", "success"} => pc'[d] \in {"viewing", "form"}
  PROVE  Agrees(d)'
<1>1. ASSUME ~touched'[d], NEW part \in Done(pc'[d], outcome'[d])
      PROVE  Matches(d, p, part)'
  <2>1. part \in Part
    BY DEF Done
  <2>2. CASE part \in parts
    BY <2>1, <2>2
  <2>3. CASE part \notin parts
    <3>1. Matches(d, p, part)
      BY <1>1, <2>3 DEF ScreenInv, Agrees, AgreesOn
    <3>2. cellArray'[d][part] = cellArray[d][part]
      BY <2>1, <2>3
    <3>. QED BY <3>1, <3>2 DEF AllKept, Matches, ShownSalvage
  <2>. QED BY <2>2, <2>3
<1>2. ~touched'[d] => AgreesOn(d, p)'
  BY <1>1 DEF AgreesOn
<1>. QED BY <1>2, ValueAssumption DEF Agrees

LEMMA FetchAgrees ==
  ASSUME StepInv, ScreenInv, NEW d \in Device, Fetch(d)
  PROVE  Agrees(d)'
<1>. IInv /\ MadeInOrder /\ RowsWait
  BY DEF StepInv
<1>1. AllKept
  BY WriteNothing, TablesKept DEF IInv
<1>2. CASE FetchFindsNoRow(d)
  <2>1. projectID'[d] = NULL /\ outcome'[d] = "raised"
    BY <1>2 DEF IInv, TypeOK, FetchFindsNoRow, Forget, Ends
  <2>. QED BY <2>1, ValueAssumption DEF Agrees
<1>3. CASE ~FetchFindsNoRow(d)
  <2>1. pc[d] \in FetchStep
    BY <1>3 DEF Fetch, FetchRequired, FetchManager, FetchSupervisor, FetchOptional, FetchSalvage,
       Goto, FetchStep
  <2>2. PICK p \in ProjectId : p = projectID[d]
    BY <2>1, OwnProject DEF OnScreen
  <2>3. projectID'[d] = p /\ touched'[d] = touched[d]
    BY <1>3, <2>2 DEF Fetch, FetchRequired, FetchManager, FetchSupervisor, FetchOptional,
       FetchSalvage, OnlyCells
  <2>4. outcome[d] \notin {"loaded", "success"}
    BY <2>1 DEF ScreenInv, Agrees, FetchStep
  <2>5. Stored(p)' = Stored(p) /\ ShownSalvage(p)' = ShownSalvage(p)
    BY <1>1 DEF AllKept, ShownSalvage
  <2>6. CASE FetchRequired(d)
    <3>1. /\ pc'[d] = "fetchManager" /\ outcome'[d] = outcome[d]
          /\ cellArray'[d] = [cellArray[d] EXCEPT !.required = Stored(p).required]
      BY <2>2, <2>6 DEF IInv, TypeOK, FetchRequired, Goto, OnlyCells
    <3>2. /\ cellArray'[d]["required"] = Stored(p)["required"]
          /\ \A part \in Part \ {"required"} : cellArray'[d][part] = cellArray[d][part]
      BY <3>1 DEF IInv, TypeOK, Part
    <3>3. Done(pc'[d], outcome'[d]) \subseteq {"required"} \cup Done(pc[d], outcome[d])
      BY <2>4, <3>1 DEF Done, FromRequired, FromOptional, FromManager, FromSupervisor
    <3>4. \A part \in Part \cap {"required"} : Matches(d, p, part)'
      BY <2>5, <3>2 DEF Matches
    <3>5. outcome'[d] \notin {"loaded", "success"} /\ pc'[d] # "updateSalvage"
      BY <2>4, <3>1
    <3>. QED BY <1>1, <2>2, <2>3, <3>2, <3>3, <3>4, <3>5, ReaderAgrees
  <2>7. CASE FetchManager(d)
    <3>1. /\ pc[d] = "fetchManager" /\ pc'[d] = "fetchSupervisor" /\ outcome'[d] = outcome[d]
          /\ cellArray'[d] = [cellArray[d] EXCEPT !.manager = Stored(p).manager]
      BY <2>2, <2>7 DEF IInv, TypeOK, FetchManager, Goto, OnlyCells
    <3>2. /\ cellArray'[d]["manager"] = Stored(p)["manager"]
          /\ \A part \in Part \ {"manager"} : cellArray'[d][part] = cellArray[d][part]
      BY <3>1 DEF IInv, TypeOK, Part
    <3>3. Done(pc'[d], outcome'[d]) \subseteq {"manager"} \cup Done(pc[d], outcome[d])
      BY <2>4, <3>1 DEF Done, FromRequired, FromOptional, FromManager, FromSupervisor
    <3>4. \A part \in Part \cap {"manager"} : Matches(d, p, part)'
      BY <2>5, <3>2 DEF Matches
    <3>5. outcome'[d] \notin {"loaded", "success"} /\ pc'[d] # "updateSalvage"
      BY <2>4, <3>1
    <3>. QED BY <1>1, <2>2, <2>3, <3>2, <3>3, <3>4, <3>5, ReaderAgrees
  <2>8. CASE FetchSupervisor(d)
    <3>1. /\ pc[d] = "fetchSupervisor" /\ pc'[d] = "fetchOptional" /\ outcome'[d] = outcome[d]
          /\ cellArray'[d] = [cellArray[d] EXCEPT !.supervisor = Stored(p).supervisor]
      BY <2>2, <2>8 DEF IInv, TypeOK, FetchSupervisor, Goto, OnlyCells
    <3>2. /\ cellArray'[d]["supervisor"] = Stored(p)["supervisor"]
          /\ \A part \in Part \ {"supervisor"} : cellArray'[d][part] = cellArray[d][part]
      BY <3>1 DEF IInv, TypeOK, Part
    <3>3. Done(pc'[d], outcome'[d]) \subseteq {"supervisor"} \cup Done(pc[d], outcome[d])
      BY <2>4, <3>1 DEF Done, FromRequired, FromOptional, FromManager, FromSupervisor
    <3>4. \A part \in Part \cap {"supervisor"} : Matches(d, p, part)'
      BY <2>5, <3>2 DEF Matches
    <3>5. outcome'[d] \notin {"loaded", "success"} /\ pc'[d] # "updateSalvage"
      BY <2>4, <3>1
    <3>. QED BY <1>1, <2>2, <2>3, <3>2, <3>3, <3>4, <3>5, ReaderAgrees
  <2>9. CASE FetchOptional(d)
    <3>1. /\ pc[d] = "fetchOptional" /\ pc'[d] = "fetchSalvage" /\ outcome'[d] = outcome[d]
          /\ cellArray'[d] = [cellArray[d] EXCEPT !.optional = Stored(p).optional,
                                                  !.closeout = Stored(p).closeout]
      BY <2>2, <2>9 DEF IInv, TypeOK, FetchOptional, Goto, OnlyCells
    <3>2. /\ cellArray'[d]["optional"] = Stored(p)["optional"]
          /\ cellArray'[d]["closeout"] = Stored(p)["closeout"]
          /\ \A part \in Part \ {"optional", "closeout"} : cellArray'[d][part] = cellArray[d][part]
      <4>1. cellArray[d] \in [Part -> Contents]
        BY DEF IInv, TypeOK
      <4>. QED BY <3>1, <4>1 DEF Part
    <3>3. Done(pc'[d], outcome'[d]) \subseteq {"optional", "closeout"} \cup Done(pc[d], outcome[d])
      BY <2>4, <3>1 DEF Done, FromRequired, FromOptional, FromManager, FromSupervisor
    <3>4. \A part \in Part \cap {"optional", "closeout"} : Matches(d, p, part)'
      BY <2>5, <3>2 DEF Matches
    <3>5. outcome'[d] \notin {"loaded", "success"} /\ pc'[d] # "updateSalvage"
      BY <2>4, <3>1
    <3>. QED BY <1>1, <2>2, <2>3, <3>2, <3>3, <3>4, <3>5, ReaderAgrees
  <2>10. CASE FetchSalvage(d)
    <3>1. /\ pc[d] = "fetchSalvage" /\ pc'[d] = "viewing" /\ outcome'[d] = "loaded"
          /\ cellArray'[d] = [cellArray[d] EXCEPT !.salvage = ShownSalvage(p)]
      BY <2>2, <2>10 DEF IInv, TypeOK, FetchSalvage, Goto, Ends
    <3>2. /\ cellArray'[d]["salvage"] = ShownSalvage(p)
          /\ \A part \in Part \ {"salvage"} : cellArray'[d][part] = cellArray[d][part]
      BY <3>1 DEF IInv, TypeOK, Part
    <3>3. Done(pc'[d], outcome'[d]) \subseteq {"salvage"} \cup Done(pc[d], outcome[d])
      BY <3>1 DEF Done, FromRequired, FromOptional, FromManager, FromSupervisor, Part
    <3>4. \A part \in Part \cap {"salvage"} : Matches(d, p, part)'
      BY <2>5, <3>2 DEF Matches
    <3>5. pc'[d] \in {"viewing", "form"} /\ pc'[d] # "updateSalvage"
      BY <3>1
    <3>. QED BY <1>1, <2>2, <2>3, <3>2, <3>3, <3>4, <3>5, ReaderAgrees
  <2>. QED BY <1>3, <2>6, <2>7, <2>8, <2>9, <2>10 DEF Fetch
<1>. QED BY <1>2, <1>3

(* The user and the failures take the device where nothing is claimed of   *)
(* its cells.                                                              *)
LEMMA RestAgrees ==
  ASSUME StepInv, ScreenInv, NEW d \in Device, User(d) \/ Failure(d)
  PROVE  Agrees(d)'
<1>. IInv
  BY DEF StepInv
<1>1. /\ outcome'[d] \notin {"loaded", "success"}
      /\ pc'[d] \in {"menu", "form", "insertProject", "fetchRequired", "viewing", "editing",
                     "updateProject", "down"}
  <2>1. CASE User(d)
    <3>1. pc[d] \in {"editing"} => outcome[d] \notin {"loaded", "success"}
      BY DEF ScreenInv, Agrees
    <3>. QED
      BY <2>1, <3>1 DEF IInv, TypeOK, User, OpenForm, FillForm, SaveForm, RefuseForm, OpenProject,
         EditProject, ChangeCells, SaveProject, Leave, Launch, Goto, Ends
  <2>2. CASE Failure(d)
    BY <2>2 DEF IInv, TypeOK, Failure, StatementRaises, UpdateFails, Kill, Ends
  <2>. QED BY <2>1, <2>2
<1>2. Done(pc'[d], outcome'[d]) = {}
  BY <1>1 DEF Done, FromRequired, FromOptional, FromManager, FromSupervisor
<1>. QED BY <1>1, <1>2 DEF Agrees, AgreesOn

LEMMA ScreenNext == StepInv /\ ScreenInv /\ [Next]_vars => ScreenInv'
<1>. SUFFICES ASSUME StepInv, ScreenInv, [Next]_vars PROVE ScreenInv'
  OBVIOUS
<1>1. CASE Next
  <2>. PICK d \in Device : Step(d)
    BY <1>1 DEF Next, Step
  <2>1. Agrees(d)'
    BY CreateAgrees, UpdateAgrees, FetchAgrees, RestAgrees DEF Step
  <2>. QED BY <2>1, OthersAgree DEF ScreenInv
<1>2. CASE UNCHANGED vars
  <2>. SUFFICES ASSUME NEW d \in Device PROVE Agrees(d)'
    BY DEF ScreenInv
  <2>1. Agrees(d)
    BY DEF ScreenInv
  <2>2. /\ UNCHANGED tables
        /\ UNCHANGED <<pc, projectID, cellArray, salvageID, outcome, touched>>
    BY <1>2 DEF vars, screen, scratch
  <2>3. CloseoutOf' = CloseoutOf /\ SalvageIn' = SalvageIn /\ DetailsIn' = DetailsIn
    BY <2>2 DEF tables, CloseoutOf, SalvageIn, DetailsIn
  <2>4. \A p : SalvageOf(p)' = SalvageOf(p)
    BY <2>3 DEF SalvageOf
  <2>5. \A p : Stored(p)' = Stored(p)
    BY <2>2, <2>3, <2>4 DEF tables, Stored
  <2>6. \A p : ShownSalvage(p)' = ShownSalvage(p)
    BY <2>2, <2>4, <2>5 DEF tables, ShownSalvage
  <2>7. \A p, part : Matches(d, p, part)' <=> Matches(d, p, part)
    BY <2>2, <2>5, <2>6 DEF Matches
  <2>8. \A p : AgreesOn(d, p)' <=> AgreesOn(d, p)
    BY <2>2, <2>4, <2>7 DEF AgreesOn
  <2>. QED BY <2>1, <2>2, <2>8 DEF Agrees
<1>. QED BY <1>1, <1>2

(* A load that ended and a save reported as "Success!" leave on screen     *)
(* exactly what the tables hold, unless another device wrote the project   *)
(* meanwhile: no statement of addNewProject, fetchProjectInformationForID  *)
(* or updateProjectWithID is missing, and none works on another row.       *)
THEOREM ScreenShowsTables == Spec => []ScreenIsStored
<1>1. Init => ScreenInv
  BY DEF Init, ScreenInv, Agrees, AgreesOn, Done, FromRequired, FromOptional, FromManager,
     FromSupervisor
<1>2. StepInv /\ ScreenInv => ScreenIsStored
  <2>. SUFFICES ASSUME StepInv, ScreenInv, NEW d \in Device,
                       outcome[d] \in {"loaded", "success"}, ~touched[d], NEW part \in Part
                PROVE  cellArray[d][part] = IF part = "salvage" THEN ShownSalvage(projectID[d])
                                            ELSE Stored(projectID[d])[part]
    BY DEF ScreenIsStored
  <2>1. pc[d] \in {"viewing", "form"} /\ projectID[d] \in ProjectId
    BY DEF ScreenInv, Agrees, StepInv, IInv, TypeOK
  <2>2. part \in Done(pc[d], outcome[d])
    BY <2>1 DEF Done
  <2>. QED BY <2>1, <2>2 DEF ScreenInv, Agrees, AgreesOn, Matches
<1>. QED BY <1>1, <1>2, ScreenNext, StepInvariance, PTL DEF Spec

-----------------------------------------------------------------------------
(* What the reports and the triggers see of a step.                        *)

(* A step of the registry changes one project, by one of the operations.   *)
LEMMA ProjectsReadApart ==
  ASSUME NEW p \in ProjectId, NEW parts, Registry!Put(p, parts)
  PROVE  /\ \A part \in parts : Stored(p)'[part] \in Contents
         /\ \A part \in Part \ parts : Stored(p)'[part] = Stored(p)[part]
         /\ \A q \in ProjectId \ {p} : Stored(q)' = Stored(q)
BY DEF Registry!Put, Registry!Part, Part

(* A part is filled when it is not NULL.                                   *)
LEMMA FilledMeans ==
  ASSUME NEW p \in ProjectId
  PROVE  Registry!Filled(p) = {part \in Part : Stored(p)[part] # NULL}
BY DEF Registry!Filled, Registry!Part, Part

(* Their tables have a row for each project, so a project that alone has   *)
(* changed changes one row.                                                *)
LEMMA ReportRows ==
  /\ ReportTable = [p \in ProjectId |-> SeenByReports(Stored(p))]
  /\ ReportTable' = [p \in ProjectId |-> SeenByReports(Stored(p)')]
BY DEF ReportTable, SeenByReports
LEMMA TriggerRowsSeen ==
  /\ TriggerTable = [p \in ProjectId |-> SeenByTriggers(Stored(p))]
  /\ TriggerTable' = [p \in ProjectId |-> SeenByTriggers(Stored(p)')]
BY DEF TriggerTable, SeenByTriggers

LEMMA OneRowChanges ==
  ASSUME NEW p \in ProjectId, \A q \in ProjectId \ {p} : Stored(q)' = Stored(q)
  PROVE  /\ ReportTable' = [ReportTable EXCEPT ![p] = SeenByReports(Stored(p)')]
         /\ TriggerTable' = [TriggerTable EXCEPT ![p] = SeenByTriggers(Stored(p)')]
BY ReportRows, TriggerRowsSeen

(* Whether a project is there, for the tables and for the reports.         *)
LEMMA ThereForReports ==
  ASSUME TypeOK, NEW p \in ProjectId
  PROVE  /\ project[p] = NULL <=> Stored(p).required = NULL
         /\ project[p] = NULL <=> ReportTable[p].stage = "none"
<1>1. project[p] = NULL <=> Stored(p).required = NULL
  BY ValueAssumption DEF TypeOK, Stored, ProjectRow
<1>2. Stored(p).required \in Contents \cup {NULL}
  BY StoredType DEF Stored
<1>3. Stored(p).required # NULL => StageOf[Stored(p).required] # "none"
  BY <1>2, ReadersAssumption
<1>. QED BY <1>1, <1>3, ReportRows DEF SeenByReports

(* A project that begins has a row of its own, and no other rows.          *)
LEMMA BeginIsSeen ==
  ASSUME TypeOK, TypeOK', NEW p \in ProjectId, Registry!Begin(p), NumbersAscend
  PROVE  OthersOfReports
<1>1. Registry!Filled(p) = {} /\ Registry!Put(p, {"required", "optional"})
  BY DEF Registry!Begin, Registry!Fill
<1>2. \A part \in Part : Stored(p)[part] = NULL
  BY <1>1, FilledMeans
<1>3. /\ Stored(p)'.required \in Contents
      /\ \A part \in JoinedRows : Stored(p)'[part] = NULL
  BY <1>1, <1>2, ProjectsReadApart DEF JoinedRows, Part
<1>4. PICK s \in Stages, m \in BOOLEAN :
        SeenByReports(Stored(p)') = [stage |-> s, meets |-> m, has |-> {}]
  BY <1>3, ReadersAssumption, ValueAssumption DEF SeenByReports
<1>5. ReportTable' = [ReportTable EXCEPT ![p] = [stage |-> s, meets |-> m, has |-> {}]]
  BY <1>1, <1>4, ProjectsReadApart, OneRowChanges
<1>6. project[p] = NULL /\ project'[p] # NULL
  <2>1. Stored(p)'.required # NULL
    BY <1>3, ValueAssumption
  <2>2. project'[p] = NULL => Stored(p)'.required = NULL
    BY DEF Stored
  <2>. QED BY <1>2, <2>1, <2>2, ThereForReports DEF Part
<1>7. \A q \in Report!Ids : q < p => ReportTable[q].stage # "none"
  BY <1>6, ThereForReports, ReadersAssumption DEF NumbersAscend, Report!Ids
<1>8. ReportTable[p].stage = "none"
  BY <1>6, ThereForReports
<1>9. Report!CreateProject(p, s, m)
  BY <1>5, <1>7, <1>8 DEF Report!CreateProject, Report!world, Report!criteria, Report!queried
<1>. QED BY <1>9 DEF OthersOfReports

(* A row that joins the others of its project is the next one, and no      *)
(* column of the project row changes.                                      *)
LEMMA PartIsSeen ==
  ASSUME TypeOK, NEW p \in ProjectId, NEW part \in JoinedRows, NEW parts,
         Registry!Put(p, parts), parts \subseteq Part,
         Stored(p).required # NULL, Stored(p)[part] = NULL,
         parts \cap {"required", "manager", "supervisor", "closeout"} = {part},
         part = "supervisor" => Stored(p).manager # NULL,
         part = "closeout" => Stored(p).supervisor # NULL
  PROVE  OthersOfReports
<1>1. /\ Stored(p)'.required = Stored(p).required
      /\ Stored(p)'[part] # NULL
      /\ \A other \in JoinedRows \ {part} : Stored(p)'[other] = Stored(p)[other]
  BY ProjectsReadApart, ValueAssumption DEF JoinedRows, Part
<1>2. SeenByReports(Stored(p)') =
        [SeenByReports(Stored(p)) EXCEPT !.has = @ \cup {part}]
  <2>1. {other \in JoinedRows : Stored(p)'[other] # NULL}
          = {other \in JoinedRows : Stored(p)[other] # NULL} \cup {part}
    BY <1>1
  <2> DEFINE old == {other \in JoinedRows : Stored(p)[other] # NULL}
             new == {other \in JoinedRows : Stored(p)'[other] # NULL}
             stage == StageOf[Stored(p).required]
             meets == MeetsOf[Stored(p).required]
  <2>2. /\ SeenByReports(Stored(p)) = [stage |-> stage, meets |-> meets, has |-> old]
        /\ SeenByReports(Stored(p)') = [stage |-> stage, meets |-> meets, has |-> new]
    BY <1>1 DEF SeenByReports
  <2>3. new = old \cup {part}
    BY <2>1
  <2> HIDE DEF old, new, stage, meets
  <2>. QED BY <2>2, <2>3
<1>3. ReportTable' = [ReportTable EXCEPT ![p].has = @ \cup {part}]
  BY <1>2, ProjectsReadApart, OneRowChanges, ReportRows
<1>4. ReportTable[p].has = {other \in JoinedRows : Stored(p)[other] # NULL}
  BY ReportRows DEF SeenByReports
<1>5. ReportTable[p].stage # "none"
  BY ThereForReports
<1>6. /\ part \in Report!Parts \ ReportTable[p].has
      /\ part = "supervisor" => "manager" \in ReportTable[p].has
      /\ part = "closeout" => "supervisor" \in ReportTable[p].has
  BY <1>4 DEF Report!Parts, JoinedRows
<1>7. Report!InsertPart(p)
  BY <1>3, <1>5, <1>6 DEF Report!InsertPart, Report!world, Report!criteria, Report!queried
<1>. QED BY <1>7 DEF OthersOfReports

(* A save gives the project other columns, and the rows that are there     *)
(* stay.                                                                   *)
LEMMA ChangeIsSeen ==
  ASSUME TypeOK, NEW p \in ProjectId, NEW parts \in SUBSET Part, Registry!Put(p, parts),
         Stored(p).required # NULL,
         \A part \in parts \ {"salvage"} : Stored(p)[part] # NULL
  PROVE  OthersOfReports
<1>1. /\ Stored(p)'.required \in Contents
      /\ \A part \in JoinedRows : Stored(p)'[part] # NULL <=> Stored(p)[part] # NULL
  BY ProjectsReadApart, ValueAssumption, RecordType DEF RecordTyped, Record, JoinedRows, Part
<1>2. PICK s \in Stages, m \in BOOLEAN :
        s = StageOf[Stored(p)'.required] /\ m = MeetsOf[Stored(p)'.required]
  BY <1>1, ReadersAssumption
<1>3. {part \in JoinedRows : Stored(p)'[part] # NULL}
        = {part \in JoinedRows : Stored(p)[part] # NULL}
  BY <1>1
<1>4. SeenByReports(Stored(p)') = [SeenByReports(Stored(p)) EXCEPT !.stage = s, !.meets = m]
  <2> DEFINE old == {part \in JoinedRows : Stored(p)[part] # NULL}
             new == {part \in JoinedRows : Stored(p)'[part] # NULL}
             stage == StageOf[Stored(p).required]
             meets == MeetsOf[Stored(p).required]
  <2>1. /\ SeenByReports(Stored(p)) = [stage |-> stage, meets |-> meets, has |-> old]
        /\ SeenByReports(Stored(p)') = [stage |-> s, meets |-> m, has |-> new]
    BY <1>1, <1>2, ValueAssumption DEF SeenByReports
  <2>2. new = old
    BY <1>3
  <2> HIDE DEF old, new, stage, meets
  <2>3. [stage |-> s, meets |-> m, has |-> old]
          = [[stage |-> stage, meets |-> meets, has |-> old] EXCEPT !.stage = s, !.meets = m]
    <3>1. [[stage |-> stage, meets |-> meets, has |-> old] EXCEPT !.stage = s]
            = [stage |-> s, meets |-> meets, has |-> old]
      OBVIOUS
    <3>2. [[stage |-> s, meets |-> meets, has |-> old] EXCEPT !.meets = m]
            = [stage |-> s, meets |-> m, has |-> old]
      OBVIOUS
    <3>. QED BY <3>1, <3>2, Zenon
  <2>. QED BY <2>1, <2>2, <2>3, Zenon
<1>5. ReportTable' = [ReportTable EXCEPT ![p].stage = s, ![p].meets = m]
  BY <1>4, ProjectsReadApart, OneRowChanges, ReportRows
<1>6. ReportTable[p].stage # "none"
  BY ThereForReports
<1>7. Report!EditProject(p, s, m)
  BY <1>5, <1>6 DEF Report!EditProject, Report!world, Report!criteria, Report!queried,
     Report!Loading
<1>. QED BY <1>7 DEF OthersOfReports

LEMMA OthersAreSeen ==
  ASSUME TypeOK, TypeOK', Registry!Next, NumbersAscend
  PROVE  OthersOfReports
<1>1. PICK p \in ProjectId :
        \/ Registry!Begin(p) \/ Registry!AssignManager(p) \/ Registry!AssignSupervisor(p)
        \/ Registry!Finish(p) \/ Registry!AddSalvage(p)
        \/ \E parts \in Registry!Rows : Registry!Change(p, parts)
  BY DEF Registry!Next
<1>2. CASE Registry!Begin(p)
  BY <1>2, BeginIsSeen
<1>3. CASE Registry!AssignManager(p)
  <2>1. Registry!Filled(p) = {"required", "optional"} /\ Registry!Put(p, {"manager"})
    BY <1>3 DEF Registry!AssignManager, Registry!Fill
  <2>2. Stored(p).required # NULL /\ Stored(p)["manager"] = NULL
    BY <2>1, FilledMeans DEF Part
  <2>. QED BY <2>1, <2>2, PartIsSeen DEF JoinedRows, Part
<1>4. CASE Registry!AssignSupervisor(p)
  <2>1. /\ Registry!Filled(p) = {"required", "optional", "manager"}
        /\ Registry!Put(p, {"supervisor"})
    BY <1>4 DEF Registry!AssignSupervisor, Registry!Fill
  <2>2. Stored(p).required # NULL /\ Stored(p).manager # NULL /\ Stored(p)["supervisor"] = NULL
    BY <2>1, FilledMeans DEF Part
  <2>. QED BY <2>1, <2>2, PartIsSeen DEF JoinedRows, Part
<1>5. CASE Registry!Finish(p)
  <2>1. /\ Registry!Filled(p) = Part \ {"closeout", "salvage"}
        /\ Registry!Put(p, {"closeout", "salvage"})
    BY <1>5 DEF Registry!Finish, Registry!Fill, Registry!Part, Part
  <2>2. Stored(p).required # NULL /\ Stored(p).supervisor # NULL /\ Stored(p)["closeout"] = NULL
    BY <2>1, FilledMeans DEF Part
  <2>. QED BY <2>1, <2>2, PartIsSeen DEF JoinedRows, Part
<1>6. CASE Registry!AddSalvage(p)
  <2>1. Registry!Filled(p) = Part \ {"salvage"} /\ Registry!Put(p, {"salvage"})
    BY <1>6 DEF Registry!AddSalvage, Registry!Fill, Registry!Part, Part
  <2>2. Stored(p).required # NULL
    BY <2>1, FilledMeans DEF Part
  <2>. QED BY <2>1, <2>2, ChangeIsSeen DEF Part
<1>7. CASE \E parts \in Registry!Rows : Registry!Change(p, parts)
  <2>1. PICK parts \in Registry!Rows : Registry!Change(p, parts)
    BY <1>7
  <2>2. /\ parts \in SUBSET Part /\ Registry!Put(p, parts)
        /\ Part \ {"salvage"} \subseteq Registry!Filled(p)
    BY <2>1 DEF Registry!Change, Registry!Rows, Registry!Part, Part
  <2>3. \A part \in Part \ {"salvage"} : Stored(p)[part] # NULL
    BY <2>2, FilledMeans
  <2>. QED BY <2>2, <2>3, ChangeIsSeen DEF Part
<1>. QED BY <1>1, <1>2, <1>3, <1>4, <1>5, <1>6, <1>7

(* The safety of the reports is proved for any devices that create and     *)
(* edit projects one row at a time: the devices of ProjectStore do.        *)
THEOREM ReportsAreFed == Spec => FeedsReports
<1>1. StepInv => RecordTyped
  BY RecordType DEF StepInv, IInv
<1>2. StepInv /\ StepInv' /\ RecordTyped' /\ [Next]_vars => [NumbersAscend => OthersOfReports]_ReportTable
  <2>. SUFFICES ASSUME StepInv, StepInv', RecordTyped', [Next]_vars, NumbersAscend,
                       ReportTable' # ReportTable
                PROVE  OthersOfReports
    OBVIOUS
  <2>1. TypeOK /\ TypeOK'
    BY DEF StepInv, IInv
  <2>2. [p \in ProjectId |-> Stored(p)]' # [p \in ProjectId |-> Stored(p)]
    <3>. SUFFICES ASSUME \A p \in ProjectId : Stored(p)' = Stored(p)
                  PROVE  FALSE
      OBVIOUS
    <3>. QED BY ReportRows
  <2>3. Registry!Next
    BY <2>2, RegistryNext
  <2>. QED BY <2>1, <2>3, OthersAreSeen
<1>. QED BY <1>1, <1>2, StepInvariance, PTL DEF FeedsReports, Spec

-----------------------------------------------------------------------------
(* The triggers, in the same way: a row of theirs is one project's.        *)

LEMMA SavesAreSeen ==
  ASSUME TypeOK', NEW p \in ProjectId, \A q \in ProjectId \ {p} : Stored(q)' = Stored(q)
  PROVE  \E r \in TriggerRows : Watch!Save(p, r)
<1>1. /\ Stored(p)'.required \in Contents \cup {NULL}
      /\ Stored(p)'.required # NULL => Stored(p)'.optional \in Contents
  BY DEF Stored, TypeOK, ProjectRow
<1>2. PICK r \in TriggerRows : r = SeenByTriggers(Stored(p)')
  BY <1>1, ReadersAssumption DEF SeenByTriggers
<1>3. TriggerTable' = [TriggerTable EXCEPT ![p] = r]
  BY <1>2, OneRowChanges
<1>4. Watch!Save(p, r)
  BY <1>3 DEF Watch!Save, Watch!Steps, Watch!lists
<1>. QED BY <1>4

(* Whatever a device does, the triggers see at most one project change,    *)
(* and its row all at once: what Triggers takes for a save.                *)
THEOREM TriggersAreFed == Spec => FeedsTriggers
<1>1. StepInv => RecordTyped
  BY RecordType DEF StepInv, IInv
<1>2. StepInv /\ StepInv' /\ RecordTyped' /\ [Next]_vars =>
        [\E p \in ProjectId, r \in TriggerRows : Watch!Save(p, r)]_TriggerTable
  <2>. SUFFICES ASSUME StepInv, StepInv', RecordTyped', [Next]_vars,
                       TriggerTable' # TriggerTable
                PROVE  \E p \in ProjectId, r \in TriggerRows : Watch!Save(p, r)
    OBVIOUS
  <2>1. TypeOK'
    BY DEF StepInv, IInv
  <2>2. [p \in ProjectId |-> Stored(p)]' # [p \in ProjectId |-> Stored(p)]
    <3>. SUFFICES ASSUME \A p \in ProjectId : Stored(p)' = Stored(p)
                  PROVE  FALSE
      OBVIOUS
    <3>. QED BY TriggerRowsSeen
  <2>3. Registry!Next
    BY <2>2, RegistryNext
  <2>4. PICK p \in ProjectId : \A q \in ProjectId \ {p} : Stored(q)' = Stored(q)
    BY <2>3 DEF Registry!Next, Registry!Begin, Registry!AssignManager,
       Registry!AssignSupervisor, Registry!Finish, Registry!AddSalvage, Registry!Change,
       Registry!Fill, Registry!Put
  <2>. QED BY <2>1, <2>4, SavesAreSeen
<1>. QED BY <1>1, <1>2, StepInvariance, PTL DEF FeedsTriggers, Spec
=============================================================================
