------------------------- MODULE ProjectStoreProofs -------------------------
(***************************************************************************)
(* IInv is an inductive invariant of ProjectStore, for any number of       *)
(* devices, projects and ids; the theorems at the end follow from it.      *)
(***************************************************************************)
EXTENDS ProjectStore, TLAPS

-----------------------------------------------------------------------------
(* What a step leaves alone.                                               *)

OthersStay(d) ==
  \A e \in Device \ {d} :
    /\ pc'[e] = pc[e]
    /\ projectID'[e] = projectID[e]
    /\ salvageID'[e] = salvageID[e]
    /\ closeoutID'[e] = closeoutID[e]

(* The same rows exist and are linked in the same way.                     *)
SameLinks ==
  /\ \A p \in ProjectId : project'[p] = NULL <=> project[p] = NULL
  /\ CloseoutOf' = CloseoutOf
  /\ \A k \in CloseoutId : closeoutdetails'[k] = NULL <=> closeoutdetails[k] = NULL
  /\ SalvageIn' = SalvageIn
  /\ \A s \in SalvageId : salvagevalue'[s] = NULL <=> salvagevalue[s] = NULL

LEMMA LinkType ==
  ASSUME TypeOK
  PROVE  /\ CloseoutOf \in [ProjectId -> CloseoutId \cup {NULL}]
         /\ SalvageIn \in [CloseoutId -> SalvageId \cup {NULL}]
         /\ \A p \in ProjectId : SalvageOf(p) \in SalvageId \cup {NULL}
<1>1. CloseoutOf \in [ProjectId -> CloseoutId \cup {NULL}]
  BY DEF TypeOK, CloseoutOf, ProjectRow
<1>2. SalvageIn \in [CloseoutId -> SalvageId \cup {NULL}]
  BY DEF TypeOK, SalvageIn, CloseoutRow
<1>. QED BY <1>1, <1>2 DEF SalvageOf

LEMMA NoTableNoLink ==
  ASSUME UNCHANGED <<project, salvagevalue, closeoutdetails>>
  PROVE  SameLinks
BY DEF SameLinks, CloseoutOf, SalvageIn

(* What is read of an open project is contents, or nothing.                *)
LEMMA StoredType ==
  ASSUME TypeOK, NEW p \in ProjectId
  PROVE  /\ project[p] # NULL => Stored(p).required \in Contents
         /\ project[p] # NULL => Stored(p).optional \in Contents
         /\ Stored(p).manager \in Contents \cup {NULL}
         /\ Stored(p).supervisor \in Contents \cup {NULL}
         /\ Stored(p).closeout \in Contents \cup {NULL}
         /\ ShownSalvage(p) \in Contents
<1>1. CloseoutOf[p] # NULL => DetailsIn[CloseoutOf[p]] \in Contents \cup {NULL}
  BY LinkType DEF TypeOK, DetailsIn, CloseoutRow
<1>2. Stored(p).salvage \in Contents \cup {NULL}
  BY LinkType DEF TypeOK, Stored
<1>. QED
  BY <1>1, <1>2 DEF TypeOK, Stored, ShownSalvage, ProjectRow, Contents

-----------------------------------------------------------------------------
(* Types of the pieces that the actions share.                             *)

LEMMA StepType ==
  ASSUME TypeOK, NEW d \in Device, NEW to \in Busy \cup Screen,
         pc' = [pc EXCEPT ![d] = to]
  PROVE  pc' \in [Device -> Busy \cup Screen]
BY DEF TypeOK

LEMMA CellType ==
  ASSUME TypeOK, NEW d \in Device
  PROVE  /\ cellArray[d].required \in Contents
         /\ cellArray[d].optional \in Contents
         /\ cellArray[d].manager \in Contents
         /\ cellArray[d].supervisor \in Contents
         /\ cellArray[d].closeout \in Contents
         /\ cellArray[d].salvage \in Contents
BY DEF TypeOK, Part

LEMMA TouchType ==
  ASSUME TypeOK, NEW d, Touch(d)
  PROVE  touched' \in [Device -> BOOLEAN]
BY DEF Touch

LEMMA ForgetType ==
  ASSUME TypeOK, NEW d \in Device, Forget(d)
  PROVE  /\ projectID' \in [Device -> ProjectId \cup {NULL}]
         /\ cellArray' \in [Device -> [Part -> Contents]]
         /\ salvageID' \in [Device -> SalvageId \cup {NULL}]
         /\ closeoutID' \in [Device -> CloseoutId \cup {NULL}]
         /\ didHaveSalvageInDatabase' \in [Device -> BOOLEAN]
         /\ touched' \in [Device -> BOOLEAN]
BY DEF TypeOK, Forget, ClearIds, BlankForm, Contents

LEMMA CellsType ==
  ASSUME TypeOK, NEW d \in Device, NEW cells \in Typed(d)
  PROVE  cells \in [Part -> Contents]
BY DEF TypeOK, Typed, Contents

-----------------------------------------------------------------------------
(* Steps that leave the links as they are.                                 *)

LEMMA SameLinksSound ==
  ASSUME TypeOK, LinksSound, SameLinks
  PROVE  LinksSound'
BY LinkType DEF LinksSound, SameLinks

LEMMA OthersKeepRows ==
  ASSUME IInv, SameLinks, NEW d \in Device, OthersStay(d),
         ~Creating(d)', ~HoldsSalvage(d)', ~HoldsCloseout(d)'
  PROVE  OwnRows'
<1>1. OwnProjects'
  BY DEF IInv, TypeOK, OwnRows, OwnProjects, SameLinks, OthersStay, Creating
<1>2. OwnSalvages'
  BY DEF IInv, TypeOK, OwnRows, OwnSalvages, SameLinks, OthersStay, HoldsSalvage
<1>3. OwnCloseouts'
  <2>. SUFFICES ASSUME NEW e \in Device, HoldsCloseout(e)'
                PROVE  /\ closeoutID'[e] # NULL
                       /\ closeoutdetails'[closeoutID'[e]] # NULL
                       /\ \A p \in ProjectId : CloseoutOf'[p] # closeoutID'[e]
                       /\ \A f \in Device \ {e} :
                            HoldsCloseout(f)' => closeoutID'[f] # closeoutID'[e]
    BY DEF OwnCloseouts
  <2>1. e # d /\ HoldsCloseout(e) /\ closeoutID'[e] = closeoutID[e]
    BY DEF OthersStay, HoldsCloseout
  <2>. QED
    BY <2>1 DEF IInv, TypeOK, OwnRows, OwnCloseouts, SameLinks, OthersStay, HoldsCloseout
<1>. QED BY <1>1, <1>2, <1>3 DEF OwnRows

(* The ids the other devices have selected stay those of their projects.   *)
LEMMA OthersKeepIds ==
  ASSUME IInv, SameLinks, NEW d \in Device, OthersStay(d), ~HoldsSalvage(d)',
         pc'[d] \notin {"linkSalvage", "updateSalvage", "updateCloseout"}
  PROVE  SelectedCloseout' /\ SelectedSalvage'
<1>1. SelectedCloseout'
  BY LinkType DEF IInv, TypeOK, SelectedRows, SelectedCloseout, OpenRows, SameLinks,
     OthersStay, OnScreen, UpdateStep
<1>2. SelectedSalvage'
  <2>. SUFFICES ASSUME NEW e \in Device, pc'[e] = "updateSalvage"
                PROVE  /\ salvageID'[e] # NULL
                       /\ salvagevalue'[salvageID'[e]] # NULL
                       /\ \A k \in CloseoutId : SalvageIn'[k] = salvageID'[e]
                                                => k = CloseoutOf'[projectID'[e]]
                       /\ \A f \in Device : HoldsSalvage(f)' => salvageID'[f] # salvageID'[e]
    BY DEF SelectedSalvage
  <2>1. e # d /\ pc[e] = "updateSalvage" /\ salvageID'[e] = salvageID[e]
        /\ projectID'[e] = projectID[e]
    BY DEF OthersStay
  <2>2. \A f \in Device : HoldsSalvage(f)' => HoldsSalvage(f) /\ salvageID'[f] = salvageID[f]
    BY DEF OthersStay, HoldsSalvage
  <2>. QED
    BY <2>1, <2>2 DEF IInv, TypeOK, SelectedRows, SelectedSalvage, SameLinks
<1>. QED BY <1>1, <1>2

(* Such a step takes its device to a screen or statement that holds no row. *)
LEMMA DropsRows ==
  ASSUME IInv, SameLinks, NEW d \in Device, OthersStay(d),
         ~Creating(d)', ~HoldsSalvage(d)', ~HoldsCloseout(d)',
         pc'[d] \notin OnScreen
  PROVE  LinksSound' /\ OwnRows' /\ SelectedRows'
<1>1. pc'[d] \notin {"updateSalvage", "linkSalvage", "updateCloseout"} \cup Loaded
  BY DEF OnScreen, Loaded, FetchStep, UpdateStep
<1>2. OpenRows'
  BY <1>1 DEF IInv, TypeOK, SelectedRows, OpenRows, SameLinks, OthersStay
<1>. QED
  BY <1>1, <1>2, SameLinksSound, OthersKeepRows, OthersKeepIds DEF IInv, SelectedRows

(* Such a step keeps its device on the project it has open, with no        *)
(* selected id that the next statement would use.                          *)
LEMMA StaysOpen ==
  ASSUME IInv, SameLinks, NEW d \in Device, OthersStay(d),
         projectID'[d] = projectID[d],
         pc[d] \in OnScreen,
         pc'[d] \in OnScreen \ {"updateSalvage", "selectLink", "linkSalvage", "updateCloseout"},
         pc'[d] \in Loaded => CloseoutOf[projectID[d]] # NULL
  PROVE  LinksSound' /\ OwnRows' /\ SelectedRows'
<1>1. ~Creating(d)' /\ ~HoldsSalvage(d)' /\ ~HoldsCloseout(d)'
  BY DEF Creating, HoldsSalvage, HoldsCloseout, OnScreen, CreateStep, FetchStep, UpdateStep
<1>2. OpenRows'
  BY DEF IInv, TypeOK, SelectedRows, OpenRows, SameLinks, OthersStay
<1>. QED
  BY <1>1, <1>2, SameLinksSound, OthersKeepRows, OthersKeepIds DEF IInv, SelectedRows

-----------------------------------------------------------------------------
(* Creating a project.                                                     *)

LEMMA InsertProjectKeeps ==
  ASSUME IInv, NEW d \in Device, InsertProject(d)
  PROVE  IInv'
<1>1. PICK p \in ProjectId :
        /\ project[p] = NULL
        /\ project' = [project EXCEPT ![p] =
             [required |-> cellArray[d].required, optional |-> cellArray[d].optional,
              closeoutDetails_id |-> NULL]]
        /\ projectID' = [projectID EXCEPT ![d] = p]
  BY DEF InsertProject, FreshId
<1>2. TypeOK'
  BY <1>1, StepType, CellType DEF IInv, TypeOK, InsertProject, Goto, otherThanProject, scratch,
     Busy, Screen, CreateStep, ProjectRow
<1>3. /\ CloseoutOf' = CloseoutOf
      /\ SalvageIn' = SalvageIn
      /\ CloseoutOf[p] = NULL
      /\ project'[p] # NULL
  BY <1>1, RowAssumption, CellType
     DEF IInv, TypeOK, InsertProject, otherThanProject, CloseoutOf, SalvageIn
<1>4. LinksSound'
  BY <1>3 DEF IInv, LinksSound, InsertProject, otherThanProject
<1>5. pc[d] = "insertProject" /\ pc' = [pc EXCEPT ![d] = "insertManager"]
  BY DEF InsertProject, Goto
<1>6. OwnProjects'
  <2>1. \A e \in Device : Creating(e) => projectID[e] # p
    BY <1>1 DEF IInv, OwnRows, OwnProjects
  <2>2. \A e \in Device \ {d} : Creating(e)' => Creating(e) /\ projectID'[e] = projectID[e]
    BY <1>1, <1>5 DEF IInv, TypeOK, Creating
  <2>3. projectID'[d] = p /\ p # NULL
    BY <1>1, ValueAssumption DEF IInv, TypeOK
  <2>4. \A q \in ProjectId : project[q] # NULL => project'[q] # NULL
    BY <1>1, <1>3 DEF IInv, TypeOK
  <2>. QED
    BY <2>1, <2>2, <2>3, <2>4, <1>3 DEF IInv, TypeOK, OwnRows, OwnProjects
<1>7. OwnSalvages' /\ OwnCloseouts'
  BY <1>3, <1>5 DEF IInv, TypeOK, OwnRows, OwnSalvages, OwnCloseouts, HoldsSalvage, HoldsCloseout,
     InsertProject, otherThanProject, scratch
<1>8. OpenRows'
  BY <1>1, <1>3, <1>5 DEF IInv, TypeOK, SelectedRows, OpenRows, OnScreen, Loaded, FetchStep,
     UpdateStep
<1>9. SelectedCloseout' /\ SelectedSalvage'
  BY <1>1, <1>3, <1>5 DEF IInv, TypeOK, SelectedRows, SelectedCloseout, SelectedSalvage,
     HoldsSalvage, InsertProject, otherThanProject, scratch
<1>. QED BY <1>2, <1>4, <1>6, <1>7, <1>8, <1>9 DEF IInv, OwnRows, SelectedRows

(* A statement that goes on creating the same project, whose own row, like *)
(* the closeout rows, it leaves as it is.                                  *)
LEMMA InsertAssignmentKeeps ==
  ASSUME IInv, NEW d \in Device, InsertManager(d) \/ InsertSupervisor(d)
  PROVE  IInv'
<1>1. TypeOK'
  <2>1. CASE InsertManager(d)
    BY <2>1, StepType, CellType, TouchType DEF IInv, TypeOK, InsertManager, Goto, WroteRow,
       screen, scratch, otherThanManagers, Busy, Screen, CreateStep
  <2>2. CASE InsertSupervisor(d)
    BY <2>2, StepType, CellType, TouchType DEF IInv, TypeOK, InsertSupervisor, Goto, WroteRow,
       screen, scratch, otherThanSupervisors, Busy, Screen, CreateStep
  <2>. QED BY <2>1, <2>2
<1>2. /\ UNCHANGED <<project, salvagevalue, closeoutdetails, projectID, salvageID, closeoutID>>
      /\ pc[d] \in {"insertManager", "insertSupervisor"}
      /\ \E to \in {"insertSupervisor", "insertSalvage"} : pc' = [pc EXCEPT ![d] = to]
  BY DEF InsertManager, InsertSupervisor, Goto, WroteRow, screen, scratch, otherThanManagers,
     otherThanSupervisors
<1>3. SameLinks /\ OthersStay(d) /\ ~HoldsSalvage(d)'
      /\ pc'[d] \notin {"linkSalvage", "updateSalvage", "updateCloseout"}
  BY <1>2, NoTableNoLink DEF IInv, TypeOK, OthersStay, HoldsSalvage
<1>4. LinksSound' /\ SelectedCloseout' /\ SelectedSalvage'
  BY <1>3, SameLinksSound, OthersKeepIds DEF IInv
<1>5. OwnProjects'
  BY <1>2, <1>3 DEF IInv, TypeOK, OwnRows, OwnProjects, SameLinks, Creating, CreateStep
<1>6. OwnSalvages' /\ OwnCloseouts'
  BY <1>2, <1>3 DEF IInv, TypeOK, OwnRows, OwnSalvages, OwnCloseouts, SameLinks, HoldsSalvage,
     HoldsCloseout
<1>7. OpenRows'
  BY <1>2, <1>3 DEF IInv, TypeOK, SelectedRows, OpenRows, SameLinks, OnScreen, Loaded, FetchStep,
     UpdateStep
<1>. QED BY <1>1, <1>4, <1>5, <1>6, <1>7 DEF IInv, OwnRows, SelectedRows

(* The id of a new salvage row is held by the save that inserted it.       *)
LEMMA NewSalvageKeeps ==
  ASSUME IInv, NEW d \in Device, InsertSalvage(d) \/ InsertNewSalvage(d)
  PROVE  IInv'
<1>1. PICK s \in SalvageId :
        /\ salvagevalue[s] = NULL
        /\ salvagevalue' = [salvagevalue EXCEPT ![s] = cellArray[d].salvage]
        /\ salvageID' = [salvageID EXCEPT ![d] = s]
  BY DEF InsertSalvage, InsertNewSalvage, FreshId
<1>2. /\ UNCHANGED <<project, closeoutdetails, projectID, closeoutID>>
      /\ \/ pc[d] = "insertSalvage" /\ pc' = [pc EXCEPT ![d] = "insertCloseout"]
         \/ pc[d] = "insertNewSalvage" /\ pc' = [pc EXCEPT ![d] = "selectLink"]
  BY DEF InsertSalvage, InsertNewSalvage, Goto, otherThanSalvage, screen
<1>3. TypeOK'
  BY <1>1, StepType, CellType DEF IInv, TypeOK, InsertSalvage, InsertNewSalvage, Goto,
     otherThanSalvage, screen, Busy, Screen, CreateStep, UpdateStep
<1>4. /\ CloseoutOf' = CloseoutOf
      /\ SalvageIn' = SalvageIn
      /\ \A k \in CloseoutId : SalvageIn[k] # s
      /\ salvagevalue'[s] # NULL
      /\ \A r \in SalvageId : salvagevalue[r] # NULL => salvagevalue'[r] # NULL
  <2>1. \A k \in CloseoutId : SalvageIn[k] # s
    BY <1>1, ValueAssumption DEF IInv, LinksSound
  <2>2. salvagevalue'[s] # NULL /\ \A r \in SalvageId \ {s} : salvagevalue'[r] = salvagevalue[r]
    BY <1>1, ValueAssumption, CellType DEF IInv, TypeOK
  <2>. QED BY <1>2, <2>1, <2>2 DEF CloseoutOf, SalvageIn
<1>5. LinksSound'
  BY <1>2, <1>4, LinkType DEF IInv, LinksSound
<1>6. OwnProjects' /\ OwnCloseouts'
  <2>1. \A e \in Device :
          /\ Creating(e)' => Creating(e)
          /\ HoldsCloseout(e)' => HoldsCloseout(e)
    BY <1>2 DEF IInv, TypeOK, Creating, HoldsCloseout, CreateStep
  <2>2. OwnProjects'
    BY <2>1, <1>2, <1>4 DEF IInv, OwnRows, OwnProjects, Creating
  <2>3. OwnCloseouts'
    BY <2>1, <1>2, <1>4 DEF IInv, OwnRows, OwnCloseouts, HoldsCloseout
  <2>. QED BY <2>2, <2>3
<1>7. \A e \in Device : HoldsSalvage(e) \/ pc[e] = "updateSalvage" => salvageID[e] # s
  BY <1>1 DEF IInv, OwnRows, OwnSalvages, SelectedRows, SelectedSalvage
<1>8. OwnSalvages'
  BY <1>1, <1>2, <1>4, <1>7, ValueAssumption DEF IInv, TypeOK, OwnRows, OwnSalvages, HoldsSalvage
<1>9. OpenRows'
  BY <1>2, <1>4 DEF IInv, TypeOK, SelectedRows, OpenRows, OnScreen, Loaded, FetchStep, UpdateStep
<1>10. SelectedCloseout'
  BY <1>2, <1>4 DEF IInv, TypeOK, SelectedRows, SelectedCloseout
<1>11. SelectedSalvage'
  <2>. SUFFICES ASSUME NEW e \in Device, pc'[e] = "updateSalvage"
                PROVE  /\ salvageID'[e] # NULL
                       /\ salvagevalue'[salvageID'[e]] # NULL
                       /\ \A k \in CloseoutId : SalvageIn'[k] = salvageID'[e]
                                                => k = CloseoutOf'[projectID'[e]]
                       /\ \A f \in Device : HoldsSalvage(f)' => salvageID'[f] # salvageID'[e]
    BY DEF SelectedSalvage
  <2>1. e # d /\ pc[e] = "updateSalvage" /\ salvageID'[e] = salvageID[e]
    BY <1>1, <1>2 DEF IInv, TypeOK
  <2>2. \A f \in Device \ {d} : HoldsSalvage(f)' => HoldsSalvage(f) /\ salvageID'[f] = salvageID[f]
    BY <1>1, <1>2 DEF IInv, TypeOK, HoldsSalvage
  <2>3. salvageID'[d] = s
    BY <1>1 DEF IInv, TypeOK
  <2>. QED
    BY <2>1, <2>2, <2>3, <1>2, <1>4, <1>7
       DEF IInv, TypeOK, SelectedRows, SelectedSalvage
<1>. QED BY <1>3, <1>5, <1>6, <1>8, <1>9, <1>10, <1>11 DEF IInv, OwnRows, SelectedRows

LEMMA InsertCloseoutKeeps ==
  ASSUME IInv, NEW d \in Device, InsertCloseout(d)
  PROVE  IInv'
<1>1. PICK k \in CloseoutId :
        /\ closeoutdetails[k] = NULL
        /\ closeoutdetails' = [closeoutdetails EXCEPT ![k] =
             [details |-> cellArray[d].closeout, salvageValue_id |-> salvageID[d]]]
        /\ closeoutID' = [closeoutID EXCEPT ![d] = k]
  BY DEF InsertCloseout, FreshId
<1>2. /\ UNCHANGED <<project, salvagevalue, projectID, salvageID>>
      /\ pc[d] = "insertCloseout"
      /\ pc' = [pc EXCEPT ![d] = "linkCloseout"]
  BY DEF InsertCloseout, Goto, otherThanCloseout, screen
<1>3. TypeOK'
  BY <1>1, StepType, CellType DEF IInv, TypeOK, InsertCloseout, Goto, otherThanCloseout, screen,
     Busy, Screen, CreateStep, CloseoutRow
<1>4. CloseoutOf' = CloseoutOf /\ SalvageIn' = [SalvageIn EXCEPT ![k] = salvageID[d]]
  <2>1. closeoutdetails'[k] # NULL /\ closeoutdetails'[k].salvageValue_id = salvageID[d]
    BY <1>1, RowAssumption, CellType DEF IInv, TypeOK
  <2>2. \A l \in CloseoutId \ {k} : closeoutdetails'[l] = closeoutdetails[l]
    BY <1>1 DEF IInv, TypeOK
  <2>. QED BY <1>2, <2>1, <2>2 DEF CloseoutOf, SalvageIn
<1>5. /\ salvageID[d] # NULL
      /\ salvageID[d] \in SalvageId
      /\ salvagevalue[salvageID[d]] # NULL
      /\ \A l \in CloseoutId : SalvageIn[l] # salvageID[d]
  BY <1>2 DEF IInv, TypeOK, OwnRows, OwnSalvages, HoldsSalvage
<1>6. \A p \in ProjectId : CloseoutOf[p] # k
  BY <1>1, ValueAssumption DEF IInv, LinksSound
<1>7. closeoutdetails'[k] # NULL
      /\ \A l \in CloseoutId : closeoutdetails[l] # NULL => closeoutdetails'[l] # NULL
  BY <1>1, RowAssumption, CellType DEF IInv, TypeOK
<1>8. LinksSound'
  BY <1>2, <1>4, <1>5, <1>7, LinkType DEF IInv, LinksSound
<1>9. OwnProjects'
  BY <1>2, <1>4 DEF IInv, TypeOK, OwnRows, OwnProjects, Creating, CreateStep
<1>10. OwnSalvages'
  <2>1. \A e \in Device : HoldsSalvage(e)' => e # d /\ HoldsSalvage(e)
    BY <1>2 DEF IInv, TypeOK, HoldsSalvage
  <2>2. HoldsSalvage(d)
    BY <1>2 DEF HoldsSalvage
  <2>. QED BY <2>1, <2>2, <1>2, <1>4, LinkType DEF IInv, OwnRows, OwnSalvages
<1>11. OwnCloseouts'
  <2>1. \A e \in Device \ {d} :
          HoldsCloseout(e)' => HoldsCloseout(e) /\ closeoutID'[e] = closeoutID[e]
    BY <1>1, <1>2 DEF IInv, TypeOK, HoldsCloseout
  <2>2. \A e \in Device : HoldsCloseout(e) => closeoutID[e] # k
    BY <1>1 DEF IInv, OwnRows, OwnCloseouts
  <2>3. closeoutID'[d] = k /\ k # NULL
    BY <1>1, ValueAssumption DEF IInv, TypeOK
  <2>. QED
    BY <2>1, <2>2, <2>3, <1>4, <1>6, <1>7 DEF IInv, TypeOK, OwnRows, OwnCloseouts
<1>12. OpenRows' /\ SelectedCloseout'
  BY <1>1, <1>2, <1>4 DEF IInv, TypeOK, SelectedRows, OpenRows, SelectedCloseout, OnScreen, Loaded,
     FetchStep, UpdateStep
<1>13. SelectedSalvage'
  <2>1. HoldsSalvage(d)
    BY <1>2 DEF HoldsSalvage
  <2>2. \A e \in Device : HoldsSalvage(e)' => HoldsSalvage(e)
    BY <1>2 DEF IInv, TypeOK, HoldsSalvage
  <2>3. \A e \in Device : pc'[e] = "updateSalvage" => pc[e] = "updateSalvage"
    BY <1>2 DEF IInv, TypeOK
  <2>. QED
    BY <2>1, <2>2, <2>3, <1>2, <1>4, LinkType DEF IInv, SelectedRows, SelectedSalvage
<1>. QED
  BY <1>3, <1>8, <1>9, <1>10, <1>11, <1>12, <1>13 DEF IInv, OwnRows, SelectedRows

LEMMA LinkCloseoutKeeps ==
  ASSUME IInv, NEW d \in Device, LinkCloseout(d)
  PROVE  IInv'
<1> DEFINE p == projectID[d]
           k == closeoutID[d]
<1>1. /\ p \in ProjectId /\ project[p] \in ProjectRow /\ CloseoutOf[p] = NULL
      /\ k \in CloseoutId /\ closeoutdetails[k] # NULL
      /\ \A q \in ProjectId : CloseoutOf[q] # k
  BY DEF IInv, TypeOK, OwnRows, OwnProjects, OwnCloseouts, Creating, HoldsCloseout, CreateStep,
     LinkCloseout, Goto
<1>2. /\ project' = [project EXCEPT ![p] = [project[p] EXCEPT !.closeoutDetails_id = k]]
      /\ UNCHANGED <<salvagevalue, closeoutdetails, projectID>>
      /\ pc[d] = "linkCloseout"
      /\ pc' = [pc EXCEPT ![d] = "form"]
      /\ closeoutID' = [closeoutID EXCEPT ![d] = NULL]
      /\ salvageID' = [salvageID EXCEPT ![d] = NULL]
  BY DEF LinkCloseout, Goto, ClearIds, otherThanProject, screen
<1> HIDE DEF p, k
<1>3. [project[p] EXCEPT !.closeoutDetails_id = k] \in ProjectRow
  BY <1>1 DEF ProjectRow
<1>4. TypeOK'
  <2>1. project' \in [ProjectId -> ProjectRow \cup {NULL}]
    BY <1>2, <1>3 DEF IInv, TypeOK
  <2>. QED
    BY <2>1, <1>2, StepType, TouchType DEF IInv, TypeOK, LinkCloseout, Ends,
       otherThanProject, screen, Busy, Screen, Outcome
<1>5. /\ project'[p] # NULL
      /\ \A q \in ProjectId : project[q] # NULL => project'[q] # NULL
      /\ CloseoutOf' = [CloseoutOf EXCEPT ![p] = k]
      /\ SalvageIn' = SalvageIn
  <2>1. project'[p] # NULL /\ project'[p].closeoutDetails_id = k
    BY <1>1, <1>2, <1>3, RowAssumption DEF IInv, TypeOK, ProjectRow
  <2>2. \A q \in ProjectId \ {p} : project'[q] = project[q]
    BY <1>2 DEF IInv, TypeOK
  <2>3. \A q \in ProjectId : project[q] # NULL => project'[q] # NULL
    BY <2>1, <2>2
  <2>4. CloseoutOf' = [q \in ProjectId |-> IF q = p THEN k ELSE CloseoutOf[q]]
    BY <2>1, <2>2 DEF CloseoutOf
  <2>5. CloseoutOf' = [CloseoutOf EXCEPT ![p] = k]
    BY <1>1, <2>4 DEF CloseoutOf
  <2>. QED BY <1>2, <2>1, <2>3, <2>5 DEF SalvageIn
<1>6. LinksSound'
  BY <1>1, <1>2, <1>5, LinkType DEF IInv, LinksSound
<1>7. OwnProjects'
  <2>1. \A e \in Device : Creating(e)' => e # d /\ Creating(e)
    BY <1>2 DEF IInv, TypeOK, Creating, CreateStep
  <2>2. \A e \in Device \ {d} : Creating(e) => projectID[e] # p
    BY <1>2 DEF IInv, OwnRows, OwnProjects, Creating, CreateStep, p
  <2>. QED
    BY <2>1, <2>2, <1>2, <1>5, LinkType DEF IInv, TypeOK, OwnRows, OwnProjects
<1>8. OwnSalvages'
  <2>1. \A e \in Device : HoldsSalvage(e)' => HoldsSalvage(e) /\ salvageID'[e] = salvageID[e]
    BY <1>2 DEF IInv, TypeOK, HoldsSalvage
  <2>. QED BY <2>1, <1>2, <1>5 DEF IInv, OwnRows, OwnSalvages
<1>9. OwnCloseouts'
  <2>1. \A e \in Device : HoldsCloseout(e)' =>
                            e # d /\ HoldsCloseout(e) /\ closeoutID'[e] = closeoutID[e]
    BY <1>2 DEF IInv, TypeOK, HoldsCloseout
  <2>2. \A e \in Device \ {d} : HoldsCloseout(e) => closeoutID[e] # k
    BY <1>2 DEF IInv, OwnRows, OwnCloseouts, HoldsCloseout, k
  <2>. QED
    BY <2>1, <2>2, <1>2, <1>5, LinkType DEF IInv, OwnRows, OwnCloseouts
<1>10. \A q \in ProjectId : CloseoutOf[q] # NULL => CloseoutOf'[q] = CloseoutOf[q]
  BY <1>1, <1>5, LinkType DEF IInv
<1>11. OpenRows'
  <2>1. \A e \in Device : /\ pc'[e] \in OnScreen => pc[e] \in OnScreen
                          /\ pc'[e] \in Loaded => pc[e] \in Loaded /\ pc[e] \in OnScreen
    BY <1>2 DEF IInv, TypeOK, OnScreen, Loaded, FetchStep, UpdateStep
  <2>. QED
    BY <2>1, <1>2, <1>5, <1>10, ValueAssumption DEF IInv, TypeOK, SelectedRows, OpenRows
<1>12. \A e \in Device : pc'[e] \in {"linkSalvage", "updateCloseout", "updateSalvage"} =>
         /\ e # d
         /\ pc[e] = pc'[e]
         /\ salvageID'[e] = salvageID[e]
         /\ closeoutID'[e] = closeoutID[e]
         /\ CloseoutOf'[projectID[e]] = CloseoutOf[projectID[e]]
  BY <1>2, <1>10 DEF IInv, TypeOK, SelectedRows, OpenRows, OnScreen, Loaded, UpdateStep
<1>13. SelectedCloseout'
  BY <1>2, <1>12 DEF IInv, SelectedRows, SelectedCloseout
<1>14. SelectedSalvage'
  <2>1. \A e \in Device : HoldsSalvage(e)' => HoldsSalvage(e) /\ salvageID'[e] = salvageID[e]
    BY <1>2 DEF IInv, TypeOK, HoldsSalvage
  <2>. QED BY <2>1, <1>2, <1>5, <1>12 DEF IInv, SelectedRows, SelectedSalvage
<1>. QED
  BY <1>4, <1>6, <1>7, <1>8, <1>9, <1>11, <1>13, <1>14 DEF IInv, OwnRows, SelectedRows

LEMMA CreateKeeps ==
  ASSUME IInv, NEW d \in Device, Create(d)
  PROVE  IInv'
BY InsertProjectKeeps, InsertAssignmentKeeps, NewSalvageKeeps, InsertCloseoutKeeps,
   LinkCloseoutKeeps DEF Create

-----------------------------------------------------------------------------
(* Opening a project writes nothing.                                       *)

LEMMA FetchKeeps ==
  ASSUME IInv, NEW d \in Device, Fetch(d)
  PROVE  IInv'
<1>1. SameLinks /\ OthersStay(d)
  BY NoTableNoLink DEF IInv, TypeOK, OthersStay, tables, Fetch, FetchRequired, FetchManager,
     FetchSupervisor, FetchOptional, FetchSalvage, FetchFindsNoRow, Goto, OnlyCells, scratch,
     Forget, ClearIds
<1>2. pc[d] \in FetchStep => projectID[d] \in ProjectId /\ project[projectID[d]] # NULL
  BY DEF IInv, TypeOK, SelectedRows, OpenRows, OnScreen
<1>3. CASE FetchRequired(d)
  <2>1. TypeOK'
    BY <1>3, <1>2, StepType, StoredType DEF IInv, TypeOK, FetchRequired, Goto, OnlyCells, tables,
       scratch, Busy, FetchStep, Part
  <2>. QED
    BY <2>1, <1>1, <1>3, StaysOpen DEF IInv, TypeOK, FetchRequired, Goto, OnlyCells, OnScreen,
       Loaded, FetchStep, UpdateStep
<1>4. CASE FetchManager(d)
  <2>1. TypeOK'
    BY <1>4, <1>2, StepType, StoredType DEF IInv, TypeOK, FetchManager, Goto, OnlyCells, tables,
       scratch, Busy, FetchStep, Part
  <2>. QED
    BY <2>1, <1>1, <1>4, StaysOpen DEF IInv, TypeOK, FetchManager, Goto, OnlyCells, OnScreen,
       Loaded, FetchStep, UpdateStep
<1>5. CASE FetchSupervisor(d)
  <2>1. TypeOK'
    BY <1>5, <1>2, StepType, StoredType DEF IInv, TypeOK, FetchSupervisor, Goto, OnlyCells, tables,
       scratch, Busy, FetchStep, Part
  <2>. QED
    BY <2>1, <1>1, <1>5, StaysOpen DEF IInv, TypeOK, FetchSupervisor, Goto, OnlyCells, OnScreen,
       Loaded, FetchStep, UpdateStep
<1>6. CASE FetchOptional(d)
  <2>1. TypeOK'
    BY <1>6, <1>2, StepType, StoredType DEF IInv, TypeOK, FetchOptional, Goto, OnlyCells, tables,
       scratch, Busy, FetchStep, Part
  <2>2. CloseoutOf[projectID[d]] # NULL
    BY <1>6 DEF FetchOptional, Stored
  <2>. QED
    BY <2>1, <2>2, <1>1, <1>6, StaysOpen DEF IInv, TypeOK, FetchOptional, Goto, OnlyCells,
       OnScreen, Loaded, FetchStep, UpdateStep
<1>7. CASE FetchSalvage(d)
  <2>1. TypeOK'
    BY <1>7, <1>2, StepType, StoredType DEF IInv, TypeOK, FetchSalvage, Goto, Ends, tables, scratch,
       Busy, Screen, FetchStep, Part, Outcome, DidHaveSalvage, HasDate, HasAmount
  <2>2. CloseoutOf[projectID[d]] # NULL
    BY <1>7 DEF IInv, SelectedRows, OpenRows, Loaded, FetchSalvage, Goto
  <2>. QED
    BY <2>1, <2>2, <1>1, <1>7, StaysOpen DEF IInv, TypeOK, FetchSalvage, Goto,
       OnScreen, Loaded, FetchStep, UpdateStep
<1>8. CASE FetchFindsNoRow(d)
  <2>1. TypeOK'
    BY <1>8, StepType, ForgetType DEF IInv, TypeOK, FetchFindsNoRow, Ends, tables, Busy, Screen,
       Outcome
  <2>. QED
    BY <2>1, <1>1, <1>8, DropsRows DEF IInv, TypeOK, FetchFindsNoRow, Creating, HoldsSalvage,
       HoldsCloseout, OnScreen, CreateStep, FetchStep, UpdateStep
<1>. QED BY <1>3, <1>4, <1>5, <1>6, <1>7, <1>8 DEF Fetch

-----------------------------------------------------------------------------
(* Saving a project.                                                       *)

LEMMA SelectSalvageKeeps ==
  ASSUME IInv, NEW d \in Device, SelectSalvage(d)
  PROVE  IInv'
<1> DEFINE p == projectID[d]
           s == SalvageIn[CloseoutOf[p]]
<1>1. /\ pc[d] = "selectSalvage"
      /\ pc' = [pc EXCEPT ![d] = "updateSalvage"]
      /\ UNCHANGED <<tables, projectID, closeoutID>>
      /\ salvageID' = [salvageID EXCEPT ![d] = s]
      /\ CloseoutOf[p] # NULL /\ s # NULL
  BY DEF SelectSalvage, Goto, screen, SalvageOf
<1>2. p \in ProjectId /\ CloseoutOf[p] \in CloseoutId /\ s \in SalvageId
  BY <1>1, LinkType DEF IInv, TypeOK, SelectedRows, OpenRows, OnScreen, UpdateStep
<1>3. TypeOK'
  BY <1>1, <1>2, StepType DEF IInv, TypeOK, SelectSalvage, tables, screen, Busy, UpdateStep
<1>4. SameLinks /\ OthersStay(d)
  BY <1>1, NoTableNoLink DEF IInv, TypeOK, OthersStay, tables
<1>5. ~Creating(d)' /\ ~HoldsSalvage(d)' /\ ~HoldsCloseout(d)'
  BY <1>1 DEF IInv, TypeOK, Creating, HoldsSalvage, HoldsCloseout, CreateStep
<1>6. LinksSound' /\ OwnRows'
  BY <1>4, <1>5, SameLinksSound, OthersKeepRows DEF IInv
<1>7. OpenRows'
  BY <1>1, <1>4 DEF IInv, TypeOK, SelectedRows, OpenRows, SameLinks, OnScreen, Loaded, UpdateStep
<1>8. SelectedCloseout'
  BY <1>1, <1>4 DEF IInv, TypeOK, SelectedRows, SelectedCloseout, SameLinks
<1>9. SelectedSalvage'
  <2>1. /\ salvagevalue[s] # NULL
        /\ \A k \in CloseoutId : SalvageIn[k] = s => k = CloseoutOf[p]
    BY <1>1, <1>2 DEF IInv, LinksSound
  <2>2. \A e \in Device : HoldsSalvage(e) => salvageID[e] # s
    BY <1>2 DEF IInv, OwnRows, OwnSalvages
  <2>3. \A e \in Device : HoldsSalvage(e)' => HoldsSalvage(e) /\ salvageID'[e] = salvageID[e]
    BY <1>1 DEF IInv, TypeOK, HoldsSalvage
  <2>4. salvageID'[d] = s /\ projectID'[d] = p
    BY <1>1 DEF IInv, TypeOK
  <2>5. \A e \in Device \ {d} : pc'[e] = pc[e] /\ salvageID'[e] = salvageID[e]
    BY <1>4 DEF OthersStay
  <2> HIDE DEF p, s
  <2>. QED
    BY <2>1, <2>2, <2>3, <2>4, <2>5, <1>1, <1>4, LinkType
       DEF IInv, TypeOK, SelectedRows, SelectedSalvage, SameLinks, tables
<1>. QED BY <1>3, <1>6, <1>7, <1>8, <1>9 DEF IInv, SelectedRows

LEMMA SelectLinkKeeps ==
  ASSUME IInv, NEW d \in Device, SelectLink(d)
  PROVE  IInv'
<1>1. /\ pc[d] = "selectLink"
      /\ pc' = [pc EXCEPT ![d] = "linkSalvage"]
      /\ UNCHANGED <<tables, projectID, salvageID>>
      /\ closeoutID' = [closeoutID EXCEPT ![d] = CloseoutOf[projectID[d]]]
  BY DEF SelectLink, Goto, screen
<1>2. CloseoutOf[projectID[d]] \in CloseoutId
  BY <1>1, LinkType DEF IInv, TypeOK, SelectedRows, OpenRows, OnScreen, Loaded, UpdateStep
<1>3. TypeOK'
  BY <1>1, <1>2, StepType DEF IInv, TypeOK, SelectLink, tables, screen, Busy, UpdateStep
<1>4. SameLinks
  BY <1>1, NoTableNoLink DEF tables
<1>5. LinksSound'
  BY <1>4, SameLinksSound DEF IInv
<1>6. \A e \in Device :
        /\ Creating(e)' => Creating(e)
        /\ HoldsSalvage(e)' => HoldsSalvage(e)
        /\ HoldsCloseout(e)' => HoldsCloseout(e) /\ closeoutID'[e] = closeoutID[e]
  BY <1>1 DEF IInv, TypeOK, Creating, HoldsSalvage, HoldsCloseout, CreateStep
<1>7. OwnProjects'
  BY <1>1, <1>4, <1>6 DEF IInv, OwnRows, OwnProjects, SameLinks, tables
<1>8. OwnSalvages'
  BY <1>1, <1>4, <1>6 DEF IInv, OwnRows, OwnSalvages, SameLinks, tables
<1>9. OwnCloseouts'
  BY <1>1, <1>4, <1>6 DEF IInv, OwnRows, OwnCloseouts, SameLinks, tables
<1>10. OpenRows' /\ SelectedCloseout'
  BY <1>1, <1>4 DEF IInv, TypeOK, SelectedRows, OpenRows, SelectedCloseout, SameLinks, OnScreen,
     Loaded, UpdateStep
<1>11. SelectedSalvage'
  <2>1. \A e \in Device : pc'[e] = "updateSalvage" => pc[e] = "updateSalvage"
    BY <1>1 DEF IInv, TypeOK
  <2>. QED
    BY <2>1, <1>1, <1>4, <1>6 DEF IInv, SelectedRows, SelectedSalvage, SameLinks, tables
<1>. QED
  BY <1>3, <1>5, <1>7, <1>8, <1>9, <1>10, <1>11 DEF IInv, OwnRows, SelectedRows

LEMMA LinkSalvageKeeps ==
  ASSUME IInv, NEW d \in Device, LinkSalvage(d)
  PROVE  IInv'
<1> DEFINE s == salvageID[d]
           k == closeoutID[d]
<1>1. /\ pc[d] = "linkSalvage"
      /\ pc' = [pc EXCEPT ![d] = "selectCloseout"]
      /\ UNCHANGED <<project, salvagevalue, projectID, salvageID, closeoutID>>
      /\ closeoutdetails' =
           [closeoutdetails EXCEPT ![k] = [closeoutdetails[k] EXCEPT !.salvageValue_id = s]]
  BY DEF LinkSalvage, Goto, WroteRow, otherThanCloseout, screen, scratch
<1>2. HoldsSalvage(d)
  BY <1>1 DEF HoldsSalvage
<1>3. /\ s \in SalvageId /\ s # NULL /\ salvagevalue[s] # NULL
      /\ \A l \in CloseoutId : SalvageIn[l] # s
      /\ \A e \in Device \ {d} : HoldsSalvage(e) => salvageID[e] # s
      /\ \A e \in Device : pc[e] = "updateSalvage" => salvageID[e] # s
  BY <1>2 DEF IInv, TypeOK, OwnRows, OwnSalvages, SelectedRows, SelectedSalvage
<1>4. k = CloseoutOf[projectID[d]] /\ k # NULL /\ k \in CloseoutId /\ projectID[d] \in ProjectId
  BY <1>1, LinkType DEF IInv, TypeOK, SelectedRows, OpenRows, SelectedCloseout, OnScreen, Loaded,
     UpdateStep
<1>5. closeoutdetails[k] \in CloseoutRow /\ closeoutdetails[k] # NULL
  BY <1>4 DEF IInv, TypeOK, LinksSound
<1> HIDE DEF s, k
<1>6. [closeoutdetails[k] EXCEPT !.salvageValue_id = s] \in CloseoutRow
  BY <1>3, <1>5 DEF CloseoutRow
<1>7. TypeOK'
  <2>1. closeoutdetails' \in [CloseoutId -> CloseoutRow \cup {NULL}]
    BY <1>1, <1>6 DEF IInv, TypeOK
  <2>. QED
    BY <2>1, <1>1, StepType, TouchType DEF IInv, TypeOK, LinkSalvage, WroteRow,
       otherThanCloseout, screen, scratch, Busy, UpdateStep
<1>8. /\ closeoutdetails'[k] # NULL
      /\ \A l \in CloseoutId : closeoutdetails[l] # NULL => closeoutdetails'[l] # NULL
      /\ CloseoutOf' = CloseoutOf
      /\ SalvageIn' = [SalvageIn EXCEPT ![k] = s]
  <2>1. closeoutdetails'[k] # NULL /\ closeoutdetails'[k].salvageValue_id = s
    BY <1>1, <1>4, <1>5, <1>6, RowAssumption DEF IInv, TypeOK, CloseoutRow
  <2>2. \A l \in CloseoutId \ {k} : closeoutdetails'[l] = closeoutdetails[l]
    BY <1>1 DEF IInv, TypeOK
  <2>3. \A l \in CloseoutId : closeoutdetails[l] # NULL => closeoutdetails'[l] # NULL
    BY <2>1, <2>2
  <2>4. SalvageIn' = [l \in CloseoutId |-> IF l = k THEN s ELSE SalvageIn[l]]
    BY <2>1, <2>2 DEF SalvageIn
  <2>5. SalvageIn' = [SalvageIn EXCEPT ![k] = s]
    BY <1>4, <2>4 DEF SalvageIn
  <2>. QED BY <1>1, <2>1, <2>3, <2>5 DEF CloseoutOf
<1>9. LinksSound'
  BY <1>1, <1>3, <1>8, LinkType DEF IInv, LinksSound
<1>10. \A e \in Device :
         /\ Creating(e)' => Creating(e)
         /\ HoldsSalvage(e)' => HoldsSalvage(e) /\ e # d
         /\ HoldsCloseout(e)' => HoldsCloseout(e)
         /\ pc'[e] = "updateSalvage" => pc[e] = "updateSalvage"
  BY <1>1 DEF IInv, TypeOK, Creating, HoldsSalvage, HoldsCloseout, CreateStep
<1>11. OwnProjects'
  BY <1>1, <1>8, <1>10 DEF IInv, OwnRows, OwnProjects
<1>12. OwnSalvages'
  BY <1>1, <1>3, <1>8, <1>10, LinkType DEF IInv, OwnRows, OwnSalvages
<1>13. OwnCloseouts'
  BY <1>1, <1>8, <1>10 DEF IInv, TypeOK, OwnRows, OwnCloseouts
<1>14. OpenRows' /\ SelectedCloseout'
  BY <1>1, <1>8 DEF IInv, TypeOK, SelectedRows, OpenRows, SelectedCloseout, OnScreen, Loaded,
     FetchStep, UpdateStep
<1>15. SelectedSalvage'
  BY <1>1, <1>3, <1>8, <1>10, LinkType DEF IInv, SelectedRows, SelectedSalvage
<1>. QED
  BY <1>7, <1>9, <1>11, <1>12, <1>13, <1>14, <1>15 DEF IInv, OwnRows, SelectedRows

LEMMA SelectCloseoutKeeps ==
  ASSUME IInv, NEW d \in Device, SelectCloseout(d)
  PROVE  IInv'
<1>1. /\ pc[d] = "selectCloseout"
      /\ pc' = [pc EXCEPT ![d] = "updateCloseout"]
      /\ UNCHANGED <<tables, projectID, salvageID>>
      /\ closeoutID' = [closeoutID EXCEPT ![d] = CloseoutOf[projectID[d]]]
  BY DEF SelectCloseout, Goto, screen
<1>2. CloseoutOf[projectID[d]] \in CloseoutId
  BY <1>1, LinkType DEF IInv, TypeOK, SelectedRows, OpenRows, OnScreen, Loaded, UpdateStep
<1>3. TypeOK'
  BY <1>1, <1>2, StepType DEF IInv, TypeOK, SelectCloseout, tables, screen, Busy, UpdateStep
<1>4. SameLinks /\ OthersStay(d)
  BY <1>1, NoTableNoLink DEF IInv, TypeOK, OthersStay, tables
<1>5. ~Creating(d)' /\ ~HoldsSalvage(d)' /\ ~HoldsCloseout(d)'
  BY <1>1 DEF IInv, TypeOK, Creating, HoldsSalvage, HoldsCloseout, CreateStep
<1>6. LinksSound' /\ OwnRows'
  BY <1>4, <1>5, SameLinksSound, OthersKeepRows DEF IInv
<1>7. OpenRows' /\ SelectedCloseout'
  BY <1>1, <1>4 DEF IInv, TypeOK, SelectedRows, OpenRows, SelectedCloseout, SameLinks, OnScreen,
     Loaded, UpdateStep
<1>8. SelectedSalvage'
  <2>1. \A e \in Device : /\ pc'[e] = "updateSalvage" => pc[e] = "updateSalvage"
                          /\ HoldsSalvage(e)' => HoldsSalvage(e)
    BY <1>1 DEF IInv, TypeOK, HoldsSalvage
  <2>. QED
    BY <2>1, <1>1, <1>4 DEF IInv, SelectedRows, SelectedSalvage, SameLinks, tables
<1>. QED BY <1>3, <1>6, <1>7, <1>8 DEF IInv, SelectedRows

LEMMA UpdateCloseoutKeeps ==
  ASSUME IInv, NEW d \in Device, UpdateCloseout(d)
  PROVE  IInv'
<1> DEFINE k == closeoutID[d]
           v == cellArray[d].closeout
<1>1. /\ pc[d] = "updateCloseout"
      /\ pc' = [pc EXCEPT ![d] = "viewing"]
      /\ UNCHANGED <<project, salvagevalue, projectID>>
      /\ closeoutdetails' =
           [closeoutdetails EXCEPT ![k] = [closeoutdetails[k] EXCEPT !.details = v]]
      /\ salvageID' = [salvageID EXCEPT ![d] = NULL]
      /\ closeoutID' = [closeoutID EXCEPT ![d] = NULL]
  BY DEF UpdateCloseout, Goto, ClearIds, otherThanCloseout, screen
<1>2. v \in Contents
  BY CellType DEF IInv
<1>3. k = CloseoutOf[projectID[d]] /\ k # NULL /\ k \in CloseoutId /\ projectID[d] \in ProjectId
  BY <1>1, LinkType DEF IInv, TypeOK, SelectedRows, OpenRows, SelectedCloseout, OnScreen, Loaded,
     UpdateStep
<1>4. closeoutdetails[k] \in CloseoutRow /\ closeoutdetails[k] # NULL
  BY <1>3 DEF IInv, TypeOK, LinksSound
<1> HIDE DEF k, v
<1>5. [closeoutdetails[k] EXCEPT !.details = v] \in CloseoutRow
  BY <1>2, <1>4 DEF CloseoutRow
<1>6. TypeOK'
  <2>1. closeoutdetails' \in [CloseoutId -> CloseoutRow \cup {NULL}]
    BY <1>1, <1>5 DEF IInv, TypeOK
  <2>. QED
    BY <2>1, <1>1, StepType, TouchType DEF IInv, TypeOK, UpdateCloseout, Ends,
       otherThanCloseout, screen, Screen, Outcome
<1>7. SameLinks
  <2>1. closeoutdetails'[k] # NULL
        /\ closeoutdetails'[k].salvageValue_id = closeoutdetails[k].salvageValue_id
    BY <1>1, <1>3, <1>4, <1>5, RowAssumption DEF IInv, TypeOK, CloseoutRow
  <2>2. \A l \in CloseoutId \ {k} : closeoutdetails'[l] = closeoutdetails[l]
    BY <1>1 DEF IInv, TypeOK
  <2>3. SalvageIn' = SalvageIn
    BY <2>1, <2>2, <1>4 DEF SalvageIn
  <2>. QED BY <1>1, <1>4, <2>1, <2>2, <2>3 DEF SameLinks, CloseoutOf
<1>8. LinksSound' /\ OwnRows' /\ SelectedRows'
  BY <1>1, <1>3, <1>7, StaysOpen DEF IInv, TypeOK, OthersStay, OnScreen, UpdateStep
<1>. QED BY <1>6, <1>8 DEF IInv

LEMMA UpdateKeeps ==
  ASSUME IInv, NEW d \in Device, Update(d)
  PROVE  IInv'
<1>1. pc[d] \in UpdateStep => /\ projectID[d] \in ProjectId
                              /\ project[projectID[d]] # NULL
                              /\ CloseoutOf[projectID[d]] # NULL
                              /\ pc[d] \in OnScreen
  BY DEF IInv, TypeOK, SelectedRows, OpenRows, OnScreen, Loaded
<1>2. CASE UpdateProject(d)
  <2> DEFINE p == projectID[d]
             row == [required |-> cellArray[d].required, optional |-> cellArray[d].optional,
                     closeoutDetails_id |-> CloseoutOf[p]]
  <2>1. /\ pc[d] = "updateProject"
        /\ pc' = [pc EXCEPT ![d] = "updateManager"]
        /\ UNCHANGED <<otherThanProject, screen, scratch, outcome>>
        /\ project' = [project EXCEPT ![p] = row]
    BY <1>1, <1>2 DEF UpdateProject, Goto, Overwrite, WroteRow, UpdateStep
  <2>2. p \in ProjectId /\ project[p] # NULL /\ CloseoutOf[p] # NULL /\ pc[d] \in OnScreen
    BY <1>1, <2>1 DEF UpdateStep
  <2>3. row \in ProjectRow /\ row.closeoutDetails_id = CloseoutOf[p]
    BY <2>2, CellType, LinkType DEF IInv, ProjectRow
  <2> HIDE DEF p, row
  <2>4. TypeOK'
    <3>1. project' \in [ProjectId -> ProjectRow \cup {NULL}]
      BY <2>1, <2>3 DEF IInv, TypeOK
    <3>. QED
      BY <3>1, <1>2, <2>1, StepType, TouchType DEF IInv, TypeOK, UpdateProject, WroteRow,
         otherThanProject, screen, scratch, Busy, UpdateStep
  <2>5. SameLinks
    <3>1. project'[p] # NULL /\ project'[p].closeoutDetails_id = CloseoutOf[p]
      BY <2>1, <2>2, <2>3, RowAssumption DEF IInv, TypeOK, ProjectRow
    <3>2. \A q \in ProjectId \ {p} : project'[q] = project[q]
      BY <2>1 DEF IInv, TypeOK
    <3>3. CloseoutOf' = CloseoutOf
      BY <3>1, <3>2, <2>2 DEF CloseoutOf
    <3>. QED BY <2>1, <2>2, <3>1, <3>2, <3>3 DEF SameLinks, SalvageIn, otherThanProject
  <2>6. LinksSound' /\ OwnRows' /\ SelectedRows'
    BY <2>1, <2>2, <2>5, StaysOpen
       DEF IInv, TypeOK, OthersStay, OnScreen, UpdateStep, screen, scratch, p
  <2>. QED BY <2>4, <2>6 DEF IInv
<1>3. CASE UpdateManager(d)
  <2>1. TypeOK'
    BY <1>3, StepType, CellType, TouchType DEF IInv, TypeOK, UpdateManager, Goto, Overwrite,
       WroteRow, screen, scratch, otherThanManagers, Busy, UpdateStep
  <2>2. SameLinks /\ OthersStay(d)
    BY <1>3, NoTableNoLink DEF IInv, TypeOK, UpdateManager, Goto, OthersStay, WroteRow, screen,
       scratch, otherThanManagers
  <2>3. LinksSound' /\ OwnRows' /\ SelectedRows'
    BY <1>3, <1>1, <2>2, StaysOpen DEF IInv, TypeOK, UpdateManager, Goto, WroteRow, screen,
       OnScreen, UpdateStep
  <2>. QED BY <2>1, <2>3 DEF IInv
<1>4. CASE UpdateSupervisor(d)
  <2>1. TypeOK'
    BY <1>4, StepType, CellType, TouchType DEF IInv, TypeOK, UpdateSupervisor, Overwrite,
       WroteRow, screen, scratch, otherThanSupervisors, Busy, UpdateStep
  <2>2. SameLinks /\ OthersStay(d)
    BY <1>4, NoTableNoLink DEF IInv, TypeOK, UpdateSupervisor, OthersStay, WroteRow, screen,
       scratch, otherThanSupervisors
  <2>3. LinksSound' /\ OwnRows' /\ SelectedRows'
    BY <1>4, <1>1, <2>2, StaysOpen DEF IInv, TypeOK, UpdateSupervisor, WroteRow, screen,
       OnScreen, UpdateStep
  <2>. QED BY <2>1, <2>3 DEF IInv
<1>5. CASE UpdateSalvage(d)
  <2>1. TypeOK'
    BY <1>5, StepType, CellType, TouchType DEF IInv, TypeOK, UpdateSalvage, Goto, Overwrite,
       WroteRow, screen, scratch, otherThanSalvage, Busy, UpdateStep
  <2>2. \A s \in SalvageId : salvagevalue'[s] = NULL <=> salvagevalue[s] = NULL
    BY <1>5, CellType, ValueAssumption DEF IInv, TypeOK, UpdateSalvage, Overwrite
  <2>3. SameLinks
    BY <1>5, <2>2 DEF SameLinks, UpdateSalvage, otherThanSalvage, CloseoutOf, SalvageIn
  <2>4. LinksSound' /\ OwnRows' /\ SelectedRows'
    BY <1>5, <1>1, <2>3, StaysOpen DEF IInv, TypeOK, UpdateSalvage, Goto, OthersStay, WroteRow,
       screen, scratch, OnScreen, UpdateStep
  <2>. QED BY <2>1, <2>4 DEF IInv
<1>. QED
  BY <1>2, <1>3, <1>4, <1>5, SelectSalvageKeeps, NewSalvageKeeps, SelectLinkKeeps, LinkSalvageKeeps,
     SelectCloseoutKeeps, UpdateCloseoutKeeps DEF Update

-----------------------------------------------------------------------------
(* The user, failures and crashes write nothing.                           *)

LEMMA OpenProjectKeeps ==
  ASSUME IInv, NEW d \in Device, OpenProject(d)
  PROVE  IInv'
<1>1. PICK p \in ProjectId : project[p] # NULL /\ projectID' = [projectID EXCEPT ![d] = p]
  BY DEF OpenProject
<1>2. /\ pc' = [pc EXCEPT ![d] = "fetchRequired"]
      /\ UNCHANGED <<tables, salvageID, closeoutID>>
  BY DEF OpenProject, Goto, scratch
<1>3. TypeOK'
  BY <1>1, <1>2, StepType DEF IInv, TypeOK, OpenProject, Ends, tables, scratch, Busy, FetchStep,
     Outcome
<1>4. SameLinks /\ OthersStay(d)
  BY <1>1, <1>2, NoTableNoLink DEF IInv, TypeOK, OthersStay, tables
<1>5. /\ ~Creating(d)' /\ ~HoldsSalvage(d)' /\ ~HoldsCloseout(d)'
      /\ pc'[d] \notin {"linkSalvage", "updateSalvage", "updateCloseout"} \cup Loaded
  BY <1>2 DEF IInv, TypeOK, Creating, HoldsSalvage, HoldsCloseout, CreateStep, Loaded, UpdateStep
<1>6. OpenRows'
  BY <1>1, <1>4, <1>5, ValueAssumption DEF IInv, TypeOK, SelectedRows, OpenRows, SameLinks,
     OthersStay
<1>. QED
  BY <1>3, <1>4, <1>5, <1>6, SameLinksSound, OthersKeepRows, OthersKeepIds DEF IInv, SelectedRows

LEMMA UserKeeps ==
  ASSUME IInv, NEW d \in Device, User(d)
  PROVE  IInv'
<1>1. SameLinks
  BY NoTableNoLink DEF User, OpenForm, FillForm, SaveForm, RefuseForm, OpenProject, EditProject,
     ChangeCells, SaveProject, Leave, Launch, tables
<1>2. OthersStay(d)
  BY DEF IInv, TypeOK, OthersStay, User, OpenForm, FillForm, SaveForm, RefuseForm, OpenProject,
     EditProject, ChangeCells, SaveProject, Leave, Launch, Goto, Forget, ClearIds, screen, scratch
<1>3. CASE OpenForm(d)
  <2>1. TypeOK'
    BY <1>3, StepType, ForgetType DEF IInv, TypeOK, OpenForm, Goto, Ends, tables, Screen, Outcome
  <2>. QED
    BY <2>1, <1>1, <1>2, <1>3, DropsRows DEF IInv, TypeOK, OpenForm, Goto, Creating, HoldsSalvage,
       HoldsCloseout, CreateStep, OnScreen, FetchStep, UpdateStep
<1>4. CASE FillForm(d)
  <2>1. TypeOK'
    BY <1>4, CellsType DEF IInv, TypeOK, FillForm, Ends, tables, scratch, Outcome
  <2>. QED
    BY <2>1, <1>1, <1>2, <1>4, DropsRows DEF IInv, FillForm, Creating, HoldsSalvage,
       HoldsCloseout, CreateStep, OnScreen, FetchStep, UpdateStep
<1>5. CASE SaveForm(d)
  <2>1. TypeOK'
    BY <1>5, StepType DEF IInv, TypeOK, SaveForm, Goto, Ends, tables, scratch, Busy, CreateStep,
       Outcome
  <2>. QED
    BY <2>1, <1>1, <1>2, <1>5, DropsRows DEF IInv, TypeOK, SaveForm, Goto, Creating, HoldsSalvage,
       HoldsCloseout, CreateStep, OnScreen, FetchStep, UpdateStep
<1>6. CASE RefuseForm(d)
  <2>1. TypeOK'
    BY <1>6 DEF IInv, TypeOK, RefuseForm, Ends, tables, screen, scratch, Outcome
  <2>. QED
    BY <2>1, <1>1, <1>2, <1>6, DropsRows DEF IInv, RefuseForm, Creating, HoldsSalvage,
       HoldsCloseout, CreateStep, OnScreen, FetchStep, UpdateStep
<1>7. CASE EditProject(d)
  <2>1. TypeOK'
    BY <1>7, StepType DEF IInv, TypeOK, EditProject, Goto, Ends, tables, screen, scratch, Screen,
       Outcome
  <2>2. CloseoutOf[projectID[d]] # NULL
    BY <1>7 DEF IInv, SelectedRows, OpenRows, EditProject, Goto, Loaded
  <2>. QED
    BY <2>1, <2>2, <1>1, <1>2, <1>7, StaysOpen DEF IInv, TypeOK, EditProject, Goto, screen,
       OnScreen, FetchStep, UpdateStep
<1>8. CASE ChangeCells(d)
  <2>1. TypeOK'
    BY <1>8, CellsType DEF IInv, TypeOK, ChangeCells, tables, scratch
  <2>2. CloseoutOf[projectID[d]] # NULL
    BY <1>8 DEF IInv, SelectedRows, OpenRows, ChangeCells, Loaded
  <2>. QED
    BY <2>1, <2>2, <1>1, <1>2, <1>8, StaysOpen DEF IInv, ChangeCells, OnScreen, FetchStep,
       UpdateStep
<1>9. CASE SaveProject(d)
  <2>1. TypeOK'
    BY <1>9, StepType DEF IInv, TypeOK, SaveProject, Goto, tables, screen, scratch, Busy, UpdateStep
  <2>2. CloseoutOf[projectID[d]] # NULL
    BY <1>9 DEF IInv, SelectedRows, OpenRows, SaveProject, Goto, Loaded
  <2>. QED
    BY <2>1, <2>2, <1>1, <1>2, <1>9, StaysOpen DEF IInv, TypeOK, SaveProject, Goto, screen,
       OnScreen, UpdateStep
<1>10. CASE Leave(d)
  <2>1. TypeOK'
    BY <1>10, StepType, ForgetType DEF IInv, TypeOK, Leave, Ends, tables, Screen, Outcome
  <2>. QED
    BY <2>1, <1>1, <1>2, <1>10, DropsRows DEF IInv, TypeOK, Leave, Creating, HoldsSalvage,
       HoldsCloseout, CreateStep, OnScreen, FetchStep, UpdateStep
<1>11. CASE Launch(d)
  <2>1. TypeOK'
    BY <1>11, StepType DEF IInv, TypeOK, Launch, Goto, Ends, tables, screen, scratch, Screen,
       Outcome
  <2>. QED
    BY <2>1, <1>1, <1>2, <1>11, DropsRows DEF IInv, TypeOK, Launch, Goto, Creating, HoldsSalvage,
       HoldsCloseout, CreateStep, OnScreen, FetchStep, UpdateStep
<1>. QED
  BY <1>3, <1>4, <1>5, <1>6, <1>7, <1>8, <1>9, <1>10, <1>11, OpenProjectKeeps DEF User

LEMMA FailureKeeps ==
  ASSUME IInv, NEW d \in Device, Failure(d)
  PROVE  IInv'
<1>1. SameLinks
  BY NoTableNoLink DEF Failure, StatementRaises, UpdateFails, Kill, tables
<1>2. OthersStay(d)
  BY DEF IInv, TypeOK, OthersStay, Failure, StatementRaises, UpdateFails, Kill, Forget, ClearIds,
     screen
<1>3. CASE StatementRaises(d) \/ Kill(d)
  <2>1. TypeOK'
    BY <1>3, StepType, ForgetType DEF IInv, TypeOK, StatementRaises, Kill, Ends, tables, Screen,
       Outcome
  <2>2. pc' = [pc EXCEPT ![d] = "down"]
    BY <1>3 DEF StatementRaises, Kill
  <2>. QED
    BY <2>1, <2>2, <1>1, <1>2, DropsRows DEF IInv, TypeOK, Creating, HoldsSalvage, HoldsCloseout,
       CreateStep, OnScreen, FetchStep, UpdateStep
<1>4. CASE UpdateFails(d)
  <2>1. TypeOK'
    BY <1>4, StepType DEF IInv, TypeOK, UpdateFails, Ends, ClearIds, tables, screen, Screen, Outcome
  <2>2. CloseoutOf[projectID[d]] # NULL
    BY <1>4 DEF IInv, SelectedRows, OpenRows, UpdateFails, Loaded
  <2>. QED
    BY <2>1, <2>2, <1>1, <1>2, <1>4, StaysOpen DEF IInv, TypeOK, UpdateFails, screen, OnScreen,
       FetchStep, UpdateStep
<1>. QED BY <1>3, <1>4 DEF Failure

-----------------------------------------------------------------------------
LEMMA InitHolds == Init => IInv
<1>. SUFFICES ASSUME Init PROVE IInv
  OBVIOUS
<1>1. PICK first \in Value,
           rest \in Value \cup {Blank},
           co \in Injection(Existing, CloseoutId),
           sv \in Injection(Existing \ WithoutSalvage, SalvageId) :
        /\ project = [p \in ProjectId |->
             IF p \in Existing
             THEN [required |-> first, optional |-> rest, closeoutDetails_id |-> co[p]]
             ELSE NULL]
        /\ project_managers = [p \in ProjectId |-> IF p \in Existing THEN first ELSE NULL]
        /\ project_supervisors = project_managers
        /\ closeoutdetails = [k \in CloseoutId |->
             IF \E p \in Existing : co[p] = k
             THEN LET p == CHOOSE p \in Existing : co[p] = k IN
                  [details |-> rest,
                   salvageValue_id |-> IF p \in WithoutSalvage THEN NULL ELSE sv[p]]
             ELSE NULL]
        /\ salvagevalue = [s \in SalvageId |->
             IF \E p \in Existing \ WithoutSalvage : sv[p] = s
             THEN IF \E p \in Unpriced : sv[p] = s THEN Unset ELSE rest
             ELSE NULL]
  BY DEF Init
<1>2. /\ co \in [Existing -> CloseoutId]
      /\ sv \in [Existing \ WithoutSalvage -> SalvageId]
      /\ \A p, q \in Existing : co[p] = co[q] => p = q
      /\ \A p, q \in Existing \ WithoutSalvage : sv[p] = sv[q] => p = q
  BY DEF Injection, IsInjective
<1> DEFINE Owner(k) == CHOOSE p \in Existing : co[p] = k
<1>3. \A k \in CloseoutId : closeoutdetails[k] # NULL => Owner(k) \in Existing /\ co[Owner(k)] = k
  BY <1>1
<1> DEFINE SalvageRow(k) == IF Owner(k) \in WithoutSalvage THEN NULL ELSE sv[Owner(k)]
<1>4. \A k \in CloseoutId :
        closeoutdetails[k] \in {NULL, [details |-> rest, salvageValue_id |-> SalvageRow(k)]}
  BY <1>1
<1> HIDE DEF Owner
<1>5. TypeOK
  <2>1. project \in [ProjectId -> ProjectRow \cup {NULL}]
    BY <1>1, <1>2 DEF ProjectRow, Contents
  <2>2. /\ project_managers \in [ProjectId -> Contents \cup {NULL}]
        /\ project_supervisors \in [ProjectId -> Contents \cup {NULL}]
        /\ salvagevalue \in [SalvageId -> Contents \cup {NULL}]
    BY <1>1 DEF Contents
  <2>3. \A k \in CloseoutId : closeoutdetails[k] # NULL => SalvageRow(k) \in SalvageId \cup {NULL}
    BY <1>2, <1>3
  <2> HIDE DEF SalvageRow
  <2>4. \A k \in CloseoutId : closeoutdetails[k] \in CloseoutRow \cup {NULL}
    BY <1>4, <2>3 DEF CloseoutRow, Contents
  <2>5. closeoutdetails \in [CloseoutId -> CloseoutRow \cup {NULL}]
    BY <2>4, <1>1
  <2>6. BlankForm \in [Part -> Contents]
    BY DEF BlankForm, Contents
  <2>. QED BY <2>1, <2>2, <2>5, <2>6 DEF Init, TypeOK, Screen, Outcome
<1>6. \A p \in ProjectId : CloseoutOf[p] # NULL => p \in Existing /\ CloseoutOf[p] = co[p]
  BY <1>1 DEF CloseoutOf
<1>7. \A k \in CloseoutId : SalvageIn[k] # NULL =>
        /\ closeoutdetails[k] # NULL
        /\ Owner(k) \notin WithoutSalvage
        /\ SalvageIn[k] = sv[Owner(k)]
  BY <1>4, RowAssumption DEF SalvageIn
<1>8. LinksSound
  <2>1. \A p \in ProjectId : CloseoutOf[p] # NULL => closeoutdetails[CloseoutOf[p]] # NULL
    <3>. SUFFICES ASSUME NEW p \in ProjectId, CloseoutOf[p] # NULL
                  PROVE  closeoutdetails[co[p]] # NULL
      BY <1>6
    <3>1. p \in Existing /\ co[p] \in CloseoutId
      BY <1>2, <1>6
    <3>2. closeoutdetails[co[p]] = [details |-> rest, salvageValue_id |-> SalvageRow(co[p])]
      BY <1>1, <3>1 DEF Owner
    <3>3. SalvageRow(co[p]) \in SalvageId \cup {NULL}
      BY <1>2, <3>1 DEF Owner
    <3> HIDE DEF SalvageRow
    <3>. QED BY <3>2, <3>3, RowAssumption DEF Contents
  <2>2. \A p, q \in ProjectId : CloseoutOf[p] # NULL /\ CloseoutOf[p] = CloseoutOf[q] => p = q
    BY <1>2, <1>6
  <2>3. \A k \in CloseoutId : SalvageIn[k] # NULL => salvagevalue[SalvageIn[k]] # NULL
    <3>. SUFFICES ASSUME NEW k \in CloseoutId, SalvageIn[k] # NULL
                  PROVE  salvagevalue[sv[Owner(k)]] # NULL
      BY <1>7
    <3>1. Owner(k) \in Existing \ WithoutSalvage
      BY <1>3, <1>7
    <3>2. sv[Owner(k)] \in SalvageId
      BY <1>2, <3>1
    <3>3. salvagevalue[sv[Owner(k)]] \in {Unset, rest}
      BY <1>1, <3>1, <3>2
    <3>. QED BY <3>3, ValueAssumption DEF Contents
  <2>4. \A k, l \in CloseoutId : SalvageIn[k] # NULL /\ SalvageIn[k] = SalvageIn[l] => k = l
    BY <1>2, <1>3, <1>7
  <2>. QED BY <2>1, <2>2, <2>3, <2>4 DEF LinksSound
<1>9. OwnRows /\ SelectedRows
  BY DEF Init, OwnRows, OwnProjects, OwnSalvages, OwnCloseouts, SelectedRows, OpenRows,
     SelectedCloseout, SelectedSalvage, Creating, HoldsSalvage, HoldsCloseout, OnScreen, Loaded,
     CreateStep, FetchStep, UpdateStep
<1>. QED BY <1>5, <1>8, <1>9 DEF IInv

LEMMA NextKeeps == IInv /\ [Next]_vars => IInv'
<1>. SUFFICES ASSUME IInv, [Next]_vars PROVE IInv'
  OBVIOUS
<1>1. CASE Next
  <2>. PICK d \in Device : Create(d) \/ Fetch(d) \/ Update(d) \/ User(d) \/ Failure(d)
    BY <1>1 DEF Next
  <2>. QED
    BY CreateKeeps, FetchKeeps, UpdateKeeps, UserKeeps, FailureKeeps
<1>2. CASE UNCHANGED vars
  <2>1. UNCHANGED <<tables, pc, screen, scratch, outcome, touched>>
    BY <1>2 DEF vars
  <2>2. SameLinks
    BY <2>1, NoTableNoLink DEF tables
  <2>3. TypeOK'
    BY <2>1 DEF IInv, TypeOK, tables, screen, scratch
  <2>4. LinksSound'
    BY <2>2, SameLinksSound DEF IInv
  <2>5. OwnRows'
    BY <2>1, <2>2 DEF IInv, OwnRows, OwnProjects, OwnSalvages, OwnCloseouts, SameLinks, Creating,
       HoldsSalvage, HoldsCloseout, tables, screen, scratch
  <2>6. SelectedRows'
    BY <2>1, <2>2 DEF IInv, SelectedRows, OpenRows, SelectedCloseout, SelectedSalvage, SameLinks,
       HoldsSalvage, tables, screen, scratch
  <2>. QED BY <2>3, <2>4, <2>5, <2>6 DEF IInv
<1>. QED BY <1>1, <1>2

(* The invariant holds of every behaviour, whatever the constants.         *)
THEOREM Invariance == Spec => []IInv
<1>. QED BY InitHolds, NextKeeps, PTL DEF Spec

(* Every table, cell and id keeps to its type: no NULL id is ever used as  *)
(* the key of a row that a statement writes.                               *)
THEOREM TypeCorrect == Spec => []TypeOK
<1>1. IInv => TypeOK
  BY DEF IInv
<1>. QED BY <1>1, Invariance, PTL

(* No interleaving, failure or crash makes a link dangle or two projects   *)
(* share a closeout or a salvage row.                                      *)
THEOREM LinksAlwaysSound == Spec => []LinksSound
<1>1. IInv => LinksSound
  BY DEF IInv
<1>. QED BY <1>1, Invariance, PTL

(* A row that addNewProject or updateProjectWithID has inserted and not    *)
(* yet linked belongs to that save alone.                                  *)
THEOREM InsertedRowsAreOwned == Spec => []OwnRows
<1>1. IInv => OwnRows
  BY DEF IInv
<1>. QED BY <1>1, Invariance, PTL

(* What a device has opened stays, and the ids that updateProjectWithID    *)
(* selects stay those of its own project until they are used.              *)
THEOREM SelectedIdsStayValid == Spec => []SelectedRows
<1>1. IInv => SelectedRows
  BY DEF IInv
<1>. QED BY <1>1, Invariance, PTL
=============================================================================
