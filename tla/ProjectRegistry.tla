-------------------------- MODULE ProjectRegistry ---------------------------
(***************************************************************************)
(* What the project tables promise, with no tables, ids or devices: each   *)
(* project owns its six parts.  They are filled in a fixed order, and a    *)
(* part that is filled may be changed but never emptied.                   *)
(***************************************************************************)
CONSTANTS
  ProjectId,      \* the projects
  Contents,       \* what a part can hold
  NULL,           \* a part that is not there
  Existing,       \* the projects that are complete from the start
  WithoutSalvage  \* those of them that have no salvage information

Part == {"required", "manager", "supervisor", "optional", "closeout", "salvage"}

VARIABLE record   \* the parts of each project

Filled(p) == { part \in Part : record[p][part] # NULL }

Empty == [part \in Part |-> NULL]

Init ==
  /\ record \in [ProjectId -> [Part -> Contents \cup {NULL}]]
  /\ \A p \in ProjectId :
       Filled(p) = IF p \in WithoutSalvage THEN Part \ {"salvage"}
                   ELSE IF p \in Existing THEN Part
                   ELSE {}

(* Some parts of one project get new contents, everything else is as before. *)
Put(p, parts) ==
  /\ \A part \in parts : record'[p][part] \in Contents
  /\ \A part \in Part \ parts : record'[p][part] = record[p][part]
  /\ \A q \in ProjectId \ {p} : record'[q] = record[q]

(* Parts are filled together, and only on top of exactly the parts before. *)
Fill(p, before, parts) == Filled(p) = before /\ Put(p, parts)

Begin(p)            == Fill(p, {}, {"required", "optional"})
AssignManager(p)    == Fill(p, {"required", "optional"}, {"manager"})
AssignSupervisor(p) == Fill(p, {"required", "optional", "manager"}, {"supervisor"})
Finish(p)           == Fill(p, Part \ {"closeout", "salvage"}, {"closeout", "salvage"})
AddSalvage(p)       == Fill(p, Part \ {"salvage"}, {"salvage"})

(* Only a finished project changes, by the row that holds the parts.       *)
Change(p, parts) ==
  /\ Part \ {"salvage"} \subseteq Filled(p)
  /\ parts \subseteq Filled(p)
  /\ Put(p, parts)

Rows == { {"required", "optional"}, {"manager"}, {"supervisor"}, {"closeout"}, {"salvage"} }

Next == \E p \in ProjectId :
          /\ record' \in [ProjectId -> [Part -> Contents \cup {NULL}]]
          /\ record'[p] # record[p]
          /\ \/ Begin(p) \/ AssignManager(p) \/ AssignSupervisor(p) \/ Finish(p) \/ AddSalvage(p)
             \/ \E parts \in Rows : Change(p, parts)

Spec == Init /\ [][Next]_record
=============================================================================
