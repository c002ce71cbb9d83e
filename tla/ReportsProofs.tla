--------------------------- MODULE ReportsProofs ---------------------------
(***************************************************************************)
(* Proofs about Reports, for any number of projects: where the join by     *)
(* position is right, when the screen ends the application, and what the   *)
(* rows and the headers show.                                              *)
(***************************************************************************)
EXTENDS Reports, FunctionTheorems, FiniteSetTheorems, TLAPS

-----------------------------------------------------------------------------
(* Sequences and functions on 1..n. *)

LEMMA PartsOfSequence ==
    ASSUME NEW S, NEW s \in Seq(S)
    PROVE  Len(s) \in Nat /\ DOMAIN s = 1..Len(s) /\ \A i \in DOMAIN s : s[i] \in S
OBVIOUS

LEMMA FunctionIsSequence ==
    ASSUME NEW S, NEW n \in Nat, NEW f \in [1..n -> S]
    PROVE  f \in Seq(S) /\ Len(f) = n /\ DOMAIN f = 1..n
OBVIOUS

-----------------------------------------------------------------------------
(* The order of the rows. *)

\* Every set of projects is finite, and so are the projects before one of them.
LEMMA ProjectsFinite ==
    ASSUME NEW S \in SUBSET Ids, NEW p
    PROVE  /\ IsFiniteSet(S) /\ Cardinality(S) \in Nat
           /\ IsFiniteSet(Before(S, p)) /\ Cardinality(Before(S, p)) \in Nat
<1>1. IsFiniteSet(Ids)
  BY ReportAssumption, FS_Interval DEF Ids
<1>2. IsFiniteSet(S)
  BY <1>1, FS_Subset
<1>3. Before(S, p) \in SUBSET S
  BY DEF Before
<1>4. IsFiniteSet(Before(S, p))
  BY <1>2, <1>3, FS_Subset
<1> QED
  BY <1>2, <1>4, FS_CardinalityType

\* A later project has more before it.
LEMMA LaterHasMore ==
    ASSUME NEW S \in SUBSET Ids, NEW p \in S, NEW q \in S, p < q
    PROVE  Cardinality(Before(S, p)) < Cardinality(Before(S, q))
<1>1. p \in Int /\ q \in Int /\ \A r \in S : r \in Int
  BY ReportAssumption DEF Ids
<1>2. Before(S, p) \in SUBSET Before(S, q)
  <2>1. ASSUME NEW r \in Before(S, p) PROVE r \in Before(S, q)
    <3>1. r \in S /\ r \in Int /\ r < p
      BY <1>1 DEF Before
    <3>2. r < q
      BY <1>1, <3>1
    <3> QED
      BY <3>1, <3>2 DEF Before
  <2> QED
    BY <2>1
<1>3. p \in Before(S, q) /\ p \notin Before(S, p)
  BY <1>1 DEF Before
<1>4. /\ Cardinality(Before(S, p)) <= Cardinality(Before(S, q))
      /\ Cardinality(Before(S, q)) = Cardinality(Before(S, p)) => Before(S, q) = Before(S, p)
  BY <1>2, ProjectsFinite, FS_Subset
<1> QED
  BY <1>3, <1>4, ProjectsFinite

\* So projects with as many before them are one.
LEMMA RankIsInjective ==
    ASSUME NEW S \in SUBSET Ids, NEW p \in S, NEW q \in S,
           Cardinality(Before(S, p)) = Cardinality(Before(S, q))
    PROVE  p = q
<1>1. p \in Int /\ q \in Int
  BY ReportAssumption DEF Ids
<1>2. p < q \/ q < p \/ p = q
  BY <1>1
<1>3. Cardinality(Before(S, p)) \in Nat
  BY ProjectsFinite
<1>4. ~(p < q) /\ ~(q < p)
  BY <1>3, LaterHasMore
<1> QED
  BY <1>2, <1>4

\* A SELECT returns each of its rows once, the i-th with i - 1 before it.
LEMMA OrderOfRows ==
    ASSUME NEW S \in SUBSET Ids
    PROVE  /\ InOrder(S) \in [1..Cardinality(S) -> S]
           /\ InOrder(S) \in Seq(S) /\ Len(InOrder(S)) = Cardinality(S)
           /\ \A i \in 1..Cardinality(S) : Cardinality(Before(S, InOrder(S)[i])) = i - 1
           /\ \A p \in S : \E i \in 1..Cardinality(S) : InOrder(S)[i] = p
<1> DEFINE n == Cardinality(S)
           rank == [p \in S |-> Cardinality(Before(S, p))]
<1>1. n \in Nat /\ IsFiniteSet(S)
  BY ProjectsFinite
<1>2. ASSUME NEW p \in S PROVE Cardinality(Before(S, p)) \in 0..(n - 1)
  <2>1. p \in Int /\ ~(p < p)
    BY ReportAssumption DEF Ids
  <2>2. Before(S, p) \in SUBSET S /\ Before(S, p) # S
    BY <2>1 DEF Before
  <2>3. /\ Cardinality(Before(S, p)) <= n
        /\ n = Cardinality(Before(S, p)) => S = Before(S, p)
    BY <1>1, <2>2, FS_Subset
  <2>4. Cardinality(Before(S, p)) \in Nat
    BY ProjectsFinite
  <2> QED
    BY <1>1, <2>2, <2>3, <2>4
<1>3. rank \in Injection(S, 0..(n - 1))
  <2>1. rank \in [S -> 0..(n - 1)]
    BY <1>2
  <2>2. \A p, q \in S : rank[p] = rank[q] => p = q
    BY RankIsInjective
  <2> QED
    BY <2>1, <2>2, Fun_IsInj
<1>4. IsFiniteSet(0..(n - 1)) /\ Cardinality(0..(n - 1)) = n
  <2>1. 0 \in Int /\ n - 1 \in Int
    BY <1>1
  <2>2. /\ IsFiniteSet(0..(n - 1))
        /\ Cardinality(0..(n - 1)) = IF 0 > n - 1 THEN 0 ELSE (n - 1) - 0 + 1
    BY <2>1, FS_Interval
  <2> QED
    BY <1>1, <2>2
<1>5. rank \in Surjection(S, 0..(n - 1))
  BY <1>3, <1>4, FS_Injection
<1>6. \A k \in 0..(n - 1) : \E p \in S : rank[p] = k
  <2> HIDE DEF rank, n
  <2> QED
    BY <1>5 DEF Surjection
<1>7. ASSUME NEW i \in 1..n
      PROVE  InOrder(S)[i] \in S /\ Cardinality(Before(S, InOrder(S)[i])) = i - 1
  <2>1. i - 1 \in 0..(n - 1)
    BY <1>1
  <2>2. PICK p \in S : Cardinality(Before(S, p)) = i - 1
    BY <1>6, <2>1
  <2>3. InOrder(S)[i] = CHOOSE q \in S : Cardinality(Before(S, q)) = i - 1
    BY DEF InOrder
  <2> QED
    BY <2>2, <2>3
<1>8. InOrder(S) \in [1..n -> S]
  <2>1. InOrder(S) = [i \in 1..n |-> InOrder(S)[i]]
    BY DEF InOrder
  <2> QED
    BY <1>7, <2>1
<1>9. InOrder(S) \in Seq(S) /\ Len(InOrder(S)) = n
  BY <1>1, <1>8
<1>10. ASSUME NEW p \in S PROVE \E i \in 1..n : InOrder(S)[i] = p
  <2> DEFINE i == Cardinality(Before(S, p)) + 1
  <2>1. i \in 1..n /\ i - 1 = Cardinality(Before(S, p))
    BY <1>1, <1>2
  <2> HIDE DEF i
  <2>2. InOrder(S)[i] \in S /\ Cardinality(Before(S, InOrder(S)[i])) = Cardinality(Before(S, p))
    BY <1>7, <2>1
  <2>3. InOrder(S)[i] = p
    BY <2>2, RankIsInjective
  <2> QED
    BY <2>1, <2>3
<1> QED
  BY <1>7, <1>8, <1>9, <1>10

\* Rows that come after all others leave the others in their places.
LEMMA LaterRowsLast ==
    ASSUME NEW T \in SUBSET Ids, NEW S \in SUBSET T,
           \A p \in T \ S, q \in S : q < p
    PROVE  /\ Cardinality(S) <= Cardinality(T)
           /\ \A i \in 1..Cardinality(S) : InOrder(T)[i] = InOrder(S)[i]
<1>1. S \in SUBSET Ids
  OBVIOUS
<1>2. Cardinality(S) <= Cardinality(T) /\ Cardinality(S) \in Nat /\ Cardinality(T) \in Nat
  BY <1>1, ProjectsFinite, FS_Subset
<1>3. ASSUME NEW i \in 1..Cardinality(S) PROVE InOrder(T)[i] = InOrder(S)[i]
  <2> DEFINE p == InOrder(S)[i]
             r == InOrder(T)[i]
  <2>1. p \in S /\ Cardinality(Before(S, p)) = i - 1
    BY <1>1, OrderOfRows
  <2>2. i \in 1..Cardinality(T)
    BY <1>2
  <2>3. r \in T /\ Cardinality(Before(T, r)) = i - 1
    BY <2>2, OrderOfRows
  <2> HIDE DEF p, r
  <2>4. \A q \in T : q \in Int
    BY ReportAssumption DEF Ids
  <2>5. Before(T, p) = Before(S, p)
    BY <2>1, <2>4 DEF Before
  <2>6. p = r
    BY <2>1, <2>3, <2>5, RankIsInjective
  <2> QED
    BY <2>6 DEF p, r
<1> QED
  BY <1>2, <1>3

-----------------------------------------------------------------------------
(* The columns. *)

\* The branch that runs is the type that was asked for, refusals aside.
LEMMA BranchIsType ==
    ASSUME NEW r \in ReportNames, NEW t \in Types, ~Refused(r, t)
    PROVE  Branch(r, t) = t
BY DEF Branch, Refused, ReportNames, Types, ActiveOnly

\* Two reports apart, the headers are the cells.
LEMMA SameColumns ==
    ASSUME NEW r \in ReportNames, NEW t \in Types, ~Refused(r, t),
           r # "Repair", ~(r = "SouthEast" /\ t = "Active")
    PROVE  HeadersOf(r, t) = CellsOf(r, t)
<1> USE DEF HeadersOf, CellsOf, Branch, Heads, Cells, ActiveOnly, Types, Refused
<1>1. CASE r = "Weekly"
  BY <1>1 DEF WeeklyHeads, WeeklyCells
<1>2. CASE r = "SteveMeyer"
  BY <1>2 DEF SteveMeyerHeads, SteveMeyerCells
<1>3. CASE r = "SouthEast"
  BY <1>3 DEF SouthEastHeads, SouthEastCells
<1>4. CASE r = "NorthEast"
  BY <1>4 DEF NorthEastHeads, NorthEastCells
<1>5. CASE r = "JDempsey"
  BY <1>5 DEF JDempseyHeads, JDempseyCells
<1>6. CASE r = "Invoice"
  BY <1>6 DEF InvoiceHeads, InvoiceCells
<1>7. CASE r = "Completed"
  BY <1>7 DEF CompletedHeads, CompletedCells
<1>8. CASE r = "Construction"
  BY <1>8 DEF ConstructionHeads, ConstructionCells
<1> QED
  BY <1>1, <1>2, <1>3, <1>4, <1>5, <1>6, <1>7, <1>8 DEF ReportNames

\* The repair report has a header less than its rows have cells.
LEMMA RepairColumns ==
    ASSUME NEW t \in Types
    PROVE  Len(HeadersOf("Repair", t)) = 22 /\ Len(CellsOf("Repair", t)) = 23
<1>1. HeadersOf("Repair", t) = RepairHeads.Active /\ CellsOf("Repair", t) = Full
  BY DEF HeadersOf, CellsOf, Branch, Heads, Cells, ActiveOnly, RepairCells
<1>2. Len(RepairHeads.Active) = 22
  BY DEF RepairHeads
<1>3. Len(Full) = 23
  BY DEF Full
<1> QED
  BY <1>1, <1>2, <1>3

\* The active report of the south east has a header more.
LEMMA SouthEastColumns ==
    Len(HeadersOf("SouthEast", "Active")) = 11 /\ Len(CellsOf("SouthEast", "Active")) = 10
<1>1. HeadersOf("SouthEast", "Active") = Cooling
  BY DEF HeadersOf, Heads, ActiveOnly, SouthEastHeads
<1>2. CellsOf("SouthEast", "Active") = SouthEastCells.Active
  BY DEF CellsOf, Branch, Cells, ActiveOnly
<1>3. Len(Cooling) = 11
  BY DEF Cooling
<1>4. Len(SouthEastCells.Active) = 10
  BY DEF SouthEastCells
<1> QED
  BY <1>1, <1>2, <1>3, <1>4

\* How many cells a row has is a number.
LEMMA CellsAreCounted ==
    ASSUME NEW r \in ReportNames, NEW t \in Types, ~Refused(r, t)
    PROVE  Len(CellsOf(r, t)) \in Nat
<1>1. Len(Full) = 23
  BY DEF Full
<1>2. Len(Tender) = 15
  BY DEF Tender
<1>3. Len(Brief) = 4
  BY DEF Brief
<1>4. Len(Closing) = 23
  BY DEF Closing
<1>5. Len(Assigned) = 11
  BY DEF Assigned
<1>6. Len(Cooling) = 11
  BY DEF Cooling
<1>7. Len(Billing) = 9
  BY DEF Billing
<1>8. Len(SteveMeyerCells.Proposal) = 10
  BY DEF SteveMeyerCells
<1>9. Len(SouthEastCells.Active) = 10
  BY DEF SouthEastCells
<1>10. Len(SouthEastCells.Proposal) = 10
  BY DEF SouthEastCells
<1>11. Len(JDempseyCells.Proposal) = 10
  BY DEF JDempseyCells
<1>12. Len(CompletedCells.Active) = 14
  BY DEF CompletedCells
<1>13. /\ Branch(r, t) \in Types
       /\ r # "Weekly" => Branch(r, t) \in {"Active", "Proposal"}
       /\ r \in ActiveOnly => Branch(r, t) = "Active"
  BY DEF Branch, Types
<1>14. CASE r = "Weekly"
  <2>1. CellsOf(r, t) = WeeklyCells[Branch(r, t)]
    BY <1>14 DEF CellsOf, Cells
  <2> QED
    BY <1>1, <1>2, <1>3, <1>4, <1>13, <1>14, <2>1 DEF ActiveOnly, Types, WeeklyCells
<1>15. CASE r = "SteveMeyer"
  <2>1. CellsOf(r, t) = SteveMeyerCells[Branch(r, t)]
    BY <1>15 DEF CellsOf, Cells
  <2>2. SteveMeyerCells.Active = Assigned
    BY DEF SteveMeyerCells
  <2> QED
    BY <1>5, <1>8, <1>13, <1>15, <2>1, <2>2
<1>16. CASE r = "SouthEast"
  <2>1. CellsOf(r, t) = SouthEastCells[Branch(r, t)]
    BY <1>16 DEF CellsOf, Cells
  <2> QED
    BY <1>9, <1>10, <1>13, <1>16, <2>1 DEF ActiveOnly
<1>17. CASE r = "NorthEast"
  <2>1. CellsOf(r, t) = NorthEastCells[Branch(r, t)]
    BY <1>17 DEF CellsOf, Cells
  <2> QED
    BY <1>6, <1>13, <1>17, <2>1 DEF ActiveOnly, Types, NorthEastCells
<1>18. CASE r = "JDempsey"
  <2>1. CellsOf(r, t) = JDempseyCells[Branch(r, t)]
    BY <1>18 DEF CellsOf, Cells
  <2>2. JDempseyCells.Active = Assigned
    BY DEF JDempseyCells
  <2> QED
    BY <1>5, <1>11, <1>13, <1>18, <2>1, <2>2
<1>19. CASE r = "Invoice"
  <2>1. CellsOf(r, t) = InvoiceCells[Branch(r, t)]
    BY <1>19 DEF CellsOf, Cells
  <2> QED
    BY <1>7, <1>13, <1>19, <2>1 DEF ActiveOnly, Types, InvoiceCells
<1>20. CASE r = "Completed"
  <2>1. CellsOf(r, t) = CompletedCells[Branch(r, t)]
    BY <1>20 DEF CellsOf, Cells
  <2> QED
    BY <1>12, <1>13, <1>20, <2>1 DEF ActiveOnly
<1>21. CASE r = "Construction"
  <2>1. CellsOf(r, t) = ConstructionCells[Branch(r, t)]
    BY <1>21 DEF CellsOf, Cells
  <2> QED
    BY <1>1, <1>13, <1>21, <2>1 DEF ActiveOnly, Types, ConstructionCells
<1>22. CASE r = "Repair"
  <2>1. CellsOf(r, t) = RepairCells[Branch(r, t)]
    BY <1>22 DEF CellsOf, Cells
  <2> QED
    BY <1>1, <1>13, <1>22, <2>1 DEF ActiveOnly, Types, RepairCells
<1> QED
  BY <1>14, <1>15, <1>16, <1>17, <1>18, <1>19, <1>20, <1>21, <1>22 DEF ReportNames

\* One report has more headers than cells.
LEMMA NarrowReport ==
    ASSUME NEW r \in ReportNames, NEW t \in Types, ~Refused(r, t),
           Len(HeadersOf(r, t)) > Len(CellsOf(r, t))
    PROVE  r = "SouthEast" /\ t = "Active"
<1> DEFINE heads == Len(HeadersOf(r, t))
           cells == Len(CellsOf(r, t))
<1>1. heads > cells /\ cells \in Nat
  BY CellsAreCounted
<1>2. r = "Repair" => heads = 22 /\ cells = 23
  BY RepairColumns
<1>3. r # "Repair" /\ ~(r = "SouthEast" /\ t = "Active") => heads = cells
  BY SameColumns
<1> HIDE DEF heads, cells
<1> QED
  BY <1>1, <1>2, <1>3

-----------------------------------------------------------------------------
(* The inductive invariant. *)

\* Projects are created in the order of their ids.
NoGap ==
    \A p, q \in Ids : q < p /\ table[p].stage # "none" => table[q].stage # "none"

\* Past the criteria screen the criteria are ones that are not refused.
Accepted ==
    screen \notin {"criteria", "failed"} => report \in ReportNames /\ ~Refused(report, type)

\* What the first query found, and the rows, are of the stage asked for.
Titles ==
    /\ screen \in {"managers", "supervisors", "rows"} =>
         \A i \in DOMAIN results : results[i].stage = type
    /\ TitleTrue

Settled == screen \in {"managers", "supervisors", "rows"} /\ ~ragged /\ ~moved

\* The first query found a set of projects that have all their rows and are
\* still wanted; whatever else is wanted by now comes after them all.
FoundFirst(R) ==
    /\ Len(results) = Cardinality(R)
    /\ \A i \in DOMAIN results : results[i].id = InOrder(R)[i]
    /\ \A p \in R : Wanted(p) /\ table[p].has = Parts
    /\ \A p \in Ids \ R : Wanted(p) => \A q \in R : q < p
FirstFound == Settled => \E R \in SUBSET Ids : FoundFirst(R)

\* A people query covers the rows of the first query, each with its own person.
Aligned(people) ==
    /\ Len(results) <= Len(people)
    /\ \A i \in DOMAIN results : people[i] = results[i].id
Joined ==
    Settled =>
      /\ screen = "supervisors" => Aligned(managers)
      /\ screen = "rows" /\ WithPeople(report, type) => Aligned(managers) /\ Aligned(supervisors)

\* What is on the screen was wide enough to be drawn.
Fits == screen = "grid" => ~TooNarrow

ReportInv ==
    /\ TypeOK
    /\ NoGap
    /\ Accepted
    /\ Titles
    /\ FirstFound
    /\ Joined
    /\ OwnPeople
    /\ CrashesOnlyOnRaggedData
    /\ Fits

-----------------------------------------------------------------------------

\* The branch that runs is a type, and no project is wanted before it is created.
LEMMA WantedIsCreated ==
    ASSUME TypeOK, NEW p \in Ids, Wanted(p)
    PROVE  /\ Branch(report, type) \in Types
           /\ table[p].stage \in Stages /\ table[p].stage = Branch(report, type)
<1>1. Branch(report, type) \in Types
  BY DEF TypeOK, Branch, Types
<1>2. table[p].stage = Branch(report, type) /\ table[p].stage \in Stages \cup {"none"}
  BY DEF TypeOK, Wanted
<1>3. "none" \notin Types
  BY DEF Types
<1> QED
  BY <1>1, <1>2, <1>3

\* The criteria screen, leaving, failing and starting again.
LEMMA ScreensPreserve ==
    ASSUME ReportInv,
           \/ \E c \in Chosen : PickReport(c[1])
           \/ \E c \in Chosen : report \in {"none", c[1]} /\ Generate(c[2])
           \/ Back \/ QueryFails \/ Relaunch
    PROVE  ReportInv'
<1>1. \A c \in Chosen : c[1] \in ReportNames /\ c[2] \in Types
  BY ReportAssumption
<1>2. /\ table' = table
      /\ screen' \in {"criteria", "failed", "projects"}
      /\ report' \in ReportNames \cup {"none"} /\ type' \in Types
      /\ screen' = "projects" => report' # "none" /\ ~Refused(report', type')
      /\ (UNCHANGED queried /\ UNCHANGED <<grid, ragged, moved>>)
         \/ (results' = <<>> /\ managers' = <<>> /\ supervisors' = <<>> /\ grid' = <<>>
             /\ ragged' = FALSE /\ moved' = FALSE)
  <2>1. CASE \E c \in Chosen : PickReport(c[1])
    BY <1>1, <2>1 DEF PickReport, ReportInv, TypeOK
  <2>2. CASE \E c \in Chosen : report \in {"none", c[1]} /\ Generate(c[2])
    BY <1>1, <2>2 DEF Generate, ReportInv, TypeOK
  <2>3. CASE Back
    BY <2>3 DEF Back, criteria, ReportInv, TypeOK
  <2>4. CASE QueryFails
    BY <2>4 DEF QueryFails, criteria, queried, ReportInv, TypeOK
  <2>5. CASE Relaunch
    BY <2>5 DEF Relaunch, ReportInv, TypeOK, Types
  <2> QED
    BY <2>1, <2>2, <2>3, <2>4, <2>5
<1>3. TypeOK'
  <2>1. /\ <<>> \in Seq([id : Ids, stage : Stages])
        /\ <<>> \in Seq(Ids)
        /\ <<>> \in Seq([id : Ids, stage : Stages, manager : 0..MaxProjects,
                         supervisor : 0..MaxProjects])
    OBVIOUS
  <2>2. /\ results' \in Seq([id : Ids, stage : Stages])
        /\ managers' \in Seq(Ids) /\ supervisors' \in Seq(Ids)
        /\ ragged' \in BOOLEAN /\ moved' \in BOOLEAN
        /\ grid' \in Seq([id : Ids, stage : Stages, manager : 0..MaxProjects,
                          supervisor : 0..MaxProjects])
    BY <1>2, <2>1 DEF ReportInv, TypeOK, queried
  <2> QED
    BY <1>2, <2>2 DEF ReportInv, TypeOK, Screens, Loading
<1>4. NoGap'
  BY <1>2 DEF ReportInv, NoGap
<1>5. Accepted'
  BY <1>2 DEF Accepted
<1>6. Titles' /\ FirstFound' /\ Joined' /\ OwnPeople' /\ CrashesOnlyOnRaggedData' /\ Fits'
  BY <1>2 DEF Titles, TitleTrue, FirstFound, Settled, Joined, OwnPeople, Drawn,
              CrashesOnlyOnRaggedData, Fits
<1> QED
  BY <1>3, <1>4, <1>5, <1>6 DEF ReportInv

\* Other devices: new projects come last, and an edit that moves a project in or
\* out is remembered.
LEMMA WorldPreserves ==
    ASSUME ReportInv,
           \/ \E p \in Ids, s \in Stages, m \in Meets : CreateProject(p, s, m)
           \/ \E p \in Ids : InsertPart(p)
           \/ \E p \in Ids, s \in Stages, m \in Meets : EditProject(p, s, m)
    PROVE  ReportInv'
<1> USE DEF ReportInv
<1>1. UNCHANGED world /\ moved' \in BOOLEAN /\ (moved => moved')
  BY DEF CreateProject, InsertPart, EditProject, TypeOK
<1>2. "none" \notin Stages /\ Meets \subseteq BOOLEAN /\ \A p \in Ids : p \in Int
  BY ReportAssumption DEF Types, Ids
<1>3. table' \in [Ids -> [stage : Stages \cup {"none"}, meets : BOOLEAN, has : SUBSET Parts]]
  <2>1. ASSUME NEW p \in Ids, NEW s \in Stages, NEW m \in Meets, CreateProject(p, s, m)
        PROVE  table' \in [Ids -> [stage : Stages \cup {"none"}, meets : BOOLEAN, has : SUBSET Parts]]
    BY <1>2, <2>1 DEF CreateProject, TypeOK
  <2>2. ASSUME NEW p \in Ids, InsertPart(p)
        PROVE  table' \in [Ids -> [stage : Stages \cup {"none"}, meets : BOOLEAN, has : SUBSET Parts]]
    <3>1. PICK part \in Parts : table' = [table EXCEPT ![p].has = @ \cup {part}]
      BY <2>2 DEF InsertPart
    <3>2. [table[p] EXCEPT !.has = @ \cup {part}]
            \in [stage : Stages \cup {"none"}, meets : BOOLEAN, has : SUBSET Parts]
      BY DEF TypeOK
    <3> QED
      BY <3>1, <3>2 DEF TypeOK
  <2>3. ASSUME NEW p \in Ids, NEW s \in Stages, NEW m \in Meets, EditProject(p, s, m)
        PROVE  table' \in [Ids -> [stage : Stages \cup {"none"}, meets : BOOLEAN, has : SUBSET Parts]]
    <3>1. table' = [table EXCEPT ![p] = [table[p] EXCEPT !.stage = s, !.meets = m]]
      BY <2>3 DEF EditProject, TypeOK
    <3>2. [table[p] EXCEPT !.stage = s, !.meets = m]
            \in [stage : Stages \cup {"none"}, meets : BOOLEAN, has : SUBSET Parts]
      BY <1>2 DEF TypeOK
    <3> QED
      BY <3>1, <3>2 DEF TypeOK
  <2> QED
    BY <2>1, <2>2, <2>3
<1>4. TypeOK'
  BY <1>1, <1>3 DEF TypeOK, world, criteria, queried
<1>5. NoGap'
  <2>1. ASSUME NEW p \in Ids, NEW s \in Stages, NEW m \in Meets, CreateProject(p, s, m)
        PROVE  NoGap'
    BY <1>2, <2>1 DEF CreateProject, NoGap, TypeOK
  <2>2. ASSUME NEW p \in Ids, InsertPart(p) PROVE NoGap'
    <3>1. \A q \in Ids : table'[q].stage = table[q].stage
      BY <2>2 DEF InsertPart, TypeOK
    <3> QED
      BY <3>1 DEF NoGap
  <2>3. ASSUME NEW p \in Ids, NEW s \in Stages, NEW m \in Meets, EditProject(p, s, m)
        PROVE  NoGap'
    <3>1. \A q \in Ids : table'[q].stage # "none" <=> table[q].stage # "none"
      BY <1>2, <2>3 DEF EditProject, TypeOK
    <3> QED
      BY <3>1 DEF NoGap
  <2> QED
    BY <2>1, <2>2, <2>3
<1>6. ASSUME Settled', NEW R \in SUBSET Ids, FoundFirst(R), screen \in Loading
      PROVE  FoundFirst(R)'
  <2>1. UNCHANGED <<results, criteria>>
    BY <1>1 DEF world, queried
  <2>2. ASSUME NEW p \in Ids, NEW s \in Stages, NEW m \in Meets, CreateProject(p, s, m)
        PROVE  /\ \A q \in R : Wanted(q)' /\ table'[q].has = Parts
               /\ \A q \in Ids \ R : Wanted(q)' => \A o \in R : o < q
    <3>1. \A q \in R : q # p /\ table[q].stage # "none"
      BY <1>2, <1>6, <2>2, WantedIsCreated DEF CreateProject, FoundFirst
    <3>2. \A q \in Ids : q # p => table'[q] = table[q]
      BY <2>2 DEF CreateProject, TypeOK
    <3>3. \A q \in Ids : q # p => (Wanted(q)' <=> Wanted(q))
      BY <2>1, <3>2 DEF Wanted, criteria
    <3>4. \A o \in R : o < p
      BY <1>2, <2>2, <3>1 DEF CreateProject, NoGap
    <3> QED
      BY <1>6, <3>1, <3>2, <3>3, <3>4 DEF FoundFirst
  <2>3. ASSUME NEW p \in Ids, InsertPart(p)
        PROVE  /\ \A q \in R : Wanted(q)' /\ table'[q].has = Parts
               /\ \A q \in Ids \ R : Wanted(q)' => \A o \in R : o < q
    <3>1. \A q \in R : q # p
      BY <1>6, <2>3 DEF InsertPart, FoundFirst
    <3>2. \A q \in Ids : /\ table'[q].stage = table[q].stage /\ table'[q].meets = table[q].meets
                         /\ q # p => table'[q].has = table[q].has
      BY <2>3 DEF InsertPart, TypeOK
    <3>3. \A q \in Ids : Wanted(q)' <=> Wanted(q)
      BY <2>1, <3>2 DEF Wanted, criteria
    <3> QED
      BY <1>6, <3>1, <3>2, <3>3 DEF FoundFirst
  <2>4. ASSUME NEW p \in Ids, NEW s \in Stages, NEW m \in Meets, EditProject(p, s, m)
        PROVE  /\ \A q \in R : Wanted(q)' /\ table'[q].has = Parts
               /\ \A q \in Ids \ R : Wanted(q)' => \A o \in R : o < q
    <3>1. \A q \in Ids : /\ table'[q].has = table[q].has
                         /\ q # p => table'[q] = table[q]
      BY <2>4 DEF EditProject, TypeOK
    <3>2. Wanted(p)' <=> Wanted(p)
      BY <1>6, <2>4 DEF EditProject, Settled
    <3>3. \A q \in Ids : q # p => (Wanted(q)' <=> Wanted(q))
      BY <2>1, <3>1 DEF Wanted, criteria
    <3> QED
      BY <1>6, <3>1, <3>2, <3>3 DEF FoundFirst
  <2>5. /\ \A q \in R : Wanted(q)' /\ table'[q].has = Parts
        /\ \A q \in Ids \ R : Wanted(q)' => \A o \in R : o < q
    BY <2>2, <2>3, <2>4
  <2> QED
    BY <1>6, <2>1, <2>5 DEF FoundFirst
<1>7. FirstFound'
  <2>1. SUFFICES ASSUME Settled' PROVE \E R \in SUBSET Ids : FoundFirst(R)'
    BY DEF FirstFound
  <2>2. Settled /\ screen \in Loading
    BY <1>1, <2>1 DEF Settled, world, Loading
  <2>3. PICK R \in SUBSET Ids : FoundFirst(R)
    BY <2>2 DEF FirstFound
  <2> QED
    BY <1>6, <2>1, <2>2, <2>3
<1>8. Accepted' /\ Titles' /\ Fits' /\ OwnPeople' /\ CrashesOnlyOnRaggedData'
  BY <1>1 DEF Accepted, Titles, TitleTrue, Fits, TooNarrow, OwnPeople, CrashesOnlyOnRaggedData,
              MissesCell, Drawn, world, criteria, queried
<1>9. Joined'
  BY <1>1 DEF Joined, Settled, Aligned, world, criteria, queried
<1> QED
  BY <1>4, <1>5, <1>7, <1>8, <1>9

\* A people query covers the rows of the first: whatever it returns besides comes
\* after them.
LEMMA PeopleAreAligned ==
    ASSUME ReportInv, Settled, NEW part \in {"manager", "supervisor"}
    PROVE  Aligned(InOrder({p \in Ids : Wanted(p) /\ part \in table[p].has}))
<1> DEFINE T == {p \in Ids : Wanted(p) /\ part \in table[p].has}
<1>1. PICK R \in SUBSET Ids : FoundFirst(R)
  BY DEF ReportInv, FirstFound
<1>2. R \in SUBSET T
  BY <1>1 DEF FoundFirst, Parts
<1>3. T \in SUBSET Ids /\ \A p \in T \ R, q \in R : q < p
  BY <1>1 DEF FoundFirst
<1> HIDE DEF T
<1>4. /\ Cardinality(R) <= Cardinality(T)
      /\ \A i \in 1..Cardinality(R) : InOrder(T)[i] = InOrder(R)[i]
  BY <1>2, <1>3, LaterRowsLast
<1>5. Len(InOrder(T)) = Cardinality(T)
  BY <1>3, OrderOfRows
<1>6. DOMAIN results = 1..Len(results)
  BY DEF ReportInv, TypeOK
<1>7. Aligned(InOrder(T))
  BY <1>1, <1>4, <1>5, <1>6 DEF FoundFirst, Aligned
<1> QED
  BY <1>7 DEF T

\* The first query.
LEMMA QueryProjectsPreserves ==
    ASSUME ReportInv, QueryProjects
    PROVE  ReportInv'
<1> USE DEF ReportInv
<1>0. PICK found \in SUBSET Ids :
        found = {p \in Ids : Wanted(p) /\ (WithCloseout(report, type) =>
                                             "closeout" \in table[p].has)}
  OBVIOUS
<1> DEFINE n == Cardinality(found)
<1>1. /\ results' = [i \in 1..n |->
                       [id |-> InOrder(found)[i], stage |-> table[InOrder(found)[i]].stage]]
      /\ ragged' = (\E p \in Ids : Wanted(p) /\ table[p].has # Parts)
      /\ screen' = IF WithPeople(report, type) THEN "managers" ELSE "rows"
      /\ UNCHANGED <<table, report, type, managers, supervisors, grid, moved>>
      /\ screen = "projects"
  BY <1>0 DEF QueryProjects, criteria
<1>2. found \in SUBSET Ids /\ \A p \in found : Wanted(p)
  BY <1>0
<1>3. n \in Nat /\ n = Cardinality(found)
  BY <1>2, ProjectsFinite
<1>4. \A i \in 1..n : InOrder(found)[i] \in found
  BY <1>2, <1>3, OrderOfRows
<1>5. ~ragged' => \A p \in Ids : Wanted(p) => p \in found /\ table[p].has = Parts
  BY <1>0, <1>1 DEF Parts
<1> HIDE DEF n
<1>6. \A p \in found : p \in Ids /\ table[p].stage \in Stages
                       /\ table[p].stage = Branch(report, type)
  BY <1>2, WantedIsCreated
<1>7. results' \in [1..n -> [id : Ids, stage : Stages]]
  BY <1>1, <1>4, <1>6
<1>8. /\ results' \in Seq([id : Ids, stage : Stages])
      /\ Len(results') = n /\ DOMAIN results' = 1..n
  BY <1>3, <1>7, FunctionIsSequence
<1>9. TypeOK'
  <2>1. ragged' \in BOOLEAN
    BY <1>1
  <2> QED
    BY <1>1, <1>8, <2>1 DEF TypeOK, Screens, Loading
<1>10. NoGap' /\ Accepted'
  BY <1>1 DEF NoGap, Accepted
<1>11. Titles'
  <2>1. Branch(report, type) = type
    BY <1>1, BranchIsType DEF Accepted, TypeOK
  <2>2. \A i \in DOMAIN results' : results'[i].stage = type
    BY <1>1, <1>4, <1>6, <1>8, <2>1
  <2> QED
    BY <1>1, <2>2 DEF Titles, TitleTrue, Drawn
<1>12. FirstFound'
  <2>1. SUFFICES ASSUME Settled' PROVE FoundFirst(found)'
    BY <1>2 DEF FirstFound
  <2>2. \A p \in Ids : Wanted(p)' <=> Wanted(p)
    BY <1>1 DEF Wanted
  <2>3. \A p \in Ids \ found : ~Wanted(p)
    BY <1>5, <2>1 DEF Settled
  <2>4. \A p \in found : Wanted(p)' /\ table'[p].has = Parts
    BY <1>1, <1>2, <1>5, <2>1, <2>2 DEF Settled
  <2>5. \A i \in DOMAIN results' : results'[i].id = InOrder(found)[i]
    BY <1>1, <1>8
  <2> QED
    BY <1>3, <1>8, <2>2, <2>3, <2>4, <2>5 DEF FoundFirst
<1>13. Joined' /\ OwnPeople' /\ CrashesOnlyOnRaggedData' /\ Fits'
  BY <1>1 DEF Joined, OwnPeople, Drawn, CrashesOnlyOnRaggedData, Fits
<1> QED
  BY <1>9, <1>10, <1>11, <1>12, <1>13

\* The people queries.
LEMMA QueryPeoplePreserves ==
    ASSUME ReportInv, QueryManagers \/ QuerySupervisors
    PROVE  ReportInv'
<1> DEFINE Found(part) == InOrder({p \in Ids : Wanted(p) /\ part \in table[p].has})
<1> USE DEF ReportInv
<1>1. \/ /\ screen = "managers" /\ screen' = "supervisors"
         /\ managers' = Found("manager") /\ supervisors' = supervisors
      \/ /\ screen = "supervisors" /\ screen' = "rows"
         /\ supervisors' = Found("supervisor") /\ managers' = managers
  BY DEF QueryManagers, QuerySupervisors
<1>2. UNCHANGED <<table, report, type, results, grid, ragged, moved>>
  BY DEF QueryManagers, QuerySupervisors, criteria
<1>3. ASSUME NEW part \in {"manager", "supervisor"} PROVE Found(part) \in Seq(Ids)
  <2> DEFINE T == {p \in Ids : Wanted(p) /\ part \in table[p].has}
  <2>1. T \in SUBSET Ids
    OBVIOUS
  <2> HIDE DEF T
  <2>2. InOrder(T) \in Seq(T)
    BY <2>1, OrderOfRows
  <2>3. InOrder(T) \in Seq(Ids)
    BY <2>1, <2>2
  <2> QED
    BY <2>3 DEF T
<1>4. ASSUME NEW part \in {"manager", "supervisor"}, Settled PROVE Aligned(Found(part))
  BY <1>4, PeopleAreAligned
<1> HIDE DEF Found
<1>5. TypeOK'
  BY <1>1, <1>2, <1>3 DEF TypeOK, Screens, Loading
<1>6. NoGap' /\ Accepted' /\ Titles'
  BY <1>1, <1>2 DEF NoGap, Accepted, Titles, TitleTrue, Drawn
<1>7. Settled' => Settled
  BY <1>1, <1>2 DEF Settled
<1>8. FirstFound'
  BY <1>2, <1>7 DEF FirstFound, FoundFirst, Wanted
<1>9. Joined'
  <2>1. SUFFICES ASSUME Settled'
                 PROVE  /\ screen' = "supervisors" => Aligned(managers)'
                        /\ screen' = "rows" /\ WithPeople(report', type') =>
                             Aligned(managers)' /\ Aligned(supervisors)'
    BY DEF Joined
  <2>2. Aligned(Found("manager")) /\ Aligned(Found("supervisor"))
    BY <1>4, <1>7, <2>1
  <2>3. screen = "supervisors" => Aligned(managers)
    BY <1>7, <2>1 DEF Joined
  <2> QED
    BY <1>1, <1>2, <2>2, <2>3 DEF Aligned
<1>10. OwnPeople' /\ CrashesOnlyOnRaggedData' /\ Fits'
  BY <1>1 DEF OwnPeople, Drawn, CrashesOnlyOnRaggedData, Fits
<1> QED
  BY <1>5, <1>6, <1>8, <1>9, <1>10

\* The loop that joins the results.
LEMMA BuildRowsPreserves ==
    ASSUME ReportInv, BuildRows
    PROVE  ReportInv'
<1> USE DEF ReportInv
<1>1. /\ screen = "rows" /\ screen' = "draw"
      /\ ~(WithPeople(report, type) /\ Short)
      /\ grid' = [i \in DOMAIN results |->
                   [id |-> results[i].id, stage |-> results[i].stage,
                    manager |-> IF WithPeople(report, type) THEN managers[i] ELSE 0,
                    supervisor |-> IF WithPeople(report, type) THEN supervisors[i] ELSE 0]]
      /\ UNCHANGED <<table, report, type, results, managers, supervisors, ragged, moved>>
  BY DEF BuildRows, criteria, queried
<1>2. /\ Len(results) \in Nat /\ DOMAIN results = 1..Len(results)
      /\ \A i \in DOMAIN results : results[i] \in [id : Ids, stage : Stages]
  BY PartsOfSequence DEF TypeOK
<1>3. ASSUME WithPeople(report, type), NEW i \in DOMAIN results
      PROVE  managers[i] \in Ids /\ supervisors[i] \in Ids
  <2>1. /\ Len(managers) \in Nat /\ Len(supervisors) \in Nat
        /\ \A j \in 1..Len(managers) : managers[j] \in Ids
        /\ \A j \in 1..Len(supervisors) : supervisors[j] \in Ids
    BY DEF TypeOK
  <2>2. i \in 1..Len(managers) /\ i \in 1..Len(supervisors)
    BY <1>1, <1>2, <1>3, <2>1 DEF Short
  <2> QED
    BY <2>1, <2>2
<1>4. grid' \in [1..Len(results) -> [id : Ids, stage : Stages, manager : 0..MaxProjects,
                                     supervisor : 0..MaxProjects]]
  <2>1. Ids \subseteq 0..MaxProjects /\ 0 \in 0..MaxProjects
    BY ReportAssumption DEF Ids
  <2> QED
    BY <1>1, <1>2, <1>3, <2>1
<1>5. grid' \in Seq([id : Ids, stage : Stages, manager : 0..MaxProjects,
                     supervisor : 0..MaxProjects])
  BY <1>2, <1>4, FunctionIsSequence
<1>6. TypeOK'
  BY <1>1, <1>5 DEF TypeOK, Screens
<1>7. NoGap' /\ Accepted'
  BY <1>1 DEF NoGap, Accepted
<1>8. Titles'
  <2>1. \A i \in DOMAIN grid' : grid'[i].stage = type
    BY <1>1 DEF Titles
  <2> QED
    BY <1>1, <2>1 DEF Titles, TitleTrue
<1>9. FirstFound' /\ Joined' /\ CrashesOnlyOnRaggedData' /\ Fits'
  BY <1>1 DEF FirstFound, Settled, Joined, CrashesOnlyOnRaggedData, Fits
<1>10. OwnPeople'
  <2>1. SUFFICES ASSUME ~ragged, ~moved, WithPeople(report, type)
                 PROVE  \A i \in DOMAIN grid' : /\ grid'[i].manager = grid'[i].id
                                                /\ grid'[i].supervisor = grid'[i].id
    BY <1>1 DEF OwnPeople
  <2>2. Aligned(managers) /\ Aligned(supervisors)
    BY <1>1, <2>1 DEF Joined, Settled
  <2> QED
    BY <1>1, <2>1, <2>2 DEF Aligned
<1> QED
  BY <1>6, <1>7, <1>8, <1>9, <1>10

\* The loop that raises, and the drawing of the cells.
LEMMA CrashAndDrawPreserve ==
    ASSUME ReportInv, RowIndexRaises \/ DrawCells
    PROVE  ReportInv'
<1> USE DEF ReportInv
<1>1. UNCHANGED <<table, report, type, results, managers, supervisors, grid, ragged, moved>>
  BY DEF RowIndexRaises, DrawCells, criteria, queried
<1>2. /\ screen' \in {"crashed", "grid"} /\ screen \in {"rows", "draw"}
      /\ screen' = "grid" => screen = "draw" /\ ~TooNarrow
  BY DEF RowIndexRaises, DrawCells
<1>3. TypeOK'
  BY <1>1, <1>2 DEF TypeOK, Screens
<1>4. NoGap' /\ Accepted'
  BY <1>1, <1>2 DEF NoGap, Accepted
<1>5. Titles' /\ FirstFound' /\ Joined' /\ OwnPeople'
  BY <1>1, <1>2 DEF Titles, TitleTrue, FirstFound, Settled, Joined, OwnPeople, Drawn
<1>6. Fits'
  BY <1>1, <1>2 DEF Fits, TooNarrow
<1>7. CrashesOnlyOnRaggedData'
  <2>1. CASE RowIndexRaises
    <3>1. screen = "rows" /\ WithPeople(report, type) /\ Short
      BY <2>1 DEF RowIndexRaises
    <3>2. ASSUME ~ragged, ~moved PROVE FALSE
      <4>1. Len(results) <= Len(managers) /\ Len(results) <= Len(supervisors)
        BY <3>1, <3>2 DEF Joined, Settled, Aligned
      <4>2. Len(results) \in Nat /\ Len(managers) \in Nat /\ Len(supervisors) \in Nat
        BY DEF TypeOK
      <4> QED
        BY <3>1, <4>1, <4>2 DEF Short
    <3> QED
      BY <1>1, <3>2 DEF CrashesOnlyOnRaggedData
  <2>2. CASE DrawCells
    <3>1. ASSUME TooNarrow PROVE MissesCell
      <4>1. report \in ReportNames /\ type \in Types /\ ~Refused(report, type)
        BY <2>2 DEF DrawCells, Accepted, TypeOK
      <4>2. report = "SouthEast" /\ type = "Active"
        BY <3>1, <4>1, NarrowReport DEF TooNarrow
      <4> QED
        BY <4>2 DEF MissesCell
    <3> QED
      BY <1>1, <2>2, <3>1 DEF DrawCells, CrashesOnlyOnRaggedData, MissesCell
  <2> QED
    BY <2>1, <2>2
<1> QED
  BY <1>3, <1>4, <1>5, <1>6, <1>7

-----------------------------------------------------------------------------

\* The invariant holds initially, is kept by every step, and is not affected by
\* a step that changes nothing.
THEOREM ReportInvariance == Spec => []ReportInv
<1>1. Init => ReportInv
  <2>1. SUFFICES ASSUME Init PROVE ReportInv
    OBVIOUS
  <2>2. /\ <<>> \in Seq([id : Ids, stage : Stages])
        /\ <<>> \in Seq(Ids)
        /\ <<>> \in Seq([id : Ids, stage : Stages, manager : 0..MaxProjects,
                         supervisor : 0..MaxProjects])
    OBVIOUS
  <2>3. TypeOK
    <3>1. Absent \in [stage : Stages \cup {"none"}, meets : BOOLEAN, has : SUBSET Parts]
      BY DEF Absent
    <3> QED
      BY <2>1, <2>2, <3>1 DEF Init, TypeOK, Screens, Types
  <2>4. NoGap
    BY <2>1 DEF Init, NoGap, Absent
  <2>5. /\ Accepted /\ Titles /\ FirstFound /\ Joined
        /\ OwnPeople /\ CrashesOnlyOnRaggedData /\ Fits
    BY <2>1 DEF Init, Accepted, Titles, TitleTrue, Drawn, FirstFound, Settled, Joined,
                OwnPeople, CrashesOnlyOnRaggedData, Fits
  <2> QED
    BY <2>3, <2>4, <2>5 DEF ReportInv
<1>2. ReportInv /\ [Next]_vars => ReportInv'
  <2>1. SUFFICES ASSUME ReportInv, [Next]_vars PROVE ReportInv'
    OBVIOUS
  <2>2. CASE Next
    BY <2>1, <2>2, ScreensPreserve, WorldPreserves, QueryProjectsPreserves,
       QueryPeoplePreserves, BuildRowsPreserves, CrashAndDrawPreserve DEF Next
  <2>3. CASE UNCHANGED vars
    BY <2>1, <2>3 DEF vars, ReportInv, TypeOK, NoGap, Accepted, Titles, TitleTrue, Drawn,
                      FirstFound, FoundFirst, Settled, Wanted, Joined, Aligned, OwnPeople,
                      CrashesOnlyOnRaggedData, MissesCell, Fits, TooNarrow
  <2> QED
    BY <2>1, <2>2, <2>3
<1> QED
  BY <1>1, <1>2, PTL DEF Spec

\* The screens and what they hold keep their types.
THEOREM ReportsTyped == Spec => []TypeOK
<1>1. ReportInv => TypeOK
  BY DEF ReportInv
<1> QED
  BY <1>1, ReportInvariance, PTL

\* The join by position gives every row its own people, where no project misses a
\* row and no edit moves one during the load, however many are created meanwhile.
THEOREM RowsOwnTheirPeople == Spec => []OwnPeople
<1>1. ReportInv => OwnPeople
  BY DEF ReportInv
<1> QED
  BY <1>1, ReportInvariance, PTL

\* The joining loop and the drawing end the application only on ragged data, on
\* an edit during the load, or in the one report whose rows miss a cell.
THEOREM CrashIsExplained == Spec => []CrashesOnlyOnRaggedData
<1>1. ReportInv => CrashesOnlyOnRaggedData
  BY DEF ReportInv
<1> QED
  BY <1>1, ReportInvariance, PTL

\* Every row is of the stage that was asked for.
THEOREM RowsOfTheStage == Spec => []TitleTrue
<1>1. ReportInv => TitleTrue
  BY DEF ReportInv, Titles
<1> QED
  BY <1>1, ReportInvariance, PTL

\* In every grid that is drawn, and the repair report apart, each header stands
\* over the cell it names.
THEOREM HeadersOverTheirCells == Spec => []HeadersMatch
<1>1. ReportInv => HeadersMatch
  <2>1. SUFFICES ASSUME ReportInv, screen = "grid", grid # <<>>
                 PROVE  HeadersOf(report, type) = CellsOf(report, type) <=> report # "Repair"
    BY DEF HeadersMatch
  <2>2. report \in ReportNames /\ type \in Types /\ ~Refused(report, type)
    BY <2>1 DEF ReportInv, Accepted, TypeOK
  <2>3. ~(Len(HeadersOf(report, type)) > Len(CellsOf(report, type)))
    BY <2>1 DEF ReportInv, Fits, TooNarrow
  <2>4. ~(report = "SouthEast" /\ type = "Active")
    <3>1. SUFFICES ASSUME report = "SouthEast", type = "Active" PROVE FALSE
      OBVIOUS
    <3>2. Len(HeadersOf(report, type)) = 11 /\ Len(CellsOf(report, type)) = 10
      BY <3>1, SouthEastColumns
    <3> QED
      BY <2>3, <3>2
  <2>5. report # "Repair" => HeadersOf(report, type) = CellsOf(report, type)
    BY <2>2, <2>4, SameColumns
  <2>6. report = "Repair" => HeadersOf(report, type) # CellsOf(report, type)
    BY <2>2, RepairColumns
  <2> QED
    BY <2>5, <2>6
<1> QED
  BY <1>1, ReportInvariance, PTL
=============================================================================
